------------------------- MODULE ReviewStacksProofs -------------------------
(***************************************************************************)
(* Proofs about ReviewStacks, for any finite sets of patches and blocks,   *)
(* any processes and settings: the blocks of a stack and the entries of a  *)
(* block are an order, entries and commits of the stream correspond, and   *)
(* rebuilding, splitting and merging lose nothing.                         *)
(***************************************************************************)
EXTENDS ReviewStacks, FiniteSetTheorems, FunctionTheorems, TLAPS

-----------------------------------------------------------------------------
(* The inductive invariant.  Its parts speak of a setting st, blocks bl,    *)
(* entries en, the number g of rebases and the patches br of the branch,   *)
(* because a step is about two of each.                                    *)

Statuses == {"draft", "review", "approved", "merged"}
BlockRow == [position : Nat, status : Statuses]
EntryRow == [block : Blocks, position : Nat, gen : Nat]

BlocksIn(bl) == {b \in Blocks : bl[b] # NoBlock}
EntriesIn(en) == {e \in Commits : en[e] # NoEntry}
In(en, b) == {e \in EntriesIn(en) : en[e].block = b}
At(g, br) == {<<q, g>> : q \in br}

StoreOK(st, bl, en, g) ==
  /\ bl \in [Blocks -> BlockRow \cup {NoBlock}]
  /\ \A b \in BlocksIn(bl) : bl[b].position <= st.positions /\ bl[b].status \in st.statuses
  /\ en \in [Commits -> EntryRow \cup {NoEntry}]
  /\ \A e \in EntriesIn(en) : en[e].block \in BlocksIn(bl) /\ e[2] <= en[e].gen /\ en[e].gen <= g

\* No two blocks are at one position; no two entries are of one patch.
Distinct(bl) == \A b, c \in BlocksIn(bl) : bl[b].position = bl[c].position => b = c
OnePatch(en) == \A e, f \in EntriesIn(en) : e[1] = f[1] => e = f

\* Every entry shows a commit of the stream.
UpToDate(en, g, br) == \A e \in EntriesIn(en) : en[e].gen = g /\ e[1] \in br

\* Where nothing is dropped and nobody interferes, and no merge names a block twice, a block
\* has entries, numbered from 0.
Calm(st) == ~ st.drops /\ ~ st.reviewed
Neat(st) == Calm(st) /\ ~ st.repeats
Apart(S, place) == \A e, f \in S : place[e] = place[f] => e = f
Gapless(S, place) == \A e \in S : \A i \in 0 .. place[e] : \E f \in S : place[f] = i
Places(en) == [e \in Commits |-> en[e].position]
Numbered(en, b) == Apart(In(en, b), Places(en)) /\ Gapless(In(en, b), Places(en))
Tidy(bl, en) == \A b \in BlocksIn(bl) : In(en, b) # {} /\ Numbered(en, b)

\* Entries that are placed behind those of a block continue its numbers.
Continue(S, place, moved, places) ==
  /\ \A e \in S, f \in moved : place[e] < places[f]
  /\ \A f \in moved : \A i \in 0 .. places[f] :
       (\E e \in S : place[e] = i) \/ (\E e \in moved : places[e] = i)

\* What a call knows of the store when it writes.
Editable(bl, b) == b \in BlocksIn(bl) /\ bl[b].status # "merged"
Fresh(cs, en, g, br) ==
  cs # {} /\ cs \subseteq At(g, br) /\ \A e \in EntriesIn(en), c \in cs : e[1] # c[1]
Placed(places) == DOMAIN places \subseteq Commits /\ \A e \in DOMAIN places : places[e] \in Nat

Writing(st, c) == c.op = "status" /\ c.block \in Blocks /\ c.status \in st.statuses

Creating(st, c, bl, en, g, br) ==
  /\ c.op = "create" /\ Fresh(c.commits, en, g, br)
  /\ c.position \in 0 .. st.positions
  /\ \A b \in BlocksIn(bl) : bl[b].position < c.position

Adding(st, c, bl, en, g, br) ==
  /\ c.op = "add" /\ c.block \in Blocks /\ Fresh(c.commits, en, g, br)
  /\ c.position \in Nat
  /\ Calm(st) => Editable(bl, c.block) /\ \A e \in In(en, c.block) : en[e].position < c.position
  /\ Neat(st) => \A i \in 0 .. c.position : i # c.position => \E e \in In(en, c.block) : en[e].position = i

Removing(st, c, bl, en) ==
  /\ c.op = "remove" /\ c.block \in Blocks
  /\ Calm(st) => Editable(bl, c.block) /\ c.entries \subseteq In(en, c.block)

Splitting(st, c, bl, en) ==
  LET S == In(en, c.block)  moved == DOMAIN c.places IN
  /\ c.op = "split" /\ c.block \in Blocks /\ Placed(c.places)
  /\ c.position \in Nat /\ c.position < st.positions
  /\ \A b \in BlocksIn(bl) : bl[b].position < st.positions
  /\ Calm(st) => Editable(bl, c.block) /\ moved \subseteq S
  /\ Neat(st) => /\ moved # {} /\ S \ moved # {}
                 /\ Apart(moved, c.places) /\ Gapless(moved, c.places)
                 /\ \A e \in S \ moved, f \in moved : en[e].position < en[f].position

Merging(st, c, bl, en) ==
  LET moved == DOMAIN c.places IN
  /\ c.op = "merge" /\ c.block \in Blocks /\ Placed(c.places)
  /\ c.others \subseteq Blocks
  /\ \A e \in EntriesIn(en) : en[e].block \in c.others \ {c.block} => e \in moved
  /\ Calm(st) => /\ Editable(bl, c.block) /\ \A b \in c.others : Editable(bl, b)
                 /\ \A e \in moved : e \in EntriesIn(en) /\ en[e].block \in c.others
  /\ Neat(st) => /\ c.block \notin c.others
                 /\ Apart(moved, c.places)
                 /\ Continue(In(en, c.block), Places(en), moved, c.places)

Rebuilding(st, c, en, g, br) ==
  /\ c.op = "rebuild" /\ c.commits \subseteq At(g, br) /\ DOMAIN c.seen \subseteq Blocks
  /\ \A e \in EntriesIn(en) : en[e].block \in DOMAIN c.seen /\ e \in c.seen[en[e].block]
  /\ Calm(st) => \A e \in EntriesIn(en) : Matched(e, c.commits)

Populating(c, g, br) == c.op = "populate" /\ c.commits \subseteq At(g, br)

CallOK(st, c, bl, en, g, br) ==
  \/ c = NoCall \/ Writing(st, c)
  \/ Creating(st, c, bl, en, g, br) \/ Adding(st, c, bl, en, g, br) \/ Removing(st, c, bl, en)
  \/ Splitting(st, c, bl, en) \/ Merging(st, c, bl, en)
  \/ Rebuilding(st, c, en, g, br) \/ Populating(c, g, br)

\* One process builds; without the others, one call runs.
Builds(p) == call[p].op \notin {"none", "status"}
OneBuilder == \A p, q \in Procs : Builds(p) /\ Builds(q) => p = q
OneCall == ~ setting.reviewed => \A p, q \in Procs : call[p] # NoCall /\ call[q] # NoCall => p = q

Types ==
  /\ setting \in Settings /\ branch \subseteq setting.patches /\ gen \in 0 .. setting.rebases
  /\ call = [p \in Procs |-> call[p]]

StackIndInv ==
  /\ Types
  /\ StoreOK(setting, block, entry, gen) /\ Distinct(block) /\ OnePatch(entry)
  /\ (\A p \in Procs : call[p].op # "rebuild") => UpToDate(entry, gen, branch)
  /\ \A p \in Procs : CallOK(setting, call[p], block, entry, gen, branch)
  /\ OneBuilder /\ OneCall
  /\ Neat(setting) => Tidy(block, entry)

-----------------------------------------------------------------------------
(* Counting.  Sets of naturals have a least element, because finite sets   *)
(* are well-founded under inclusion.                                       *)

LEMMA LeastOf ==
  ASSUME NEW T \in SUBSET Nat, T # {}
  PROVE  \E x \in T : \A y \in T : x <= y
  <1> DEFINE I == {1 .. n : n \in T}
  <1>1. I \subseteq FiniteSubsetsOf(Nat) /\ I # {}
    <2>1. \A n \in T : 1 .. n \in SUBSET Nat /\ IsFiniteSet(1 .. n)
      BY FS_Interval
    <2>2. \A n \in T : 1 .. n \in FiniteSubsetsOf(Nat)
      BY <2>1 DEF FiniteSubsetsOf
    <2> QED BY <2>2
  <1>2. PICK C \in I : \A D \in I : ~ (<<D, C>> \in StrictSubsetOrdering(Nat))
    <2> HIDE DEF I
    <2> QED BY <1>1, FS_StrictSubsetOrderingWellFounded, WFMin
  <1>3. PICK x \in T : C = 1 .. x
    OBVIOUS
  <1>4. ASSUME NEW y \in T, y < x PROVE FALSE
    <2> DEFINE D == 1 .. y  E == 1 .. x
    <2>1. D \in I /\ C = E
      BY <1>3
    <2>2. D \subseteq E /\ x \in E /\ x \notin D
      BY <1>4
    <2>3. D \in SUBSET Nat /\ E \in SUBSET Nat
      OBVIOUS
    <2> HIDE DEF D, E, I
    <2>4. <<D, E>> \in StrictSubsetOrdering(Nat)
      BY <2>2, <2>3 DEF StrictSubsetOrdering
    <2> QED BY <2>1, <2>4, <1>2
  <1> QED BY <1>4

\* Finite sets of naturals have a greatest element.
LEMMA GreatestOf ==
  ASSUME NEW S \in SUBSET Nat, IsFiniteSet(S), S # {}
  PROVE  \E x \in S : \A y \in S : y <= x
  <1> DEFINE Over(x) == {y \in S : x < y}
             I == {Over(x) : x \in S}
  <1>1. I \subseteq FiniteSubsetsOf(Nat) /\ I # {}
    <2>1. \A x \in S : IsFiniteSet(Over(x))
      BY FS_Subset
    <2>2. \A x \in S : Over(x) \in FiniteSubsetsOf(Nat)
      BY <2>1 DEF FiniteSubsetsOf
    <2> QED BY <2>2
  <1>2. PICK C \in I : \A D \in I : ~ (<<D, C>> \in StrictSubsetOrdering(Nat))
    <2> HIDE DEF I
    <2> QED BY <1>1, FS_StrictSubsetOrderingWellFounded, WFMin
  <1>3. PICK x \in S : C = Over(x)
    OBVIOUS
  <1>4. ASSUME NEW y \in S, x < y PROVE FALSE
    <2>0. x \in Nat /\ y \in Nat /\ \A z \in S : y < z => x < z
      BY <1>4
    <2>1. Over(y) \in I /\ Over(y) \subseteq Over(x) /\ y \in Over(x) /\ y \notin Over(y)
      <3>1. Over(y) \in I
        OBVIOUS
      <3>2. Over(y) \subseteq Over(x)
        BY <2>0
      <3>3. y \in Over(x) /\ y \notin Over(y)
        BY <1>4, <2>0
      <3> QED BY <3>1, <3>2, <3>3
    <2>2. Over(y) \in SUBSET Nat /\ Over(x) \in SUBSET Nat
      OBVIOUS
    <2> HIDE DEF Over, I
    <2>3. <<Over(y), Over(x)>> \in StrictSubsetOrdering(Nat)
      BY <2>1, <2>2 DEF StrictSubsetOrdering
    <2> QED BY <2>1, <2>3, <1>2, <1>3
  <1> QED BY <1>4

LEMMA AfterIs ==
  ASSUME NEW S \in SUBSET Nat, IsFiniteSet(S)
  PROVE  /\ After(S) \in Nat
         /\ \A x \in S : x < After(S)
         /\ After(S) # 0 => After(S) - 1 \in S
  <1>1. CASE S = {}
    BY <1>1 DEF After
  <1>2. CASE S # {}
    <2>1. Greatest(S) \in S /\ \A y \in S : y <= Greatest(S)
      BY <1>2, GreatestOf DEF Greatest
    <2>2. After(S) = 1 + Greatest(S)
      BY <1>2 DEF After
    <2> PICK g : g = Greatest(S)
      OBVIOUS
    <2>3. g \in Nat /\ g \in S /\ \A y \in S : y \in Nat /\ y <= g
      BY <2>1
    <2>4. (1 + g) - 1 = g /\ \A y \in S : y < 1 + g
      BY <2>3
    <2> QED BY <2>2, <2>3, <2>4
  <1> QED BY <1>1, <1>2

\* The place of x in S, in the order R.
Ordered(R, S) ==
  /\ \A x \in S : <<x, x>> \notin R
  /\ \A x, y, z \in S : <<x, y>> \in R /\ <<y, z>> \in R => <<x, z>> \in R
  /\ \A x, y \in S : x = y \/ <<x, y>> \in R \/ <<y, x>> \in R
Below(x, R, S) == {y \in S : <<y, x>> \in R}
Nth(x, R, S) == Cardinality(Below(x, R, S))

LEMMA NthLess ==
  ASSUME NEW S, NEW R, IsFiniteSet(S), Ordered(R, S), NEW x \in S, NEW y \in S, <<x, y>> \in R
  PROVE  Nth(x, R, S) < Nth(y, R, S)
  <1>1. Below(x, R, S) \subseteq Below(y, R, S)
    BY DEF Below, Ordered
  <1>2. x \in Below(y, R, S) /\ x \notin Below(x, R, S)
    BY DEF Below, Ordered
  <1>3. IsFiniteSet(Below(y, R, S))
    BY FS_Subset DEF Below
  <1>4. /\ Cardinality(Below(x, R, S)) <= Cardinality(Below(y, R, S))
        /\ Cardinality(Below(y, R, S)) # Cardinality(Below(x, R, S))
    BY <1>1, <1>2, <1>3, FS_Subset
  <1>5. Cardinality(Below(x, R, S)) \in Nat /\ Cardinality(Below(y, R, S)) \in Nat
    BY <1>1, <1>3, FS_Subset, FS_CardinalityType
  <1> QED BY <1>4, <1>5 DEF Nth

LEMMA FirstNumbers ==
  ASSUME NEW n \in Nat
  PROVE  IsFiniteSet({i \in Nat : i < n}) /\ Cardinality({i \in Nat : i < n}) = n
  <1>1. {i \in Nat : i < n} = 0 .. n - 1
    OBVIOUS
  <1>2. IsFiniteSet(0 .. n - 1) /\ Cardinality(0 .. n - 1) = IF 0 > n - 1 THEN 0 ELSE n - 1 - 0 + 1
    BY FS_Interval
  <1>3. Cardinality(0 .. n - 1) = n
    BY <1>2
  <1> QED BY <1>1, <1>2, <1>3

\* The places are 0, 1, ... up to the number of elements, each once.
LEMMA Counted ==
  ASSUME NEW S, NEW R, IsFiniteSet(S), Ordered(R, S)
  PROVE  /\ Cardinality(S) \in Nat
         /\ \A x \in S : Nth(x, R, S) \in Nat /\ Nth(x, R, S) < Cardinality(S)
         /\ \A x, y \in S : Nth(x, R, S) = Nth(y, R, S) => x = y
         /\ \A i \in Nat : i < Cardinality(S) => \E x \in S : Nth(x, R, S) = i
  <1>1. Cardinality(S) \in Nat
    BY FS_CardinalityType
  <1> PICK n : n = Cardinality(S)
    OBVIOUS
  <1>2. \A x \in S : Nth(x, R, S) \in Nat /\ Nth(x, R, S) < n
    <2> TAKE x \in S
    <2>1. Below(x, R, S) \subseteq S /\ x \notin Below(x, R, S)
      BY DEF Below, Ordered
    <2>2. IsFiniteSet(Below(x, R, S)) /\ Cardinality(Below(x, R, S)) <= n /\ Cardinality(Below(x, R, S)) # n
      BY <2>1, FS_Subset
    <2>3. Cardinality(Below(x, R, S)) \in Nat
      BY <2>2, FS_CardinalityType
    <2> QED BY <1>1, <2>2, <2>3 DEF Nth
  <1>3. \A x, y \in S : Nth(x, R, S) = Nth(y, R, S) => x = y
    <2> TAKE x, y \in S
    <2>1. CASE <<x, y>> \in R
      BY <2>1, <1>2, NthLess
    <2>2. CASE <<y, x>> \in R
      BY <2>2, <1>2, NthLess
    <2> QED BY <2>1, <2>2 DEF Ordered
  <1>4. \A i \in Nat : i < n => \E x \in S : Nth(x, R, S) = i
    <2> DEFINE T == {i \in Nat : i < n}
               f == [x \in S |-> Nth(x, R, S)]
    <2>1. IsFiniteSet(T) /\ Cardinality(T) = n
      BY <1>1, FirstNumbers
    <2>2. f \in Injection(S, T)
      BY <1>2, <1>3 DEF Injection, IsInjective
    <2> HIDE DEF f
    <2>3. f \in Surjection(S, T)
      BY <2>1, <2>2, FS_Injection
    <2>4. \A i \in T : \E x \in S : f[x] = i
      BY <2>3 DEF Surjection
    <2> QED BY <2>4 DEF f
  <1> QED BY <1>1, <1>2, <1>3, <1>4

\* Different numbers below n: there are n things at most, and n if each number is there.
LEMMA FewNumbers ==
  ASSUME NEW S, NEW f, NEW n \in Nat, \A x \in S : f[x] \in Nat /\ f[x] < n, Apart(S, f)
  PROVE  IsFiniteSet(S) /\ Cardinality(S) <= n
  <1> DEFINE T == {i \in Nat : i < n}  g == [x \in S |-> f[x]]
  <1>1. g \in Injection(S, T)
    BY DEF Injection, IsInjective, Apart
  <1>2. IsFiniteSet(T) /\ Cardinality(T) = n
    BY FirstNumbers
  <1> HIDE DEF T, g
  <1> QED BY <1>1, <1>2, FS_Injection

LEMMA AllNumbers ==
  ASSUME NEW S, NEW f, NEW n \in Nat, IsFiniteSet(S), \A i \in Nat : i < n => \E x \in S : f[x] = i
  PROVE  n <= Cardinality(S)
  <1> DEFINE T == {i \in Nat : i < n}  g == [i \in T |-> CHOOSE x \in S : f[x] = i]
  <1>1. \A i \in T : g[i] \in S /\ f[g[i]] = i
    OBVIOUS
  <1>2. g \in Injection(T, S)
    <2>1. g \in [T -> S]
      BY <1>1
    <2>2. \A i, j \in T : g[i] = g[j] => i = j
      BY <1>1
    <2> HIDE DEF g
    <2> QED BY <2>1, <2>2 DEF Injection, IsInjective
  <1>3. Cardinality(T) = n
    BY FirstNumbers
  <1> HIDE DEF T, g
  <1> QED BY <1>2, <1>3, FS_Injection

LEMMA RankIs ==
  ASSUME NEW S \in SUBSET Nat, IsFiniteSet(S)
  PROVE  /\ Cardinality(S) \in Nat
         /\ \A x \in S : Rank(x, S) \in Nat /\ Rank(x, S) < Cardinality(S)
         /\ \A x, y \in S : Rank(x, S) = Rank(y, S) => x = y
         /\ \A x, y \in S : x < y => Rank(x, S) < Rank(y, S)
         /\ \A i \in Nat : i < Cardinality(S) => \E x \in S : Rank(x, S) = i
  <1> DEFINE R == {z \in S \X S : z[1] < z[2]}
  <1>1. \A x, y \in S : <<x, y>> \in R <=> x < y
    OBVIOUS
  <1> HIDE DEF R
  <1>2. Ordered(R, S)
    BY <1>1 DEF Ordered
  <1>3. \A x \in S : Rank(x, S) = Nth(x, R, S)
    <2> TAKE x \in S
    <2>1. {y \in S : y < x} = Below(x, R, S)
      BY <1>1 DEF Below
    <2> QED BY <2>1 DEF Rank, Nth
  <1>4. \A x, y \in S : x < y => Nth(x, R, S) < Nth(y, R, S)
    BY <1>1, <1>2, NthLess
  <1>5. /\ Cardinality(S) \in Nat
        /\ \A x \in S : Nth(x, R, S) \in Nat /\ Nth(x, R, S) < Cardinality(S)
        /\ \A x, y \in S : Nth(x, R, S) = Nth(y, R, S) => x = y
        /\ \A i \in Nat : i < Cardinality(S) => \E x \in S : Nth(x, R, S) = i
    BY <1>2, Counted
  <1>6. \A i \in Nat : i < Cardinality(S) => \E x \in S : Rank(x, S) = i
    BY <1>3, <1>5
  <1> QED BY <1>3, <1>4, <1>5, <1>6

\* The n smallest.
LEMMA SmallestAre ==
  ASSUME NEW S \in SUBSET Nat, IsFiniteSet(S), NEW n \in Nat, n <= Cardinality(S)
  PROVE  \E T \in SUBSET S : Cardinality(T) = n /\ \A b \in T, c \in S \ T : b < c
  <1> DEFINE T == {b \in S : Rank(b, S) < n}
             f == [b \in S |-> Rank(b, S)]
  <1>1. IsFiniteSet(T) /\ Cardinality(T) \in Nat
    BY FS_Subset, FS_CardinalityType
  <1>2. Cardinality(T) <= n
    <2>1. \A b \in T : f[b] \in Nat /\ f[b] < n
      BY RankIs
    <2>2. Apart(T, f)
      BY RankIs DEF Apart
    <2> HIDE DEF T, f
    <2> QED BY <2>1, <2>2, FewNumbers
  <1>3. n <= Cardinality(T)
    <2>1. \A i \in Nat : i < n => \E b \in T : f[b] = i
      <3> TAKE i \in Nat
      <3> HAVE i < n
      <3>1. i < Cardinality(S)
        BY RankIs
      <3>2. PICK b \in S : Rank(b, S) = i
        BY <3>1, RankIs
      <3> QED BY <3>2
    <2> HIDE DEF T, f
    <2> QED BY <2>1, <1>1, AllNumbers
  <1>4. \A b \in T, c \in S \ T : b < c
    <2> TAKE b \in T, c \in S \ T
    <2>1. Rank(b, S) \in Nat /\ Rank(c, S) \in Nat /\ Rank(b, S) < n /\ ~ (Rank(c, S) < n)
      BY RankIs
    <2>2. c < b => Rank(c, S) < Rank(b, S)
      BY RankIs
    <2>3. b # c /\ b \in Nat /\ c \in Nat
      OBVIOUS
    <2>4. ~ (c < b)
      BY <2>1, <2>2
    <2> QED BY <2>3, <2>4
  <1>5. Cardinality(T) = n
    BY <1>1, <1>2, <1>3
  <1>6. T \in SUBSET S
    OBVIOUS
  <1> HIDE DEF T
  <1> QED BY <1>4, <1>5, <1>6

-----------------------------------------------------------------------------
(* The orders of blocks and entries *)

LEMMA Finite ==
  /\ IsFiniteSet(Commits) /\ \A S \in SUBSET Commits : IsFiniteSet(S)
  /\ \A S \in SUBSET Blocks : IsFiniteSet(S) /\ S \in SUBSET Nat
  /\ \A S \in SUBSET Patches : IsFiniteSet(S) /\ S \in SUBSET Nat
  <1>1. IsFiniteSet(Patches) /\ IsFiniteSet(0 .. MaxGen)
    BY ReviewStacksAssumption, FS_Interval
  <1>2. IsFiniteSet(Commits)
    BY <1>1, FS_Product DEF Commits
  <1>3. \A S \in SUBSET Commits : IsFiniteSet(S)
    BY <1>2, FS_Subset
  <1>4. \A S \in SUBSET Blocks : IsFiniteSet(S)
    BY ReviewStacksAssumption, FS_Subset
  <1>5. \A S \in SUBSET Patches : IsFiniteSet(S)
    BY ReviewStacksAssumption, FS_Subset
  <1> QED BY <1>2, <1>3, <1>4, <1>5, ReviewStacksAssumption

LEMMA Stored ==
  ASSUME StoreOK(setting, block, entry, gen)
  PROVE  /\ Rows = BlocksIn(block) /\ Entries = EntriesIn(entry)
         /\ \A b : Of(b) = In(entry, b)
         /\ \A b \in Rows : b \in Nat /\ block[b] \in BlockRow /\ block[b].position \in Nat
         /\ \A e \in Entries : /\ e \in Commits /\ e[1] \in Nat /\ e[2] \in Nat /\ e = <<e[1], e[2]>>
                               /\ entry[e] \in EntryRow /\ entry[e].block \in Rows
                               /\ entry[e].position \in Nat /\ entry[e].gen \in Nat
  <1>1. Rows = BlocksIn(block) /\ Entries = EntriesIn(entry) /\ \A b : Of(b) = In(entry, b)
    BY DEF Rows, BlocksIn, Entries, EntriesIn, Of, In
  <1>2. \A b \in Rows : b \in Nat /\ block[b] \in BlockRow /\ block[b].position \in Nat
    BY ReviewStacksAssumption DEF StoreOK, Rows, BlockRow
  <1>3. \A e \in Commits : e[1] \in Nat /\ e[2] \in Nat /\ e = <<e[1], e[2]>>
    <2>1. \A e \in Commits : e[1] \in Patches /\ e[2] \in 0 .. MaxGen /\ e = <<e[1], e[2]>>
      BY DEF Commits
    <2>2. \A i \in 0 .. MaxGen : i \in Nat
      BY ReviewStacksAssumption
    <2> QED BY <2>1, <2>2, ReviewStacksAssumption
  <1>4. \A e \in Entries : e \in Commits /\ entry[e] \in EntryRow /\ entry[e].block \in Rows
    BY <1>1 DEF StoreOK, Entries
  <1>5. \A x \in EntryRow : x.position \in Nat /\ x.gen \in Nat
    BY DEF EntryRow
  <1> QED BY <1>1, <1>2, <1>3, <1>4, <1>5

LEMMA BlockOrder ==
  ASSUME StoreOK(setting, block, entry, gen)
  PROVE  /\ \A b \in Rows : ~ BlockBefore(b, b)
         /\ \A b, c, d \in Rows : BlockBefore(b, c) /\ BlockBefore(c, d) => BlockBefore(b, d)
         /\ \A b, c \in Rows : b = c \/ BlockBefore(b, c) \/ BlockBefore(c, b)
  BY Stored DEF BlockBefore

LEMMA EntryOrder ==
  ASSUME StoreOK(setting, block, entry, gen)
  PROVE  /\ \A e \in Entries : ~ Before(e, e)
         /\ \A e, f, g \in Entries : Before(e, f) /\ Before(f, g) => Before(e, g)
         /\ \A e, f \in Entries : e = f \/ Before(e, f) \/ Before(f, e)
  <1>1. \A e \in Entries : ~ Before(e, e)
    BY Stored, BlockOrder DEF Before
  <1>2. ASSUME NEW e \in Entries, NEW f \in Entries, NEW g \in Entries, Before(e, f), Before(f, g)
        PROVE  Before(e, g)
    <2>1. CASE BlockBefore(entry[e].block, entry[f].block)
      <3>1. BlockBefore(entry[f].block, entry[g].block) => BlockBefore(entry[e].block, entry[g].block)
        BY <2>1, Stored, BlockOrder
      <3> QED BY <1>2, <2>1, <3>1 DEF Before
    <2>2. CASE ~ BlockBefore(entry[e].block, entry[f].block)
      <3>1. entry[e].block = entry[f].block
        BY <1>2, <2>2 DEF Before
      <3>2. CASE BlockBefore(entry[f].block, entry[g].block)
        BY <3>1, <3>2 DEF Before
      <3>3. CASE ~ BlockBefore(entry[f].block, entry[g].block)
        <4>1. entry[f].block = entry[g].block
          BY <1>2, <3>3 DEF Before
        <4> QED BY <1>2, <2>2, <3>1, <3>3, <4>1, Stored DEF Before
      <3> QED BY <3>2, <3>3
    <2> QED BY <2>1, <2>2
  <1>3. ASSUME NEW e \in Entries, NEW f \in Entries, e # f
        PROVE  Before(e, f) \/ Before(f, e)
    <2>1. CASE entry[e].block # entry[f].block
      BY <2>1, Stored, BlockOrder DEF Before
    <2>2. CASE entry[e].block = entry[f].block
      <3>1. e[1] # f[1] \/ e[2] # f[2]
        BY <1>3, Stored
      <3> QED BY <2>2, <3>1, Stored DEF Before
    <2> QED BY <2>1, <2>2
  <1> QED BY <1>1, <1>2, <1>3

\* The places of the entries S are 0, 1, ..., each once.
LEMMA PlacesAre ==
  ASSUME StoreOK(setting, block, entry, gen), NEW S \in SUBSET Entries
  PROVE  /\ Cardinality(S) \in Nat
         /\ \A e \in S : PlaceIn(e, S) \in Nat /\ PlaceIn(e, S) < Cardinality(S)
         /\ \A e, f \in S : PlaceIn(e, S) = PlaceIn(f, S) => e = f
         /\ \A i \in Nat : i < Cardinality(S) => \E e \in S : PlaceIn(e, S) = i
  <1> PICK R : R = {z \in S \X S : Before(z[1], z[2])}
    OBVIOUS
  <1>1. \A e, f \in S : <<e, f>> \in R <=> Before(e, f)
    OBVIOUS
  <1>2. Ordered(R, S)
    BY <1>1, EntryOrder DEF Ordered
  <1>3. \A e \in S : PlaceIn(e, S) = Nth(e, R, S)
    <2> TAKE e \in S
    <2>1. {f \in S : Before(f, e)} = Below(e, R, S)
      BY <1>1 DEF Below
    <2> QED BY <2>1 DEF PlaceIn, Nth
  <1>4. IsFiniteSet(S)
    BY Finite, Stored
  <1> QED BY <1>2, <1>3, <1>4, Counted

-----------------------------------------------------------------------------
(* What every call relies on, and what calls leave alone *)

LEMMA Known ==
  ASSUME StackIndInv
  PROVE  /\ setting \in Setting /\ gen \in 0 .. MaxGen /\ gen \in Nat /\ branch \in SUBSET Patches
         /\ setting.positions \in Nat /\ setting.rebases \in 0 .. MaxGen /\ gen <= setting.rebases
         /\ "draft" \in setting.statuses /\ setting.statuses \subseteq Statuses
         /\ Current = At(gen, branch)
         /\ \A e \in At(gen, branch) : e \in Commits /\ e[1] \in branch /\ e[2] = gen /\ e = <<e[1], gen>>
  <1>1. setting \in Setting
    BY ReviewStacksAssumption DEF StackIndInv, Types
  <1>2. /\ setting.patches \subseteq Patches /\ setting.rebases \in 0 .. MaxGen
        /\ "draft" \in setting.statuses /\ setting.statuses \subseteq Statuses /\ setting.positions \in Nat
    BY <1>1 DEF Setting, Statuses
  <1>3. branch \subseteq setting.patches /\ gen \in 0 .. setting.rebases
    BY DEF StackIndInv, Types
  <1>4. gen \in 0 .. MaxGen /\ gen \in Nat /\ gen <= setting.rebases
    BY <1>2, <1>3, ReviewStacksAssumption
  <1>5. Current = At(gen, branch)
    BY DEF Current, At
  <1>6. \A e \in At(gen, branch) : e \in Commits /\ e[1] \in branch /\ e[2] = gen /\ e = <<e[1], gen>>
    BY <1>2, <1>3, <1>4 DEF At, Commits
  <1> QED BY <1>1, <1>2, <1>3, <1>4, <1>5, <1>6

LEMMA SettingIsKnown ==
  ASSUME StackIndInv
  PROVE  /\ StoreOK(setting, block, entry, gen) /\ Distinct(block) /\ OnePatch(entry)
         /\ \A p \in Procs : CallOK(setting, call[p], block, entry, gen, branch)
         /\ OneBuilder /\ OneCall /\ Types
         /\ Neat(setting) => Tidy(block, entry)
  BY DEF StackIndInv

\* Which of the forms a call has is told by its name.
LEMMA CallIs ==
  ASSUME NEW st, NEW c, NEW bl, NEW en, NEW g, NEW br, CallOK(st, c, bl, en, g, br)
  PROVE  /\ c.op = "none" => c = NoCall
         /\ c.op = "status" => Writing(st, c)
         /\ c.op = "create" => Creating(st, c, bl, en, g, br)
         /\ c.op = "add" => Adding(st, c, bl, en, g, br)
         /\ c.op = "remove" => Removing(st, c, bl, en)
         /\ c.op = "split" => Splitting(st, c, bl, en)
         /\ c.op = "merge" => Merging(st, c, bl, en)
         /\ c.op = "rebuild" => Rebuilding(st, c, en, g, br)
         /\ c.op = "populate" => Populating(c, g, br)
  <1>1. CASE c = NoCall
    BY <1>1 DEF NoCall
  <1>2. CASE Writing(st, c)
    BY <1>2 DEF Writing
  <1>3. CASE Creating(st, c, bl, en, g, br)
    BY <1>3 DEF Creating
  <1>4. CASE Adding(st, c, bl, en, g, br)
    BY <1>4 DEF Adding
  <1>5. CASE Removing(st, c, bl, en)
    BY <1>5 DEF Removing
  <1>6. CASE Splitting(st, c, bl, en)
    BY <1>6 DEF Splitting
  <1>7. CASE Merging(st, c, bl, en)
    BY <1>7 DEF Merging
  <1>8. CASE Rebuilding(st, c, en, g, br)
    BY <1>8 DEF Rebuilding
  <1>9. CASE Populating(c, g, br)
    BY <1>9 DEF Populating
  <1> QED BY <1>1, <1>2, <1>3, <1>4, <1>5, <1>6, <1>7, <1>8, <1>9 DEF CallOK

\* A builder but for a rebuild finds every entry at a commit of the stream.
LEMMA BuilderFindsCurrent ==
  ASSUME StackIndInv, NEW p \in Procs, call[p].op # "rebuild",
         \A q \in Procs : q # p => ~ Builds(q)
  PROVE  UpToDate(entry, gen, branch)
  <1>1. \A q \in Procs : call[q].op # "rebuild"
    BY DEF Builds
  <1> QED BY <1>1 DEF StackIndInv

LEMMA OthersDoNotBuild ==
  ASSUME StackIndInv, NEW p \in Procs, Builds(p)
  PROVE  \A q \in Procs : q # p => ~ Builds(q) /\ (call[q] = NoCall \/ Writing(setting, call[q]))
  <1> TAKE q \in Procs
  <1> HAVE q # p
  <1>1. ~ Builds(q)
    BY DEF StackIndInv, OneBuilder
  <1>2. CallOK(setting, call[q], block, entry, gen, branch)
    BY DEF StackIndInv
  <1> QED BY <1>1, <1>2, CallIs DEF Builds

\* A call begins that has read what is so.
LEMMA BeginKeeps ==
  ASSUME StackIndInv, NEW p \in Procs, NEW c, call[p] = NoCall, MayReview, Begin(p, c),
         CallOK(setting, c, block, entry, gen, branch),
         c.op \in {"none", "status"} \/ \A q \in Procs : ~ Builds(q)
  PROVE  StackIndInv'
  <1>1. /\ UNCHANGED <<setting, branch, gen, block, entry>>
        /\ call' = [call EXCEPT ![p] = c]
    BY DEF Begin
  <1>2. \A q \in Procs : call'[q] = IF q = p THEN c ELSE call[q]
    BY <1>1 DEF StackIndInv, Types
  <1>3. Types'
    BY <1>1 DEF StackIndInv, Types
  <1>4. \A q \in Procs : CallOK(setting', call'[q], block', entry', gen', branch')
    BY <1>1, <1>2 DEF StackIndInv
  <1>5. OneBuilder'
    BY <1>2 DEF StackIndInv, OneBuilder, Builds
  <1>6. OneCall'
    <2>1. ~ setting.reviewed => \A q \in Procs : call[q] = NoCall
      BY DEF MayReview, Quiet
    <2> QED BY <2>1, <1>1, <1>2 DEF OneCall
  <1>7. (\A q \in Procs : call'[q].op # "rebuild") => UpToDate(entry', gen', branch')
    <2>1. (\A q \in Procs : call'[q].op # "rebuild") => \A q \in Procs : call[q].op # "rebuild"
      BY <1>2 DEF NoCall
    <2> QED BY <2>1, <1>1 DEF StackIndInv
  <1>8. StoreOK(setting', block', entry', gen') /\ Distinct(block') /\ OnePatch(entry')
    BY <1>1 DEF StackIndInv
  <1>9. Neat(setting') => Tidy(block', entry')
    BY <1>1 DEF StackIndInv
  <1> QED BY <1>3, <1>4, <1>5, <1>6, <1>7, <1>8, <1>9 DEF StackIndInv

\* A call that builds has written what it was to write.
LEMMA EndsKeeps ==
  ASSUME StackIndInv, NEW p \in Procs, NEW op, op \notin {"none", "status"}, Ends(p, op),
         StoreOK(setting, block', entry', gen), Distinct(block'), OnePatch(entry'),
         UpToDate(entry', gen, branch), Neat(setting) => Tidy(block', entry')
  PROVE  StackIndInv'
  <1>1. /\ call[p].op = op /\ UNCHANGED <<setting, branch, gen>>
        /\ call' = [call EXCEPT ![p] = NoCall]
    BY DEF Ends
  <1>2. \A q \in Procs : call'[q] = IF q = p THEN NoCall ELSE call[q]
    BY <1>1 DEF StackIndInv, Types
  <1>3. Types'
    BY <1>1 DEF StackIndInv, Types
  <1>4. \A q \in Procs : call'[q] = NoCall \/ Writing(setting, call'[q])
    BY <1>1, <1>2, OthersDoNotBuild DEF Builds
  <1>5. \A q \in Procs : CallOK(setting', call'[q], block', entry', gen', branch')
    BY <1>1, <1>4 DEF CallOK
  <1>6. OneBuilder'
    <2>1. \A q \in Procs : call'[q].op \in {"none", "status"}
      BY <1>4 DEF NoCall, Writing
    <2> QED BY <2>1 DEF OneBuilder, Builds
  <1>7. OneCall'
    BY <1>1, <1>2 DEF StackIndInv, OneCall
  <1>8. StoreOK(setting', block', entry', gen') /\ Distinct(block') /\ OnePatch(entry')
        /\ UpToDate(entry', gen', branch')
    BY <1>1
  <1>9. Neat(setting') => Tidy(block', entry')
    BY <1>1
  <1> QED BY <1>3, <1>5, <1>6, <1>7, <1>8, <1>9 DEF StackIndInv

\* Reviews and deletions leave a call with what it knows.
Fewer(bl, en, bl2, en2) ==
  /\ \A b \in BlocksIn(bl2) : b \in BlocksIn(bl) /\ bl2[b].position = bl[b].position
  /\ \A e \in EntriesIn(en2) : e \in EntriesIn(en) /\ en2[e] = en[e]

LEMMA CallStays ==
  ASSUME NEW st, st.reviewed, NEW c, NEW bl, NEW en, NEW g, NEW br, NEW bl2, NEW en2, NEW br2,
         CallOK(st, c, bl, en, g, br), Fewer(bl, en, bl2, en2), br \subseteq br2
  PROVE  CallOK(st, c, bl2, en2, g, br2)
  <1>1. ~ Calm(st) /\ ~ Neat(st)
    BY DEF Calm, Neat
  <1>2. At(g, br) \subseteq At(g, br2)
    BY DEF At
  <1>3. \A cs : Fresh(cs, en, g, br) => Fresh(cs, en2, g, br2)
    BY <1>2 DEF Fresh, Fewer
  <1>4. CASE c = NoCall \/ Writing(st, c)
    BY <1>4 DEF CallOK
  <1>5. CASE Creating(st, c, bl, en, g, br)
    <2>1. Creating(st, c, bl2, en2, g, br2)
      BY <1>5, <1>3 DEF Creating, Fewer
    <2> QED BY <2>1 DEF CallOK
  <1>6. CASE Adding(st, c, bl, en, g, br)
    <2>1. Adding(st, c, bl2, en2, g, br2)
      BY <1>6, <1>1, <1>3 DEF Adding
    <2> QED BY <2>1 DEF CallOK
  <1>7. CASE Removing(st, c, bl, en)
    <2>1. Removing(st, c, bl2, en2)
      BY <1>7, <1>1 DEF Removing
    <2> QED BY <2>1 DEF CallOK
  <1>8. CASE Splitting(st, c, bl, en)
    <2>1. Splitting(st, c, bl2, en2)
      BY <1>8, <1>1 DEF Splitting, Fewer
    <2> QED BY <2>1 DEF CallOK
  <1>9. CASE Merging(st, c, bl, en)
    <2>1. Merging(st, c, bl2, en2)
      BY <1>9, <1>1 DEF Merging, Fewer
    <2> QED BY <2>1 DEF CallOK
  <1>10. CASE Rebuilding(st, c, en, g, br)
    <2>1. Rebuilding(st, c, en2, g, br2)
      BY <1>10, <1>1, <1>2 DEF Rebuilding, Fewer
    <2> QED BY <2>1 DEF CallOK
  <1>11. CASE Populating(c, g, br)
    <2>1. Populating(c, g, br2)
      BY <1>11, <1>2 DEF Populating
    <2> QED BY <2>1 DEF CallOK
  <1> QED BY <1>4, <1>5, <1>6, <1>7, <1>8, <1>9, <1>10, <1>11 DEF CallOK

\* The steps of those who do not build.
LEMMA ReviewKeeps ==
  ASSUME StackIndInv, UNCHANGED <<setting, gen>>, branch \subseteq branch', branch' \subseteq setting.patches,
         call' = [q \in Procs |-> call'[q]],
         \A q \in Procs : call'[q] = call[q] \/ (call[q].op = "status" /\ call'[q] = NoCall),
         ~ setting.reviewed => \A q \in Procs : call'[q] = NoCall,
         StoreOK(setting, block', entry', gen), Fewer(block, entry, block', entry'),
         Neat(setting) => Tidy(block', entry')
  PROVE  StackIndInv'
  <1>1. Types'
    BY DEF StackIndInv, Types
  <1>2. Distinct(block') /\ OnePatch(entry')
    BY DEF StackIndInv, Distinct, OnePatch, Fewer
  <1>3. (\A q \in Procs : call'[q].op # "rebuild") => UpToDate(entry', gen', branch')
    <2>1. (\A q \in Procs : call'[q].op # "rebuild") => \A q \in Procs : call[q].op # "rebuild"
      OBVIOUS
    <2> QED BY <2>1 DEF StackIndInv, UpToDate, Fewer
  <1>4. \A q \in Procs : CallOK(setting', call'[q], block', entry', gen', branch')
    <2> TAKE q \in Procs
    <2>1. CASE call'[q] = NoCall
      BY <2>1 DEF CallOK
    <2>2. CASE call'[q] # NoCall
      <3>1. setting.reviewed /\ CallOK(setting, call[q], block, entry, gen, branch) /\ call'[q] = call[q]
        BY <2>2 DEF StackIndInv
      <3>2. CallOK(setting, call[q], block', entry', gen, branch')
        BY <3>1, CallStays
      <3> QED BY <3>1, <3>2
    <2> QED BY <2>1, <2>2
  <1>5. OneBuilder'
    <2>1. \A q \in Procs : call'[q].op \notin {"none", "status"} => call'[q] = call[q]
      BY DEF NoCall
    <2> QED BY <2>1 DEF StackIndInv, OneBuilder, Builds
  <1>6. OneCall'
    BY DEF OneCall
  <1> QED BY <1>1, <1>2, <1>3, <1>4, <1>5, <1>6 DEF StackIndInv

-----------------------------------------------------------------------------
(* Commits, reviews, deletions *)

LEMMA CommitKeeps ==
  ASSUME StackIndInv, NEW q \in setting.patches, Commit(q)
  PROVE  StackIndInv'
  <1>1. MayReview /\ branch' = branch \cup {q} /\ UNCHANGED <<setting, gen, block, entry, call>>
    BY DEF Commit
  <1>2. ~ setting.reviewed => \A p \in Procs : call'[p] = NoCall
    BY <1>1 DEF MayReview, Quiet
  <1>3. branch \subseteq branch' /\ branch' \subseteq setting.patches
    BY <1>1 DEF StackIndInv, Types
  <1>4. call' = [p \in Procs |-> call'[p]]
    BY <1>1 DEF StackIndInv, Types
  <1>5. Fewer(block, entry, block', entry')
    BY <1>1 DEF Fewer
  <1>6. StoreOK(setting, block', entry', gen) /\ (Neat(setting) => Tidy(block', entry'))
    BY <1>1, SettingIsKnown
  <1> QED BY <1>1, <1>2, <1>3, <1>4, <1>5, <1>6, ReviewKeeps

LEMMA SetReviewStatusKeeps ==
  ASSUME StackIndInv, NEW p \in Procs, NEW b \in Rows, NEW st \in setting.statuses, SetReviewStatus(p, b, st)
  PROVE  StackIndInv'
  <1> PICK c : c = [op |-> "status", block |-> b, status |-> st]
    OBVIOUS
  <1>1. call[p] = NoCall /\ MayReview /\ Begin(p, c)
    BY DEF SetReviewStatus
  <1>2. Writing(setting, c)
    BY DEF Writing, Rows
  <1>3. CallOK(setting, c, block, entry, gen, branch) /\ c.op \in {"none", "status"}
    BY <1>2 DEF CallOK
  <1> QED BY <1>1, <1>3, BeginKeeps

LEMMA WriteStatusKeeps ==
  ASSUME StackIndInv, NEW p \in Procs, WriteStatus(p)
  PROVE  StackIndInv'
  <1> PICK c : c = call[p]
    OBVIOUS
  <1> PICK bl : bl = block'
    OBVIOUS
  <1>1. /\ c.op = "status" /\ call' = [call EXCEPT ![p] = NoCall]
        /\ UNCHANGED <<setting, branch, gen, entry>>
        /\ bl = IF c.block \in Rows THEN [block EXCEPT ![c.block].status = c.status] ELSE block
    BY DEF WriteStatus, Ends
  <1>2. c.block \in Blocks /\ c.status \in setting.statuses /\ c # NoCall
    <2>1. Writing(setting, c)
      BY <1>1, SettingIsKnown, CallIs
    <2> QED BY <1>1, <2>1 DEF Writing, NoCall
  <1>3. \A q \in Procs : call'[q] = IF q = p THEN NoCall ELSE call[q]
    BY <1>1 DEF StackIndInv, Types
  <1>4. call' = [q \in Procs |-> call'[q]]
    BY <1>1 DEF StackIndInv, Types
  <1>5. ~ setting.reviewed => \A q \in Procs : call'[q] = NoCall
    BY <1>2, <1>3 DEF StackIndInv, OneCall
  <1>6. StoreOK(setting, block, entry, gen) /\ (Neat(setting) => Tidy(block, entry))
    BY SettingIsKnown
  <1>7. /\ bl \in [Blocks -> BlockRow \cup {NoBlock}] /\ BlocksIn(bl) = BlocksIn(block)
        /\ \A b \in BlocksIn(bl) : bl[b].position = block[b].position
        /\ \A b \in BlocksIn(bl) : bl[b].status = block[b].status \/ bl[b].status = c.status
    <2>1. CASE c.block \in Rows
      <3>1. block[c.block] \in BlockRow /\ block \in [Blocks -> BlockRow \cup {NoBlock}] /\ c.status \in Statuses
        BY <2>1, <1>2, <1>6, Known, Stored DEF StoreOK
      <3> PICK r : r = [block[c.block] EXCEPT !.status = c.status]
        OBVIOUS
      <3>2. r \in BlockRow /\ r.position = block[c.block].position /\ r.status = c.status
        BY <3>1 DEF BlockRow
      <3>3. r # NoBlock
        BY <3>2 DEF BlockRow, Statuses, NoBlock
      <3>4. bl = [block EXCEPT ![c.block] = r]
        BY <2>1, <1>1
      <3> QED BY <2>1, <1>2, <3>1, <3>2, <3>3, <3>4 DEF BlocksIn, Rows
    <2>2. CASE c.block \notin Rows
      BY <2>2, <1>1, <1>6 DEF StoreOK
    <2> QED BY <2>1, <2>2
  <1>8. StoreOK(setting, bl, entry, gen)
    BY <1>2, <1>6, <1>7 DEF StoreOK
  <1>9. Fewer(block, entry, bl, entry)
    BY <1>7 DEF Fewer
  <1>10. Neat(setting) => Tidy(bl, entry)
    BY <1>6, <1>7 DEF Tidy
  <1>11. branch' \subseteq setting.patches
    BY <1>1 DEF StackIndInv, Types
  <1>12. \A q \in Procs : call'[q] = call[q] \/ (call[q].op = "status" /\ call'[q] = NoCall)
    BY <1>1, <1>3
  <1> QED BY <1>1, <1>4, <1>5, <1>8, <1>9, <1>10, <1>11, <1>12, ReviewKeeps

LEMMA DeleteReviewBlockKeeps ==
  ASSUME StackIndInv, NEW b \in Blocks, DeleteReviewBlock(b)
  PROVE  StackIndInv'
  <1> PICK bl, en : bl = block' /\ en = entry'
    OBVIOUS
  <1>1. /\ MayReview /\ UNCHANGED <<setting, branch, gen, call>>
        /\ bl = [c \in Blocks |-> IF c \in {b} THEN NoBlock ELSE block[c]]
        /\ en = [e \in Commits |-> IF entry[e].block \in {b} THEN NoEntry ELSE entry[e]]
    BY DEF DeleteReviewBlock, Without
  <1>2. ~ setting.reviewed => \A p \in Procs : call'[p] = NoCall
    BY <1>1 DEF MayReview, Quiet
  <1>3. branch' \subseteq setting.patches /\ call' = [p \in Procs |-> call'[p]]
    BY <1>1 DEF StackIndInv, Types
  <1>4. StoreOK(setting, block, entry, gen) /\ (Neat(setting) => Tidy(block, entry))
    BY SettingIsKnown
  <1>5. BlocksIn(bl) = BlocksIn(block) \ {b} /\ \A c \in BlocksIn(bl) : bl[c] = block[c]
    BY <1>1 DEF BlocksIn
  <1>6. /\ EntriesIn(en) = {e \in EntriesIn(entry) : entry[e].block # b}
        /\ \A e \in EntriesIn(en) : en[e] = entry[e]
    BY <1>1 DEF EntriesIn
  <1>7. bl \in [Blocks -> BlockRow \cup {NoBlock}] /\ en \in [Commits -> EntryRow \cup {NoEntry}]
    BY <1>1, <1>4 DEF StoreOK
  <1>8. StoreOK(setting, bl, en, gen)
    BY <1>4, <1>5, <1>6, <1>7 DEF StoreOK
  <1>9. Fewer(block, entry, bl, en)
    BY <1>5, <1>6 DEF Fewer
  <1>10. Neat(setting) => Tidy(bl, en)
    <2> SUFFICES ASSUME Tidy(block, entry), NEW c \in BlocksIn(bl)
                 PROVE  In(en, c) # {} /\ Numbered(en, c)
      BY <1>4 DEF Tidy
    <2>1. c \in BlocksIn(block) /\ c # b
      BY <1>5
    <2>2. In(en, c) = In(entry, c)
      BY <1>6, <2>1 DEF In
    <2>3. \A e \in In(en, c) : Places(en)[e] = Places(entry)[e]
      BY <1>6 DEF In, Places, EntriesIn
    <2>4. In(entry, c) # {} /\ Numbered(entry, c)
      BY <2>1 DEF Tidy
    <2> QED BY <2>2, <2>3, <2>4 DEF Numbered, Apart, Gapless
  <1> QED BY <1>1, <1>2, <1>3, <1>8, <1>9, <1>10, ReviewKeeps

-----------------------------------------------------------------------------
(* Calls begin *)

LEMMA FreeIs ==
  ASSUME StackIndInv, NEW p \in Procs, Free(p)
  PROVE  /\ call[p] = NoCall /\ MayReview /\ UpToDate(entry, gen, branch)
         /\ \A q \in Procs : ~ Builds(q)
         /\ StoreOK(setting, block, entry, gen)
  BY DEF Free, Builds, StackIndInv

\* The caller's commits are in no block: none is of a patch that is.
LEMMA UntrackedIsFresh ==
  ASSUME StackIndInv, UpToDate(entry, gen, branch), NEW cs \in SUBSET Untracked, cs # {}
  PROVE  Fresh(cs, entry, gen, branch)
  <1>1. cs \subseteq At(gen, branch)
    BY Known DEF Untracked
  <1>2. ASSUME NEW e \in EntriesIn(entry), NEW c \in cs PROVE e[1] # c[1]
    <2>1. c = <<c[1], gen>>
      BY <1>1, Known
    <2>2. Hash(e) = <<e[1], gen>> /\ Hash(e) \in Tracked
      BY DEF UpToDate, Hash, Tracked, Entries, EntriesIn
    <2>3. c \notin Tracked
      BY DEF Untracked
    <2> QED BY <2>1, <2>2, <2>3
  <1> QED BY <1>1, <1>2 DEF Fresh

LEMMA AutoPopulateStackKeeps ==
  ASSUME StackIndInv, NEW p \in Procs, AutoPopulateStack(p)
  PROVE  StackIndInv'
  <1> PICK c : c = [op |-> "populate", block |-> None, commits |-> Current]
    OBVIOUS
  <1>1. Free(p) /\ Begin(p, c)
    BY DEF AutoPopulateStack
  <1>2. Populating(c, gen, branch)
    BY Known DEF Populating
  <1>3. CallOK(setting, c, block, entry, gen, branch)
    BY <1>2 DEF CallOK
  <1> QED BY <1>1, <1>3, FreeIs, BeginKeeps

LEMMA RebuildStackKeeps ==
  ASSUME StackIndInv, NEW p \in Procs, RebuildStack(p)
  PROVE  StackIndInv'
  <1> PICK c : c = [op |-> "rebuild", block |-> None, commits |-> Current, seen |-> [b \in Rows |-> Of(b)]]
    OBVIOUS
  <1>1. Free(p) /\ Begin(p, c)
    BY DEF RebuildStack, RebuildCall
  <1>2. StoreOK(setting, block, entry, gen) /\ UpToDate(entry, gen, branch)
    BY <1>1, FreeIs
  <1>3. \A e \in EntriesIn(entry) : entry[e].block \in Rows /\ e \in Of(entry[e].block)
    BY <1>2, Stored DEF In
  <1>4. \A e \in EntriesIn(entry) : Matched(e, c.commits)
    <2> TAKE e \in EntriesIn(entry)
    <2>1. <<e[1], gen>> \in Current /\ c.commits = Current
      BY <1>2 DEF UpToDate, Current
    <2> QED BY <2>1 DEF Matched
  <1>5. Rebuilding(setting, c, entry, gen, branch)
    BY <1>3, <1>4, Known DEF Rebuilding, Rows
  <1>6. CallOK(setting, c, block, entry, gen, branch)
    BY <1>5 DEF CallOK
  <1> QED BY <1>1, <1>6, FreeIs, BeginKeeps

LEMMA RebaseOntoStreamKeeps ==
  ASSUME StackIndInv, NEW p \in Procs, RebaseOntoStream(p)
  PROVE  StackIndInv'
  <1>1. PICK kept \in IF setting.drops THEN SUBSET branch ELSE {branch} :
          /\ branch' = kept
          /\ call' = [call EXCEPT ![p] = RebuildCall({<<q, gen + 1>> : q \in kept})]
    BY DEF RebaseOntoStream
  <1> PICK c : c = RebuildCall({<<q, gen + 1>> : q \in kept})
    OBVIOUS
  <1>2. Free(p) /\ gen < setting.rebases /\ gen' = gen + 1 /\ UNCHANGED <<setting, block, entry>>
    BY DEF RebaseOntoStream
  <1>3. /\ c.op = "rebuild" /\ c.commits = {<<q, gen + 1>> : q \in kept} /\ c.seen = [b \in Rows |-> Of(b)]
    BY DEF RebuildCall
  <1>4. call' = [call EXCEPT ![p] = c] /\ \A q \in Procs : call'[q] = IF q = p THEN c ELSE call[q]
    BY <1>1 DEF StackIndInv, Types
  <1>5. /\ StoreOK(setting, block, entry, gen) /\ UpToDate(entry, gen, branch)
        /\ MayReview /\ \A q \in Procs : ~ Builds(q)
    BY <1>2, FreeIs
  <1>6. Types'
    <2>1. gen + 1 \in 0 .. setting.rebases
      BY <1>2, Known
    <2>2. branch' \subseteq setting.patches
      BY <1>1 DEF StackIndInv, Types
    <2> QED BY <1>2, <1>4, <2>1, <2>2 DEF StackIndInv, Types
  <1>7. StoreOK(setting', block', entry', gen')
    <2>1. \A e \in EntriesIn(entry) : entry[e].gen <= gen + 1
      <3> TAKE e \in EntriesIn(entry)
      <3>1. entry[e].gen <= gen /\ entry[e].gen \in Nat /\ gen \in Nat
        BY <1>5, Known, Stored DEF StoreOK
      <3> QED BY <3>1
    <2> QED BY <1>2, <1>5, <2>1 DEF StoreOK
  <1>8. Rebuilding(setting, c, entry, gen + 1, kept)
    <2>1. \A e \in EntriesIn(entry) : entry[e].block \in Rows /\ e \in Of(entry[e].block)
      BY <1>5, Stored DEF In
    <2>2. Calm(setting) => \A e \in EntriesIn(entry) : Matched(e, c.commits)
      <3> SUFFICES ASSUME Calm(setting), NEW e \in EntriesIn(entry) PROVE Matched(e, c.commits)
        OBVIOUS
      <3>1. kept = branch /\ e[1] \in branch
        BY <1>5 DEF Calm, UpToDate
      <3>2. <<e[1], gen + 1>> \in c.commits
        BY <3>1, <1>3
      <3> QED BY <3>2 DEF Matched
    <2> QED BY <1>3, <2>1, <2>2 DEF Rebuilding, At, Rows
  <1>9. \A q \in Procs : CallOK(setting', call'[q], block', entry', gen', branch')
    <2> TAKE q \in Procs
    <2>1. CASE q = p
      <3>1. CallOK(setting, c, block, entry, gen + 1, kept)
        BY <1>8 DEF CallOK
      <3> QED BY <3>1, <2>1, <1>1, <1>2, <1>4
    <2>2. CASE q # p
      <3>1. call[q] = NoCall \/ Writing(setting, call[q])
        BY <1>5, SettingIsKnown, CallIs DEF Builds
      <3> QED BY <3>1, <2>2, <1>2, <1>4 DEF CallOK
    <2> QED BY <2>1, <2>2
  <1>10. OneBuilder'
    BY <1>4, <1>5 DEF OneBuilder, Builds
  <1>11. OneCall'
    <2>1. ~ setting.reviewed => \A q \in Procs : call[q] = NoCall
      BY <1>5 DEF MayReview, Quiet
    <2> QED BY <2>1, <1>2, <1>4 DEF OneCall
  <1>12. ~ \A q \in Procs : call'[q].op # "rebuild"
    BY <1>3, <1>4
  <1>13. Distinct(block') /\ OnePatch(entry') /\ (Neat(setting') => Tidy(block', entry'))
    BY <1>2, SettingIsKnown
  <1> QED BY <1>6, <1>7, <1>9, <1>10, <1>11, <1>12, <1>13 DEF StackIndInv

LEMMA CreateReviewBlockKeeps ==
  ASSUME StackIndInv, NEW p \in Procs, NEW cs \in SUBSET Untracked, CreateReviewBlock(p, cs)
  PROVE  StackIndInv'
  <1> PICK n : n = NextPosition
    OBVIOUS
  <1> PICK c : c = [op |-> "create", block |-> None, commits |-> cs, position |-> n]
    OBVIOUS
  <1>1. Free(p) /\ cs # {} /\ n <= setting.positions /\ Begin(p, c)
    BY DEF CreateReviewBlock
  <1>2. StoreOK(setting, block, entry, gen) /\ UpToDate(entry, gen, branch)
    BY <1>1, FreeIs
  <1>3. Fresh(cs, entry, gen, branch)
    BY <1>1, <1>2, UntrackedIsFresh
  <1>4. n \in Nat /\ \A b \in Rows : block[b].position < n
    <2> DEFINE S == {block[b].position : b \in Rows}
    <2>1. S \in SUBSET Nat
      BY <1>2, Stored
    <2>2. \A x \in S : x <= setting.positions
      BY <1>2, Stored DEF StoreOK
    <2>3. IsFiniteSet(S)
      BY <2>1, <2>2, Known, FS_BoundedSetOfNaturals
    <2>4. n = After(S)
      BY DEF NextPosition
    <2>5. \A b \in Rows : block[b].position \in S
      OBVIOUS
    <2> HIDE DEF S
    <2> QED BY <2>1, <2>3, <2>4, <2>5, AfterIs
  <1>5. Creating(setting, c, block, entry, gen, branch)
    <2>1. n \in 0 .. setting.positions
      BY <1>1, <1>4, Known
    <2> QED BY <1>2, <1>3, <1>4, <2>1, Stored DEF Creating
  <1>6. CallOK(setting, c, block, entry, gen, branch)
    BY <1>5 DEF CallOK
  <1> QED BY <1>1, <1>6, FreeIs, BeginKeeps

LEMMA AddCommitsToBlockKeeps ==
  ASSUME StackIndInv, NEW p \in Procs, NEW b \in Rows, NEW cs \in SUBSET Untracked,
         AddCommitsToBlock(p, b, cs)
  PROVE  StackIndInv'
  <1> DEFINE S == {entry[e].position : e \in Of(b)}
  <1> PICK n : n = After(S)
    OBVIOUS
  <1> PICK c : c = [op |-> "add", block |-> b, commits |-> cs, position |-> n]
    OBVIOUS
  <1>1. Free(p) /\ MayModify(b) /\ cs # {} /\ Begin(p, c)
    BY DEF AddCommitsToBlock
  <1>2. StoreOK(setting, block, entry, gen) /\ UpToDate(entry, gen, branch)
    BY <1>1, FreeIs
  <1>3. Fresh(cs, entry, gen, branch)
    BY <1>1, <1>2, UntrackedIsFresh
  <1>4. S \in SUBSET Nat /\ IsFiniteSet(S)
    <2>1. Of(b) \subseteq Entries /\ Of(b) \subseteq Commits
      BY DEF Of, Entries
    <2>2. S \in SUBSET Nat
      BY <1>2, <2>1, Stored
    <2>3. IsFiniteSet(Of(b))
      BY <2>1, Finite
    <2>4. IsFiniteSet(S)
      <3> DEFINE f == [e \in Of(b) |-> entry[e].position]
      <3>1. f \in Surjection(Of(b), S)
        BY DEF Surjection
      <3> HIDE DEF f, S
      <3> QED BY <3>1, <2>3, FS_Surjection
    <2> QED BY <2>2, <2>4
  <1>5. n \in Nat /\ (\A x \in S : x < n) /\ (n # 0 => n - 1 \in S)
    <2> HIDE DEF S
    <2> QED BY <1>4, AfterIs
  <1>6. Neat(setting) => \A i \in 0 .. n : i # n => \E e \in In(entry, b) : entry[e].position = i
    <2> SUFFICES ASSUME Neat(setting), NEW i \in 0 .. n, i # n
                 PROVE  \E e \in In(entry, b) : entry[e].position = i
      OBVIOUS
    <2>1. n # 0 /\ i \in Nat /\ i <= n - 1
      BY <1>5
    <2>2. PICK e \in Of(b) : entry[e].position = n - 1
      BY <2>1, <1>5
    <2>3. Gapless(In(entry, b), Places(entry))
      BY <1>2, SettingIsKnown, Stored DEF Tidy, Numbered
    <2>4. \A f \in In(entry, b) : Places(entry)[f] = entry[f].position
      BY DEF In, EntriesIn, Places
    <2>5. e \in In(entry, b) /\ i \in 0 .. Places(entry)[e]
      BY <2>1, <2>2, <2>4, <1>2, <1>5, Stored
    <2> QED BY <2>3, <2>4, <2>5 DEF Gapless
  <1>7. \A e \in In(entry, b) : entry[e].position < n
    BY <1>2, <1>5, Stored
  <1>8. Editable(block, b) /\ b \in Blocks
    BY <1>1 DEF MayModify, Editable, Rows, BlocksIn
  <1> HIDE DEF S
  <1>9. Adding(setting, c, block, entry, gen, branch)
    BY <1>3, <1>5, <1>6, <1>7, <1>8 DEF Adding
  <1>10. CallOK(setting, c, block, entry, gen, branch)
    BY <1>9 DEF CallOK
  <1> QED BY <1>1, <1>10, FreeIs, BeginKeeps DEF S

LEMMA RemoveCommitsFromBlockKeeps ==
  ASSUME StackIndInv, NEW p \in Procs, NEW b \in Rows, NEW es \in SUBSET Of(b),
         RemoveCommitsFromBlock(p, b, es)
  PROVE  StackIndInv'
  <1> PICK c : c = [op |-> "remove", block |-> b, entries |-> es]
    OBVIOUS
  <1>1. Free(p) /\ MayModify(b) /\ Begin(p, c)
    BY DEF RemoveCommitsFromBlock
  <1>2. Removing(setting, c, block, entry)
    BY <1>1, SettingIsKnown, Stored DEF Removing, MayModify, Editable, Rows
  <1>3. CallOK(setting, c, block, entry, gen, branch)
    BY <1>2 DEF CallOK
  <1> QED BY <1>1, <1>3, FreeIs, BeginKeeps

\* Places that are apart and without a gap are those below the number of things.
LEMMA NumberedAre ==
  ASSUME NEW S, NEW f, IsFiniteSet(S), \A x \in S : f[x] \in Nat, Apart(S, f), Gapless(S, f)
  PROVE  /\ Cardinality(S) \in Nat
         /\ \A x \in S : f[x] < Cardinality(S)
         /\ \A i \in Nat : i < Cardinality(S) => \E x \in S : f[x] = i
  <1> PICK n : n = Cardinality(S)
    OBVIOUS
  <1>1. n \in Nat
    BY FS_CardinalityType
  <1>2. \A x \in S : f[x] < n
    <2> TAKE x \in S
    <2>1. f[x] + 1 \in Nat
      OBVIOUS
    <2>2. \A i \in Nat : i < f[x] + 1 => \E y \in S : f[y] = i
      BY DEF Gapless
    <2>3. f[x] + 1 <= n
      BY <2>1, <2>2, AllNumbers
    <2> QED BY <2>3, <1>1
  <1>3. ASSUME NEW i \in Nat, i < n PROVE \E x \in S : f[x] = i
    <2> SUFFICES ASSUME \A x \in S : f[x] # i PROVE FALSE
      OBVIOUS
    <2>1. \A x \in S : f[x] < i
      <3> TAKE x \in S
      <3>1. ~ (i <= f[x])
        BY DEF Gapless
      <3> QED BY <3>1
    <2>2. Cardinality(S) <= i
      BY <2>1, FewNumbers
    <2> QED BY <2>2, <1>1, <1>3
  <1> QED BY <1>1, <1>2, <1>3

\* So it is in a block that is tidy.
LEMMA TidyPlaces ==
  ASSUME StoreOK(setting, block, entry, gen), NEW b, Numbered(entry, b)
  PROVE  /\ Cardinality(Of(b)) \in Nat
         /\ \A e \in Of(b) : entry[e].position \in Nat /\ entry[e].position < Cardinality(Of(b))
         /\ \A i \in Nat : i < Cardinality(Of(b)) => \E e \in Of(b) : entry[e].position = i
  <1> PICK S, f : S = Of(b) /\ f = Places(entry)
    OBVIOUS
  <1>1. S \subseteq Entries /\ S \subseteq Commits /\ S = In(entry, b)
    BY Stored DEF Of, Entries
  <1>2. \A e \in S : f[e] = entry[e].position
    BY <1>1 DEF Places
  <1>3. IsFiniteSet(S) /\ \A e \in S : f[e] \in Nat
    BY <1>1, <1>2, Finite, Stored
  <1>4. Apart(S, f) /\ Gapless(S, f)
    BY <1>1 DEF Numbered
  <1> QED BY <1>2, <1>3, <1>4, NumberedAre

LEMMA SplitReviewBlockKeeps ==
  ASSUME StackIndInv, NEW p \in Procs, NEW b \in Rows, NEW k \in 0 .. Cardinality(Of(b)),
         SplitReviewBlock(p, b, k)
  PROVE  StackIndInv'
  <1> PICK moved : moved = {e \in Of(b) : entry[e].position > k}
    OBVIOUS
  <1> PICK c : c = [op |-> "split", block |-> b, position |-> block[b].position,
                    places |-> [e \in moved |-> PlaceIn(e, moved)]]
    OBVIOUS
  <1>1. /\ Free(p) /\ MayModify(b) /\ Begin(p, c) /\ k < Cardinality(Of(b)) - 1
        /\ \A d \in Rows : block[d].position < setting.positions
    BY DEF SplitReviewBlock
  <1>2. StoreOK(setting, block, entry, gen)
    BY <1>1, FreeIs
  <1>3. moved \subseteq Of(b) /\ moved \subseteq Entries /\ moved \subseteq Commits
    BY DEF Of, Entries
  <1>4. /\ Cardinality(moved) \in Nat
        /\ \A e \in moved : PlaceIn(e, moved) \in Nat /\ PlaceIn(e, moved) < Cardinality(moved)
        /\ \A e, f \in moved : PlaceIn(e, moved) = PlaceIn(f, moved) => e = f
        /\ \A i \in Nat : i < Cardinality(moved) => \E e \in moved : PlaceIn(e, moved) = i
    BY <1>2, <1>3, PlacesAre
  <1>5. Of(b) = In(entry, b) /\ BlocksIn(block) = Rows
    BY <1>2, Stored
  <1>6. Placed(c.places) /\ DOMAIN c.places = moved
    BY <1>3, <1>4 DEF Placed
  <1>7. Apart(moved, c.places) /\ Gapless(moved, c.places)
    <2>1. \A e \in moved : c.places[e] = PlaceIn(e, moved)
      OBVIOUS
    <2>2. Apart(moved, c.places)
      BY <2>1, <1>4 DEF Apart
    <2>3. ASSUME NEW e \in moved, NEW i \in 0 .. c.places[e] PROVE \E f \in moved : c.places[f] = i
      <3>1. i \in Nat /\ i < Cardinality(moved)
        BY <2>1, <1>4
      <3>2. PICK f \in moved : PlaceIn(f, moved) = i
        BY <3>1, <1>4
      <3>3. c.places[f] = i
        BY <3>2, <2>1
      <3> QED BY <3>3
    <2> QED BY <2>2, <2>3 DEF Gapless
  <1>8. Neat(setting) => moved # {} /\ Of(b) \ moved # {}
    <2> SUFFICES ASSUME Neat(setting) PROVE moved # {} /\ Of(b) \ moved # {}
      OBVIOUS
    <2>1. Numbered(entry, b)
      BY <1>5, SettingIsKnown DEF Tidy
    <2> PICK n : n = Cardinality(Of(b))
      OBVIOUS
    <2>2. n \in Nat /\ \A i \in Nat : i < n => \E e \in Of(b) : entry[e].position = i
      BY <2>1, <1>2, TidyPlaces
    <2>3. k \in Nat /\ k + 1 < n /\ 0 < n
      BY <2>2, <1>1
    <2>4. PICK e \in Of(b) : entry[e].position = k + 1
      BY <2>2, <2>3
    <2>5. PICK f \in Of(b) : entry[f].position = 0
      BY <2>2, <2>3
    <2>6. e \in moved
      BY <2>3, <2>4
    <2>7. f \notin moved
      BY <2>3, <2>5
    <2> QED BY <2>6, <2>7
  <1>9. \A e \in Of(b) \ moved, f \in moved : entry[e].position < entry[f].position
    <2> TAKE e \in Of(b) \ moved, f \in moved
    <2>1. entry[e].position \in Nat /\ entry[f].position \in Nat
      BY <1>2, <1>3, Stored DEF Of
    <2>2. ~ (entry[e].position > k) /\ entry[f].position > k /\ k \in Nat
      OBVIOUS
    <2> QED BY <2>1, <2>2
  <1>10. c.position \in Nat /\ c.position < setting.positions /\ Editable(block, b) /\ b \in Blocks
    BY <1>1, <1>2, Stored DEF Editable, MayModify, Rows, BlocksIn
  <1>11. Splitting(setting, c, block, entry)
    BY <1>1, <1>3, <1>5, <1>6, <1>7, <1>8, <1>9, <1>10 DEF Splitting
  <1>12. CallOK(setting, c, block, entry, gen, branch)
    BY <1>11 DEF CallOK
  <1> QED BY <1>1, <1>12, FreeIs, BeginKeeps

\* The first of some blocks.
LEMMA FirstBlock ==
  ASSUME StoreOK(setting, block, entry, gen), NEW bs \in SUBSET Rows, bs # {}
  PROVE  \E b \in bs : \A c \in bs \ {b} : BlockBefore(b, c)
  <1> PICK R : R = {z \in bs \X bs : BlockBefore(z[1], z[2])}
    OBVIOUS
  <1>1. \A b, c \in bs : <<b, c>> \in R <=> BlockBefore(b, c)
    OBVIOUS
  <1>2. Ordered(R, bs)
    BY <1>1, BlockOrder DEF Ordered
  <1>3. IsFiniteSet(bs)
    BY Finite DEF Rows
  <1>4. 0 < Cardinality(bs)
    BY <1>3, FS_EmptySet, FS_CardinalityType
  <1>5. PICK b \in bs : Nth(b, R, bs) = 0
    BY <1>2, <1>3, <1>4, Counted
  <1>6. \A c \in bs \ {b} : BlockBefore(b, c)
    <2> TAKE c \in bs \ {b}
    <2>1. <<c, b>> \in R => Nth(c, R, bs) < Nth(b, R, bs)
      BY <1>2, <1>3, NthLess
    <2>2. Nth(c, R, bs) \in Nat
      BY <1>2, <1>3, Counted
    <2>3. <<c, b>> \notin R
      BY <2>1, <2>2, <1>5
    <2> QED BY <2>3, <1>1, <1>2 DEF Ordered
  <1> QED BY <1>6

LEMMA PlacesBehindAre ==
  ASSUME StoreOK(setting, block, entry, gen), NEW target \in Rows, NEW moved \in SUBSET Entries,
         NEW twice, NEW places, places = PlacesBehind(target, moved, twice)
  PROVE  /\ DOMAIN places = moved /\ Placed(places)
         /\ twice = {} =>
              /\ Apart(moved, places)
              /\ Numbered(entry, target) => Continue(In(entry, target), Places(entry), moved, places)
  <1> PICK n : n = Cardinality(Of(target))
    OBVIOUS
  <1> PICK m : m = Cardinality(moved)
    OBVIOUS
  <1> PICK at : at = [e \in moved |-> PlaceIn(e, moved)]
    OBVIOUS
  <1>1. n \in Nat
    <2>1. Of(target) \subseteq Commits
      BY DEF Of, Entries
    <2> QED BY <2>1, Finite, FS_CardinalityType
  <1>2. /\ m \in Nat
        /\ \A e \in moved : at[e] \in Nat /\ at[e] < m
        /\ \A e, f \in moved : at[e] = at[f] => e = f
        /\ \A i \in Nat : i < m => \E e \in moved : at[e] = i
    <2>1. \A e \in moved : at[e] = PlaceIn(e, moved)
      OBVIOUS
    <2> QED BY <2>1, PlacesAre
  <1> PICK again : again = [e \in moved |->
                              Cardinality({f \in moved : entry[f].block \in twice
                                                         /\ ~ BlockBefore(entry[e].block, entry[f].block)})]
    OBVIOUS
  <1>3. DOMAIN places = moved /\ \A e \in moved : places[e] = n + at[e] + again[e]
    BY DEF PlacesBehind
  <1>4. \A e \in moved : again[e] \in Nat
    <2> TAKE e \in moved
    <2> PICK S : S = {f \in moved : entry[f].block \in twice
                                    /\ ~ BlockBefore(entry[e].block, entry[f].block)}
      OBVIOUS
    <2>1. S \subseteq Commits /\ again[e] = Cardinality(S)
      BY DEF Entries
    <2> QED BY <2>1, Finite, FS_CardinalityType
  <1>5. Placed(places)
    <2>1. \A e \in moved : places[e] \in Nat
      <3> TAKE e \in moved
      <3>1. n \in Nat /\ at[e] \in Nat /\ again[e] \in Nat /\ places[e] = n + at[e] + again[e]
        BY <1>1, <1>2, <1>3, <1>4
      <3> QED BY <3>1
    <2> QED BY <2>1, <1>3 DEF Placed, Entries
  <1>6. ASSUME twice = {} PROVE \A e \in moved : places[e] = n + at[e]
    <2> TAKE e \in moved
    <2>1. again[e] = Cardinality({})
      BY <1>6
    <2>2. again[e] = 0
      BY <2>1, FS_EmptySet
    <2> QED BY <2>2, <1>1, <1>2, <1>3
  <1>7. ASSUME twice = {} PROVE Apart(moved, places)
    <2> SUFFICES ASSUME NEW e \in moved, NEW f \in moved, places[e] = places[f] PROVE e = f
      BY DEF Apart
    <2>1. n + at[e] = n + at[f] /\ at[e] \in Nat /\ at[f] \in Nat
      BY <1>2, <1>6, <1>7
    <2>2. at[e] = at[f]
      BY <2>1, <1>1
    <2> QED BY <2>2, <1>2
  <1>8. ASSUME twice = {}, Numbered(entry, target)
        PROVE  Continue(In(entry, target), Places(entry), moved, places)
    <2> PICK S, place : S = In(entry, target) /\ place = Places(entry)
      OBVIOUS
    <2>1. S = Of(target) /\ \A e \in S : place[e] = entry[e].position
      BY Stored DEF In, EntriesIn, Places
    <2>2. /\ \A e \in S : place[e] \in Nat /\ place[e] < n
          /\ \A i \in Nat : i < n => \E e \in S : place[e] = i
      BY <2>1, <1>8, TidyPlaces
    <2>3. \A e \in S, f \in moved : place[e] < places[f]
      <3> TAKE e \in S, f \in moved
      <3>1. place[e] \in Nat /\ place[e] < n /\ at[f] \in Nat /\ places[f] = n + at[f]
        BY <2>2, <1>2, <1>6, <1>8
      <3> QED BY <3>1, <1>1
    <2>4. ASSUME NEW f \in moved, NEW i \in 0 .. places[f]
          PROVE  (\E e \in S : place[e] = i) \/ (\E e \in moved : places[e] = i)
      <3>0. at[f] \in Nat /\ at[f] < m /\ places[f] = n + at[f] /\ i \in Nat /\ i <= places[f]
        BY <1>1, <1>2, <1>6, <1>8
      <3>1. CASE i < n
        BY <3>0, <3>1, <2>2
      <3>2. CASE ~ (i < n)
        <4>1. i - n \in Nat /\ i - n < m /\ n + (i - n) = i
          BY <3>0, <3>2, <1>1, <1>2
        <4>2. PICK e \in moved : at[e] = i - n
          BY <4>1, <1>2
        <4> QED BY <4>1, <4>2, <1>6, <1>8
      <3> QED BY <3>1, <3>2
    <2> QED BY <2>3, <2>4 DEF Continue
  <1> QED BY <1>3, <1>5, <1>7, <1>8

LEMMA MergeReviewBlocksKeeps ==
  ASSUME StackIndInv, NEW p \in Procs, NEW bs \in SUBSET Rows, bs # {}, NEW twice \in SUBSET bs,
         ~ setting.repeats => twice = {}, MergeReviewBlocks(p, bs, twice)
  PROVE  StackIndInv'
  <1> PICK target : target = CHOOSE b \in bs : \A c \in bs \ {b} : BlockBefore(b, c)
    OBVIOUS
  <1> PICK rest, others : rest = bs \ {target} /\ others = rest \cup (twice \cap {target})
    OBVIOUS
  <1> PICK moved : moved = UNION {Of(c) : c \in rest}
    OBVIOUS
  <1> PICK places : places = PlacesBehind(target, moved, twice)
    OBVIOUS
  <1> PICK c : c = [op |-> "merge", block |-> target, others |-> others, places |-> places]
    OBVIOUS
  <1>1. Free(p) /\ (\A b \in bs : MayModify(b)) /\ Begin(p, c)
    BY DEF MergeReviewBlocks
  <1>2. StoreOK(setting, block, entry, gen)
    BY <1>1, FreeIs
  <1>3. target \in bs
    BY <1>2, FirstBlock
  <1>4. moved \in SUBSET Entries
    BY DEF Of, Entries
  <1>5. /\ DOMAIN places = moved /\ Placed(places)
        /\ twice = {} =>
             /\ Apart(moved, places)
             /\ Numbered(entry, target) => Continue(In(entry, target), Places(entry), moved, places)
    BY <1>2, <1>3, <1>4, PlacesBehindAre
  <1>6. Entries = EntriesIn(entry) /\ Rows = BlocksIn(block)
    BY <1>2, Stored
  <1>7. \A e \in EntriesIn(entry) : entry[e].block \in rest <=> e \in moved
    BY <1>6 DEF Of
  <1>8. \A b \in bs : Editable(block, b) /\ b \in Blocks
    BY <1>1, <1>6 DEF Editable, MayModify, Rows
  <1>9. /\ target \in Blocks /\ Editable(block, target) /\ \A b \in others : Editable(block, b)
        /\ others \subseteq Blocks /\ others \ {target} = rest /\ rest \subseteq others
        /\ twice = {} => target \notin others
    BY <1>3, <1>8
  <1>10. Neat(setting) => /\ target \notin others /\ Apart(moved, places)
                          /\ Continue(In(entry, target), Places(entry), moved, places)
    <2>1. Neat(setting) => twice = {}
      BY DEF Neat
    <2> QED BY <2>1, <1>3, <1>5, <1>6, <1>9, SettingIsKnown DEF Tidy
  <1>11. c.op = "merge" /\ c.block = target /\ c.others = others /\ c.places = places
    OBVIOUS
  <1>12. Merging(setting, c, block, entry)
    <2>1. \A e \in moved : e \in EntriesIn(entry) /\ entry[e].block \in rest
      BY <1>4, <1>6, <1>7
    <2>2. DOMAIN c.places = moved /\ Placed(c.places)
      BY <1>5, <1>11
    <2>3. Neat(setting) => c.block \notin c.others /\ Apart(moved, c.places)
      BY <1>10, <1>11
    <2>4. Neat(setting) => Continue(In(entry, c.block), Places(entry), moved, c.places)
      BY <1>10, <1>11
    <2>5. \A e \in EntriesIn(entry) : entry[e].block \in c.others \ {c.block} => e \in moved
      BY <1>7, <1>9, <1>11
    <2>6. \A e \in moved : e \in EntriesIn(entry) /\ entry[e].block \in c.others
      BY <2>1, <1>9, <1>11
    <2>7. /\ c.op = "merge" /\ c.block \in Blocks /\ c.others \subseteq Blocks
          /\ Editable(block, c.block) /\ \A b \in c.others : Editable(block, b)
      BY <1>9, <1>11
    <2> QED BY <2>2, <2>3, <2>4, <2>5, <2>6, <2>7 DEF Merging
  <1>13. CallOK(setting, c, block, entry, gen, branch)
    BY <1>12 DEF CallOK
  <1> QED BY <1>1, <1>11, <1>13, FreeIs, BeginKeeps

-----------------------------------------------------------------------------
(* Calls write *)

\* Who writes found every entry at a commit of the stream, but for a rebuild.
LEMMA WriterFindsCurrent ==
  ASSUME StackIndInv, NEW p \in Procs, NEW op, Ends(p, op), op \notin {"none", "status", "rebuild"}
  PROVE  UpToDate(entry, gen, branch)
  <1>1. call[p].op = op
    BY DEF Ends
  <1> QED BY <1>1, BuilderFindsCurrent, OthersDoNotBuild DEF Builds

\* In a calm stack, a merged block that is there has the entries it had.
MergedStays(bl, en, bl2, en2) ==
  Calm(setting) => \A d \in Rows : bl[d].status = "merged" /\ bl2[d] # NoBlock => In(en2, d) = In(en, d)

\* A block whose entries and their places are the same is as tidy as it was.
SameIn(en, en2, b) == In(en2, b) = In(en, b) /\ \A e \in In(en, b) : en2[e].position = en[e].position

LEMMA SameIsTidy ==
  ASSUME NEW en, NEW en2, NEW b, SameIn(en, en2, b), Numbered(en, b)
  PROVE  Numbered(en2, b)
  <1> PICK S : S = In(en, b)
    OBVIOUS
  <1>1. S \subseteq Commits
    BY DEF In, EntriesIn
  <1>2. \A e \in S : Places(en)[e] = en[e].position /\ Places(en2)[e] = en2[e].position
    BY <1>1 DEF Places
  <1>3. \A e \in S : Places(en2)[e] = Places(en)[e]
    BY <1>2 DEF SameIn
  <1> QED BY <1>3 DEF SameIn, Numbered, Apart, Gapless

\* The commits cs are in the block b, from the position n.
Appended(en, b, cs, n) ==
  /\ \A e \in cs : en[e].block = b /\ en[e].position \in Nat /\ n <= en[e].position
  /\ Apart(cs, Places(en))
  /\ \A e \in cs : \A i \in n .. en[e].position : \E f \in cs : en[f].position = i

LEMMA InsertedIs ==
  ASSUME StackIndInv, UpToDate(entry, gen, branch), NEW b \in Blocks, NEW cs,
         Fresh(cs, entry, gen, branch), NEW n \in Nat, NEW en, en = Inserted(b, cs, n)
  PROVE  /\ en \in [Commits -> EntryRow \cup {NoEntry}]
         /\ EntriesIn(en) = EntriesIn(entry) \cup cs /\ EntriesIn(entry) \cap cs = {}
         /\ \A e \in EntriesIn(entry) : en[e] = entry[e]
         /\ \A e \in cs : en[e].gen = gen /\ e[2] = gen
         /\ Appended(en, b, cs, n)
         /\ OnePatch(en) /\ UpToDate(en, gen, branch)
  <1> DEFINE Ps == {c[1] : c \in cs}
             row(e) == [block |-> b, position |-> n + Rank(e[1], Ps), gen |-> e[2]]
  <1>1. cs \subseteq At(gen, branch) /\ \A e \in EntriesIn(entry), c \in cs : e[1] # c[1]
    BY DEF Fresh
  <1>2. \A e \in cs : e \in Commits /\ e[1] \in branch /\ e[2] = gen /\ e = <<e[1], gen>>
    BY <1>1, Known
  <1>3. Ps \in SUBSET Patches
    BY <1>2, Known
  <1>4. /\ \A x \in Ps : Rank(x, Ps) \in Nat /\ Rank(x, Ps) < Cardinality(Ps)
        /\ \A x, y \in Ps : Rank(x, Ps) = Rank(y, Ps) => x = y
        /\ \A i \in Nat : i < Cardinality(Ps) => \E x \in Ps : Rank(x, Ps) = i
        /\ Cardinality(Ps) \in Nat
    <2>1. IsFiniteSet(Ps) /\ Ps \in SUBSET Nat
      BY <1>3, Finite
    <2> HIDE DEF Ps
    <2> QED BY <2>1, RankIs
  <1>5. \A e \in cs : en[e] = row(e)
    BY <1>2 DEF Inserted
  <1>6. \A e \in Commits : e \notin cs => en[e] = entry[e]
    BY DEF Inserted
  <1>7. \A e \in cs : e[1] \in Ps
    OBVIOUS
  <1>8. \A x \in Ps : \E e \in cs : e[1] = x
    OBVIOUS
  <1> HIDE DEF Ps
  <1>9. \A e \in cs : row(e) \in EntryRow /\ row(e) # NoEntry
    <2> TAKE e \in cs
    <2>1. n + Rank(e[1], Ps) \in Nat /\ e[2] \in Nat
      BY <1>2, <1>4, <1>7, Known
    <2> QED BY <2>1, ReviewStacksAssumption DEF EntryRow, NoEntry
  <1>10. \A e \in cs : /\ en[e].block = b /\ en[e].gen = gen /\ e[2] = gen
                       /\ en[e].position = n + Rank(e[1], Ps)
    <2> TAKE e \in cs
    <2>1. en[e] = [block |-> b, position |-> n + Rank(e[1], Ps), gen |-> e[2]] /\ e[2] = gen
      BY <1>2, <1>5
    <2> QED BY <2>1
  <1>11. entry \in [Commits -> EntryRow \cup {NoEntry}]
    BY SettingIsKnown DEF StoreOK
  <1>12. en \in [Commits -> EntryRow \cup {NoEntry}]
    <2>1. \A e \in Commits : en[e] \in EntryRow \cup {NoEntry}
      <3> TAKE e \in Commits
      <3>1. CASE e \in cs
        BY <3>1, <1>5, <1>9
      <3>2. CASE e \notin cs
        BY <3>2, <1>6, <1>11
      <3> QED BY <3>1, <3>2
    <2>2. en = [e \in Commits |-> en[e]]
      BY DEF Inserted
    <2> QED BY <2>1, <2>2
  <1>13. EntriesIn(entry) \cap cs = {}
    BY <1>1
  <1>14. EntriesIn(en) = EntriesIn(entry) \cup cs
    <2>1. \A e \in Commits : en[e] # NoEntry <=> e \in cs \/ entry[e] # NoEntry
      BY <1>5, <1>6, <1>9
    <2> QED BY <2>1, <1>2 DEF EntriesIn
  <1>15. \A e \in EntriesIn(entry) : en[e] = entry[e]
    BY <1>6, <1>13 DEF EntriesIn
  <1>16. \A e \in cs : Places(en)[e] = en[e].position
    BY <1>2 DEF Places
  <1>17. Apart(cs, Places(en))
    <2> SUFFICES ASSUME NEW e \in cs, NEW f \in cs, Places(en)[e] = Places(en)[f] PROVE e = f
      BY DEF Apart
    <2>1. n + Rank(e[1], Ps) = n + Rank(f[1], Ps) /\ Rank(e[1], Ps) \in Nat /\ Rank(f[1], Ps) \in Nat
      BY <1>4, <1>7, <1>10, <1>16
    <2>2. Rank(e[1], Ps) = Rank(f[1], Ps)
      BY <2>1
    <2>3. e[1] = f[1]
      BY <2>2, <1>4, <1>7
    <2> QED BY <2>3, <1>2
  <1>18. ASSUME NEW e \in cs, NEW i \in n .. en[e].position PROVE \E f \in cs : en[f].position = i
    <2>1. Rank(e[1], Ps) \in Nat /\ Rank(e[1], Ps) < Cardinality(Ps) /\ en[e].position = n + Rank(e[1], Ps)
      BY <1>4, <1>7, <1>10
    <2>2. i - n \in Nat /\ i - n < Cardinality(Ps) /\ n + (i - n) = i
      BY <2>1, <1>4
    <2>3. PICK x \in Ps : Rank(x, Ps) = i - n
      BY <2>2, <1>4
    <2>4. PICK f \in cs : f[1] = x
      BY <1>8
    <2> QED BY <2>2, <2>3, <2>4, <1>10
  <1>19. Appended(en, b, cs, n)
    <2>1. \A e \in cs : en[e].position \in Nat /\ n <= en[e].position
      <3> TAKE e \in cs
      <3>1. Rank(e[1], Ps) \in Nat /\ en[e].position = n + Rank(e[1], Ps)
        BY <1>4, <1>7, <1>10
      <3> QED BY <3>1
    <2> QED BY <2>1, <1>10, <1>17, <1>18 DEF Appended
  <1>20. OnePatch(en)
    <2>1. \A e, f \in EntriesIn(entry) : e[1] = f[1] => e = f
      BY SettingIsKnown DEF OnePatch
    <2>2. \A e, f \in cs : e[1] = f[1] => e = f
      BY <1>2
    <2> QED BY <2>1, <2>2, <1>1, <1>14 DEF OnePatch
  <1>21. UpToDate(en, gen, branch)
    BY <1>2, <1>10, <1>14, <1>15 DEF UpToDate
  <1> QED BY <1>10, <1>12, <1>13, <1>14, <1>15, <1>19, <1>20, <1>21

LEMMA InsertBlockKeeps ==
  ASSUME StackIndInv, NEW p \in Procs, InsertBlock(p)
  PROVE  StackIndInv' /\ MergedStays(block, entry, block', entry')
  <1> PICK c : c = call[p]
    OBVIOUS
  <1> PICK cs : cs = c.commits
    OBVIOUS
  <1> PICK b : b = Least(FreeIds)
    OBVIOUS
  <1> PICK row : row = [position |-> c.position, status |-> "draft"]
    OBVIOUS
  <1> PICK bl, en : bl = block' /\ en = entry'
    OBVIOUS
  <1>1. /\ Ends(p, "create") /\ FreeIds # {} /\ bl = [block EXCEPT ![b] = row] /\ en = Inserted(b, cs, 0)
    BY DEF InsertBlock
  <1>2. StoreOK(setting, block, entry, gen) /\ UpToDate(entry, gen, branch)
    BY <1>1, SettingIsKnown, WriterFindsCurrent
  <1>3. Creating(setting, c, block, entry, gen, branch)
    BY <1>1, SettingIsKnown, CallIs DEF Ends
  <1>4. b \in Blocks /\ b \notin Rows
    <2>1. FreeIds \in SUBSET Nat /\ FreeIds \subseteq Blocks \ Rows
      BY ReviewStacksAssumption DEF FreeIds
    <2>2. \E x \in FreeIds : \A y \in FreeIds : x <= y
      BY <1>1, <2>1, LeastOf
    <2>3. b \in FreeIds
      BY <2>2 DEF Least
    <2> QED BY <2>1, <2>3
  <1>5. Fresh(cs, entry, gen, branch) /\ cs # {}
    BY <1>3 DEF Creating, Fresh
  <1>6. c.position \in Nat /\ c.position <= setting.positions /\ \A d \in BlocksIn(block) : block[d].position < c.position
    BY <1>3, Known DEF Creating
  <1>7. /\ en \in [Commits -> EntryRow \cup {NoEntry}]
        /\ EntriesIn(en) = EntriesIn(entry) \cup cs /\ EntriesIn(entry) \cap cs = {}
        /\ \A e \in EntriesIn(entry) : en[e] = entry[e]
        /\ \A e \in cs : en[e].gen = gen /\ e[2] = gen
        /\ Appended(en, b, cs, 0)
        /\ OnePatch(en) /\ UpToDate(en, gen, branch)
    BY <1>1, <1>2, <1>4, <1>5, InsertedIs
  <1>8. row \in BlockRow /\ row # NoBlock
    BY <1>6 DEF BlockRow, Statuses, NoBlock
  <1>9. /\ bl \in [Blocks -> BlockRow \cup {NoBlock}]
        /\ bl[b] = row /\ BlocksIn(bl) = BlocksIn(block) \cup {b}
        /\ \A d \in BlocksIn(block) : bl[d] = block[d]
    <2>1. block \in [Blocks -> BlockRow \cup {NoBlock}]
      BY <1>2 DEF StoreOK
    <2>2. \A d \in Blocks : bl[d] = IF d = b THEN row ELSE block[d]
      BY <1>1, <1>4, <2>1
    <2>3. bl \in [Blocks -> BlockRow \cup {NoBlock}]
      BY <1>1, <1>8, <2>1
    <2> QED BY <2>2, <2>3, <1>4, <1>8 DEF BlocksIn, Rows
  <1>10. BlocksIn(block) = Rows
    BY <1>2, Stored
  <1>11. StoreOK(setting, bl, en, gen)
    <2>1. \A d \in BlocksIn(bl) : bl[d].position <= setting.positions /\ bl[d].status \in setting.statuses
      <3>1. row.position <= setting.positions /\ row.status \in setting.statuses
        BY <1>6, Known
      <3> QED BY <3>1, <1>2, <1>9 DEF StoreOK
    <2>2. \A e \in EntriesIn(en) : en[e].block \in BlocksIn(bl) /\ e[2] <= en[e].gen /\ en[e].gen <= gen
      <3>1. \A e \in EntriesIn(entry) : en[e].block \in BlocksIn(bl) /\ e[2] <= en[e].gen /\ en[e].gen <= gen
        BY <1>2, <1>7, <1>9 DEF StoreOK
      <3>2. \A e \in cs : en[e].block = b
        BY <1>7 DEF Appended
      <3>3. \A e \in cs : en[e].block \in BlocksIn(bl) /\ e[2] <= en[e].gen /\ en[e].gen <= gen
        BY <1>7, <1>9, <3>2, Known
      <3> QED BY <3>1, <3>3, <1>7
    <2> QED BY <2>1, <2>2, <1>7, <1>9 DEF StoreOK
  <1>12. Distinct(bl)
    <2>1. \A d \in BlocksIn(block) : bl[d].position < bl[b].position /\ bl[d].position \in Nat
      BY <1>2, <1>6, <1>9, Stored
    <2>2. \A d, f \in BlocksIn(block) : bl[d].position = bl[f].position => d = f
      BY <1>9, SettingIsKnown DEF Distinct
    <2>3. bl[b].position \in Nat
      BY <1>6, <1>9
    <2> QED BY <2>1, <2>2, <2>3, <1>9 DEF Distinct
  <1>13. ASSUME Neat(setting) PROVE Tidy(bl, en)
    <2> SUFFICES ASSUME NEW d \in BlocksIn(bl) PROVE In(en, d) # {} /\ Numbered(en, d)
      BY DEF Tidy
    <2>1. CASE d = b
      <3>1. In(en, d) = cs
        <4>1. \A e \in EntriesIn(entry) : entry[e].block \in Rows
          BY <1>2, <1>10 DEF StoreOK
        <4>2. \A e \in cs : en[e].block = b
          BY <1>7 DEF Appended
        <4> QED BY <4>1, <4>2, <2>1, <1>4, <1>7 DEF In
      <3>2. Gapless(cs, Places(en))
        <4>1. \A e \in cs : Places(en)[e] = en[e].position
          BY <1>7 DEF Places, EntriesIn
        <4>2. \A e \in cs : \A i \in 0 .. en[e].position : \E f \in cs : en[f].position = i
          BY <1>7 DEF Appended
        <4> QED BY <4>1, <4>2 DEF Gapless
      <3> QED BY <3>1, <3>2, <1>5, <1>7 DEF Numbered, Appended
    <2>2. CASE d # b
      <3>1. d \in BlocksIn(block) /\ In(entry, d) # {} /\ Numbered(entry, d)
        BY <2>2, <1>9, <1>13, SettingIsKnown DEF Tidy
      <3>2. SameIn(entry, en, d)
        <4>1. \A e \in cs : en[e].block # d
          BY <2>2, <1>7 DEF Appended
        <4> QED BY <4>1, <1>7 DEF SameIn, In
      <3> QED BY <3>1, <3>2, SameIsTidy DEF SameIn
    <2> QED BY <2>1, <2>2
  <1>14. MergedStays(block, entry, bl, en)
    <2>1. \A e \in cs : en[e].block = b
      BY <1>7 DEF Appended
    <2>2. \A d \in Rows : In(en, d) = In(entry, d)
      BY <2>1, <1>4, <1>7 DEF In
    <2> QED BY <2>2 DEF MergedStays
  <1> QED BY <1>1, <1>7, <1>11, <1>12, <1>13, <1>14, EndsKeeps

LEMMA InsertCommitsKeeps ==
  ASSUME StackIndInv, NEW p \in Procs, InsertCommits(p)
  PROVE  StackIndInv' /\ MergedStays(block, entry, block', entry')
  <1> PICK c : c = call[p]
    OBVIOUS
  <1> PICK cs, b, n : cs = c.commits /\ b = c.block /\ n = c.position
    OBVIOUS
  <1> PICK en : en = entry'
    OBVIOUS
  <1>1. /\ Ends(p, "add") /\ block' = block
        /\ en = IF b \in Rows THEN Inserted(b, cs, n) ELSE entry
    BY DEF InsertCommits
  <1>2. StoreOK(setting, block, entry, gen) /\ UpToDate(entry, gen, branch)
    BY <1>1, SettingIsKnown, WriterFindsCurrent
  <1>3. Adding(setting, c, block, entry, gen, branch)
    BY <1>1, SettingIsKnown, CallIs DEF Ends
  <1>4. CASE b \notin Rows
    <2>1. block' = block /\ entry' = entry
      BY <1>1, <1>4
    <2>2. /\ StoreOK(setting, block', entry', gen) /\ Distinct(block') /\ OnePatch(entry')
          /\ UpToDate(entry', gen, branch) /\ (Neat(setting) => Tidy(block', entry'))
      BY <2>1, <1>2, SettingIsKnown
    <2>3. MergedStays(block, entry, block', entry')
      BY <2>1 DEF MergedStays
    <2> QED BY <2>2, <2>3, <1>1, EndsKeeps
  <1>5. CASE b \in Rows
    <2>1. Fresh(cs, entry, gen, branch) /\ cs # {} /\ b \in Blocks /\ n \in Nat
      BY <1>3 DEF Adding, Fresh
    <2>2. /\ en \in [Commits -> EntryRow \cup {NoEntry}]
          /\ EntriesIn(en) = EntriesIn(entry) \cup cs /\ EntriesIn(entry) \cap cs = {}
          /\ \A e \in EntriesIn(entry) : en[e] = entry[e]
          /\ \A e \in cs : en[e].gen = gen /\ e[2] = gen
          /\ Appended(en, b, cs, n)
          /\ OnePatch(en) /\ UpToDate(en, gen, branch)
      BY <1>1, <1>2, <1>5, <2>1, InsertedIs
    <2>3. \A e \in cs : en[e].block = b
      BY <2>2 DEF Appended
    <2>4. StoreOK(setting, block, en, gen)
      <3>1. \A e \in EntriesIn(entry) : en[e].block \in BlocksIn(block) /\ e[2] <= en[e].gen /\ en[e].gen <= gen
        BY <1>2, <2>2 DEF StoreOK
      <3>2. \A e \in cs : en[e].block \in BlocksIn(block) /\ e[2] <= en[e].gen /\ en[e].gen <= gen
        BY <1>2, <1>5, <2>2, <2>3, Known, Stored
      <3> QED BY <3>1, <3>2, <1>2, <2>2 DEF StoreOK
    <2>5. ASSUME Neat(setting) PROVE Tidy(block, en)
      <3> SUFFICES ASSUME NEW d \in BlocksIn(block) PROVE In(en, d) # {} /\ Numbered(en, d)
        BY DEF Tidy
      <3>1. In(entry, d) # {} /\ Numbered(entry, d)
        BY <2>5, SettingIsKnown DEF Tidy
      <3>2. CASE d = b
        <4> PICK S : S = In(entry, b)
          OBVIOUS
        <4>1. In(en, b) = S \cup cs
          BY <2>2, <2>3 DEF In
        <4>2. \A e \in S : e \in EntriesIn(entry) /\ e \in Commits /\ en[e] = entry[e]
          BY <2>2 DEF In, EntriesIn
        <4>3. \A e \in S : Places(en)[e] = entry[e].position /\ Places(entry)[e] = entry[e].position
          BY <4>2 DEF Places
        <4>4. \A e \in cs : Places(en)[e] = en[e].position
          BY <2>2 DEF Places, EntriesIn
        <4>5. /\ \A e \in S : entry[e].position < n /\ entry[e].position \in Nat
              /\ \A i \in 0 .. n : i # n => \E e \in S : entry[e].position = i
          BY <1>2, <1>3, <2>5, <4>2, Stored DEF Adding, Neat
        <4>6. /\ \A e \in cs : en[e].position \in Nat /\ n <= en[e].position
              /\ \A e, f \in cs : Places(en)[e] = Places(en)[f] => e = f
              /\ \A e \in cs : \A i \in n .. en[e].position : \E f \in cs : en[f].position = i
          BY <2>2 DEF Appended, Apart
        <4>7. Apart(S \cup cs, Places(en))
          <5>1. \A e, f \in S : Places(en)[e] = Places(en)[f] => e = f
            BY <3>1, <3>2, <4>3 DEF Numbered, Apart
          <5>2. \A e \in S, f \in cs : Places(en)[e] < Places(en)[f] /\ Places(en)[e] # Places(en)[f]
            BY <4>3, <4>4, <4>5, <4>6, <2>1
          <5> QED BY <5>1, <5>2, <4>6 DEF Apart
        <4>8. Gapless(S \cup cs, Places(en))
          <5> SUFFICES ASSUME NEW e \in S \cup cs, NEW i \in 0 .. Places(en)[e]
                       PROVE  \E f \in S \cup cs : Places(en)[f] = i
            BY DEF Gapless
          <5>1. CASE i < n
            <6>1. i \in 0 .. n /\ i # n
              BY <5>1, <2>1
            <6> QED BY <6>1, <4>3, <4>5
          <5>2. CASE ~ (i < n)
            <6>1. e \in cs /\ i \in n .. en[e].position
              BY <5>2, <2>1, <4>3, <4>4, <4>5, <4>6
            <6> QED BY <6>1, <4>4, <4>6
          <5> QED BY <5>1, <5>2
        <4> QED BY <3>2, <4>1, <4>7, <4>8, <2>1 DEF Numbered
      <3>3. CASE d # b
        <4>1. SameIn(entry, en, d)
          BY <3>3, <2>2, <2>3 DEF SameIn, In
        <4> QED BY <3>1, <4>1, SameIsTidy DEF SameIn
      <3> QED BY <3>2, <3>3
    <2>6. Distinct(block)
      BY SettingIsKnown
    <2>7. MergedStays(block, entry, block', en)
      <3> SUFFICES ASSUME Calm(setting), NEW d \in Rows, block[d].status = "merged"
                   PROVE  In(en, d) = In(entry, d)
        BY DEF MergedStays
      <3>1. d # b
        BY <1>3 DEF Adding, Editable
      <3> QED BY <3>1, <2>2, <2>3 DEF In
    <2> QED BY <1>1, <2>2, <2>4, <2>5, <2>6, <2>7, EndsKeeps
  <1> QED BY <1>4, <1>5

\* Entries are written again: their commits are the same.
Rewritten(bl, en) ==
  /\ bl \in [Blocks -> BlockRow \cup {NoBlock}]
  /\ \A b \in BlocksIn(bl) : bl[b].position <= setting.positions /\ bl[b].status \in setting.statuses
  /\ en \in [Commits -> EntryRow \cup {NoEntry}]
  /\ \A e \in EntriesIn(en) : /\ e \in EntriesIn(entry) /\ en[e].gen = entry[e].gen
                              /\ en[e].block \in BlocksIn(bl)

LEMMA RewrittenIs ==
  ASSUME StackIndInv, UpToDate(entry, gen, branch), NEW bl, NEW en, Rewritten(bl, en)
  PROVE  StoreOK(setting, bl, en, gen) /\ OnePatch(en) /\ UpToDate(en, gen, branch)
  <1>1. StoreOK(setting, block, entry, gen) /\ OnePatch(entry)
    BY SettingIsKnown
  <1>2. StoreOK(setting, bl, en, gen)
    BY <1>1 DEF StoreOK, Rewritten
  <1>3. OnePatch(en)
    BY <1>1 DEF OnePatch, Rewritten
  <1>4. UpToDate(en, gen, branch)
    BY DEF UpToDate, Rewritten
  <1> QED BY <1>2, <1>3, <1>4

\* An entry is written with another block or position.
Replaced(x, b, n) == [x EXCEPT !.block = b, !.position = n]

LEMMA ReplacedIs ==
  ASSUME NEW x \in EntryRow, NEW b \in Blocks, NEW n \in Nat
  PROVE  /\ Replaced(x, b, n) \in EntryRow /\ Replaced(x, b, n) # NoEntry
         /\ Replaced(x, b, n).block = b /\ Replaced(x, b, n).position = n
         /\ Replaced(x, b, n).gen = x.gen
  <1> PICK y : y = Replaced(x, b, n)
    OBVIOUS
  <1>1. y = [block |-> b, position |-> n, gen |-> x.gen] /\ x.gen \in Nat
    BY DEF EntryRow, Replaced
  <1>2. y \in EntryRow /\ y.block = b /\ y.position = n /\ y.gen = x.gen
    BY <1>1 DEF EntryRow
  <1>3. y # NoEntry
    BY <1>2, ReviewStacksAssumption DEF NoEntry
  <1> QED BY <1>2, <1>3

\* Entries that are numbered anew are numbered.
LEMMA NumberedAnew ==
  ASSUME StoreOK(setting, block, entry, gen), NEW S \in SUBSET Entries, NEW en, NEW b,
         In(en, b) = S, \A e \in S : en[e].position = PlaceIn(e, S)
  PROVE  Numbered(en, b)
  <1> PICK m : m = Cardinality(S)
    OBVIOUS
  <1>1. /\ m \in Nat
        /\ \A e \in S : PlaceIn(e, S) \in Nat /\ PlaceIn(e, S) < m
        /\ \A e, f \in S : PlaceIn(e, S) = PlaceIn(f, S) => e = f
        /\ \A i \in Nat : i < m => \E e \in S : PlaceIn(e, S) = i
    BY PlacesAre
  <1>2. \A e \in S : Places(en)[e] = PlaceIn(e, S)
    BY DEF Places, Entries
  <1>3. Apart(S, Places(en))
    BY <1>1, <1>2 DEF Apart
  <1>4. Gapless(S, Places(en))
    <2> SUFFICES ASSUME NEW e \in S, NEW i \in 0 .. Places(en)[e]
                 PROVE  \E f \in S : Places(en)[f] = i
      BY DEF Gapless
    <2>1. i \in Nat /\ i < m
      BY <1>1, <1>2
    <2>2. PICK f \in S : PlaceIn(f, S) = i
      BY <2>1, <1>1
    <2> QED BY <2>2, <1>2
  <1> QED BY <1>3, <1>4 DEF Numbered

LEMMA DeleteCommitsKeeps ==
  ASSUME StackIndInv, NEW p \in Procs, DeleteCommits(p)
  PROVE  StackIndInv' /\ MergedStays(block, entry, block', entry')
  <1> PICK c : c = call[p]
    OBVIOUS
  <1> PICK b, es : b = c.block /\ es = c.entries
    OBVIOUS
  <1> PICK rest : rest = Of(b) \ es
    OBVIOUS
  <1> PICK places : places = Renumbered(rest)
    OBVIOUS
  <1> PICK bl, en : bl = block' /\ en = entry'
    OBVIOUS
  <1>1. /\ Ends(p, "remove")
        /\ en = [e \in Commits |->
                   IF e \in es THEN NoEntry
                   ELSE IF e \in rest THEN [entry[e] EXCEPT !.position = places[e]] ELSE entry[e]]
        /\ bl = IF rest = {} /\ b \in Rows THEN [block EXCEPT ![b] = NoBlock] ELSE block
    BY DEF DeleteCommits
  <1>2. StoreOK(setting, block, entry, gen) /\ UpToDate(entry, gen, branch)
    BY <1>1, SettingIsKnown, WriterFindsCurrent
  <1>3. Removing(setting, c, block, entry)
    BY <1>1, SettingIsKnown, CallIs DEF Ends
  <1>4. rest \in SUBSET Entries
    BY DEF Of, Entries
  <1>5. \A e \in rest : places[e] = PlaceIn(e, rest) /\ places[e] \in Nat
    <2>1. \A e \in rest : places[e] = PlaceIn(e, rest)
      BY DEF Renumbered
    <2>2. \A e \in rest : PlaceIn(e, rest) \in Nat
      BY <1>2, <1>4, PlacesAre
    <2> QED BY <2>1, <2>2
  <1>6. /\ \A e \in rest : e \in Commits /\ e \in EntriesIn(entry) /\ e \notin es /\ entry[e].block = b
        /\ Entries = EntriesIn(entry) /\ Rows = BlocksIn(block) /\ Of(b) = In(entry, b)
    BY <1>2, Stored DEF Of, In, EntriesIn
  <1>7. \A e \in rest : /\ en[e] \in EntryRow /\ en[e] # NoEntry /\ en[e].block = b
                        /\ en[e].position = places[e] /\ en[e].gen = entry[e].gen
    <2> TAKE e \in rest
    <2> PICK x, n, y : x = entry[e] /\ n = places[e] /\ y = en[e]
      OBVIOUS
    <2>1. x \in EntryRow /\ n \in Nat /\ x.block = b /\ b \in Blocks
      BY <1>2, <1>5, <1>6, Stored DEF EntryRow
    <2>2. [x EXCEPT !.position = n] = [x EXCEPT !.block = b, !.position = n]
      BY <2>1 DEF EntryRow
    <2>3. y = Replaced(x, b, n)
      BY <2>2, <1>1, <1>6 DEF Replaced
    <2>4. y \in EntryRow /\ y # NoEntry /\ y.block = b /\ y.position = n /\ y.gen = x.gen
      BY <2>1, <2>3, ReplacedIs
    <2> QED BY <2>4
  <1>8. \A e \in Commits : e \notin rest => en[e] = IF e \in es THEN NoEntry ELSE entry[e]
    BY <1>1
  <1>9. EntriesIn(en) = EntriesIn(entry) \ es
    <2>1. \A e \in Commits : en[e] # NoEntry <=> entry[e] # NoEntry /\ e \notin es
      BY <1>6, <1>7, <1>8 DEF EntriesIn
    <2> QED BY <2>1 DEF EntriesIn
  <1>10. \A e \in EntriesIn(en) : en[e].gen = entry[e].gen /\ en[e].block = entry[e].block
    BY <1>6, <1>7, <1>8, <1>9 DEF EntriesIn
  <1>11. en \in [Commits -> EntryRow \cup {NoEntry}]
    <2>1. \A e \in Commits : en[e] \in EntryRow \cup {NoEntry}
      <3>1. entry \in [Commits -> EntryRow \cup {NoEntry}]
        BY <1>2 DEF StoreOK
      <3> QED BY <3>1, <1>7, <1>8
    <2>2. en = [e \in Commits |-> en[e]]
      BY <1>1
    <2> QED BY <2>1, <2>2
  <1>12. /\ bl \in [Blocks -> BlockRow \cup {NoBlock}]
         /\ BlocksIn(bl) = {d \in BlocksIn(block) : d # b \/ rest # {}}
         /\ \A d \in BlocksIn(bl) : bl[d] = block[d]
    <2>1. block \in [Blocks -> BlockRow \cup {NoBlock}]
      BY <1>2 DEF StoreOK
    <2>2. CASE rest = {} /\ b \in Rows
      BY <2>1, <2>2, <1>1 DEF BlocksIn, Rows
    <2>3. CASE ~ (rest = {} /\ b \in Rows)
      BY <2>1, <2>3, <1>1, <1>6 DEF BlocksIn
    <2> QED BY <2>2, <2>3
  <1>13. Rewritten(bl, en)
    <2>1. \A e \in EntriesIn(en) : en[e].block \in BlocksIn(bl)
      <3> TAKE e \in EntriesIn(en)
      <3>1. entry[e].block \in BlocksIn(block) /\ e \notin es /\ e \in EntriesIn(entry)
        BY <1>2, <1>9 DEF StoreOK
      <3>2. entry[e].block = b => e \in rest
        BY <3>1, <1>6 DEF In
      <3> QED BY <3>1, <3>2, <1>10, <1>12
    <2> QED BY <2>1, <1>2, <1>9, <1>10, <1>11, <1>12 DEF Rewritten, StoreOK
  <1>14. Distinct(bl)
    BY <1>12, SettingIsKnown DEF Distinct
  <1>15. ASSUME Neat(setting) PROVE Tidy(bl, en)
    <2>1. es \subseteq In(entry, b)
      BY <1>3, <1>15 DEF Removing, Neat
    <2> SUFFICES ASSUME NEW d \in BlocksIn(bl) PROVE In(en, d) # {} /\ Numbered(en, d)
      BY DEF Tidy
    <2>2. CASE d = b
      <3>1. In(en, b) = rest /\ rest # {}
        BY <2>2, <1>6, <1>9, <1>10, <1>12 DEF In
      <3>2. \A e \in rest : en[e].position = PlaceIn(e, rest)
        <4> TAKE e \in rest
        <4>1. en[e].position = places[e]
          BY <1>7
        <4> QED BY <4>1, <1>5
      <3>3. Numbered(en, b)
        BY <3>1, <3>2, <1>2, <1>4, NumberedAnew
      <3> QED BY <2>2, <3>1, <3>3
    <2>3. CASE d # b
      <3>1. In(entry, d) # {} /\ Numbered(entry, d)
        BY <1>12, <1>15, SettingIsKnown DEF Tidy
      <3>2. SameIn(entry, en, d)
        <4>1. In(en, d) = In(entry, d)
          BY <2>1, <2>3, <1>9, <1>10 DEF In
        <4>2. \A e \in In(entry, d) : en[e] = entry[e]
          BY <2>1, <2>3, <1>6, <1>8 DEF In, EntriesIn
        <4> QED BY <4>1, <4>2 DEF SameIn
      <3> QED BY <3>1, <3>2, SameIsTidy DEF SameIn
    <2> QED BY <2>2, <2>3
  <1>16. StoreOK(setting, bl, en, gen) /\ OnePatch(en) /\ UpToDate(en, gen, branch)
    BY <1>2, <1>13, RewrittenIs
  <1>17. MergedStays(block, entry, bl, en)
    <2> SUFFICES ASSUME Calm(setting), NEW d \in Rows, block[d].status = "merged"
                 PROVE  In(en, d) = In(entry, d)
      BY DEF MergedStays
    <2>1. d # b /\ es \subseteq In(entry, b)
      BY <1>3 DEF Removing, Editable
    <2> QED BY <2>1, <1>9, <1>10 DEF In
  <1> QED BY <1>1, <1>14, <1>15, <1>16, <1>17, EndsKeeps

\* The entries are of the commits they were of.
SameCommits(en, en2) ==
  EntriesIn(en2) = EntriesIn(en) /\ \A e \in EntriesIn(en) : en2[e].gen = en[e].gen

\* Entries that are given another block.
LEMMA MovedIs ==
  ASSUME StoreOK(setting, block, entry, gen), NEW places, Placed(places), NEW b \in Blocks,
         NEW en, en = MoveEntries(places, b)
  PROVE  /\ en \in [Commits -> EntryRow \cup {NoEntry}] /\ EntriesIn(en) = EntriesIn(entry)
         /\ \A e \in EntriesIn(entry) :
              /\ en[e].gen = entry[e].gen
              /\ e \in DOMAIN places => en[e].block = b /\ en[e].position = places[e]
              /\ e \notin DOMAIN places => en[e] = entry[e]
  <1>1. entry \in [Commits -> EntryRow \cup {NoEntry}] /\ Entries = EntriesIn(entry)
    BY Stored DEF StoreOK
  <1>2. \A e \in DOMAIN places \cap Entries :
          /\ en[e] \in EntryRow /\ en[e] # NoEntry /\ en[e].block = b
          /\ en[e].position = places[e] /\ en[e].gen = entry[e].gen
    <2> TAKE e \in DOMAIN places \cap Entries
    <2> PICK x, n, y : x = entry[e] /\ n = places[e] /\ y = en[e]
      OBVIOUS
    <2>1. x \in EntryRow /\ n \in Nat
      BY Stored DEF Placed
    <2>2. y = Replaced(x, b, n)
      BY Stored DEF MoveEntries, Replaced
    <2>3. y \in EntryRow /\ y # NoEntry /\ y.block = b /\ y.position = n /\ y.gen = x.gen
      BY <2>1, <2>2, ReplacedIs
    <2> QED BY <2>3
  <1>3. \A e \in Commits : e \notin DOMAIN places \cap Entries => en[e] = entry[e]
    BY DEF MoveEntries
  <1>4. en \in [Commits -> EntryRow \cup {NoEntry}]
    <2>1. \A e \in Commits : en[e] \in EntryRow \cup {NoEntry}
      BY <1>1, <1>2, <1>3
    <2>2. en = [e \in Commits |-> en[e]]
      BY DEF MoveEntries
    <2> QED BY <2>1, <2>2
  <1>5. EntriesIn(en) = EntriesIn(entry)
    <2>1. \A e \in Commits : en[e] # NoEntry <=> entry[e] # NoEntry
      BY <1>1, <1>2, <1>3 DEF EntriesIn
    <2> QED BY <2>1 DEF EntriesIn
  <1>6. \A e \in EntriesIn(entry) : e \in Commits /\ e \in Entries
    BY <1>1 DEF EntriesIn
  <1> QED BY <1>2, <1>3, <1>4, <1>5, <1>6

LEMMA LeastFree ==
  ASSUME FreeIds # {}
  PROVE  Least(FreeIds) \in Blocks /\ Least(FreeIds) \notin Rows
  <1>1. FreeIds \in SUBSET Nat /\ FreeIds \subseteq Blocks \ Rows
    BY ReviewStacksAssumption DEF FreeIds
  <1>2. \E x \in FreeIds : \A y \in FreeIds : x <= y
    BY <1>1, LeastOf
  <1>3. Least(FreeIds) \in FreeIds
    BY <1>2 DEF Least
  <1> QED BY <1>1, <1>3

\* The blocks after a split: one is new, and those behind go one up.
ShiftedFor(new, pos, bl) ==
  /\ bl \in [Blocks -> BlockRow \cup {NoBlock}] /\ BlocksIn(bl) = BlocksIn(block) \cup {new}
  /\ bl[new].position = pos + 1 /\ bl[new].status = "draft"
  /\ \A d \in BlocksIn(block) :
       /\ bl[d].status = block[d].status
       /\ bl[d].position = IF block[d].position > pos THEN block[d].position + 1 ELSE block[d].position

LEMMA ShiftedIs ==
  ASSUME StoreOK(setting, block, entry, gen), NEW new \in Blocks, new \notin Rows, NEW pos \in Nat,
         NEW bl, bl = [c \in Blocks |->
                         IF c = new THEN [position |-> pos + 1, status |-> "draft"]
                         ELSE IF c \in Behind(pos) THEN [block[c] EXCEPT !.position = @ + 1]
                         ELSE block[c]]
  PROVE  ShiftedFor(new, pos, bl)
  <1>1. Rows = BlocksIn(block) /\ block \in [Blocks -> BlockRow \cup {NoBlock}]
    BY Stored DEF StoreOK
  <1>2. /\ bl[new] \in BlockRow /\ bl[new] # NoBlock
        /\ bl[new].position = pos + 1 /\ bl[new].status = "draft"
    <2>1. bl[new] = [position |-> pos + 1, status |-> "draft"] /\ pos + 1 \in Nat
      OBVIOUS
    <2> QED BY <2>1 DEF BlockRow, Statuses, NoBlock
  <1>3. \A d \in Rows : /\ bl[d] \in BlockRow /\ bl[d] # NoBlock /\ bl[d].status = block[d].status
                        /\ bl[d].position = IF block[d].position > pos THEN block[d].position + 1
                                            ELSE block[d].position
    <2> TAKE d \in Rows
    <2> PICK x : x = block[d]
      OBVIOUS
    <2>1. x \in BlockRow /\ x.position \in Nat /\ x.status \in Statuses /\ x # NoBlock /\ d \in Blocks /\ d # new
      BY Stored DEF BlockRow, Rows
    <2>2. CASE x.position > pos
      <3>1. bl[d] = [x EXCEPT !.position = x.position + 1]
        BY <2>1, <2>2 DEF Behind
      <3>2. bl[d] = [position |-> x.position + 1, status |-> x.status]
        BY <2>1, <3>1 DEF BlockRow
      <3>3. x.position + 1 \in Nat
        BY <2>1
      <3> QED BY <2>1, <2>2, <3>2, <3>3 DEF BlockRow, NoBlock, Statuses
    <2>3. CASE ~ (x.position > pos)
      <3>1. bl[d] = x
        BY <2>1, <2>3 DEF Behind
      <3> QED BY <2>1, <2>3, <3>1
    <2> QED BY <2>2, <2>3
  <1>4. \A d \in Blocks : d \notin Rows /\ d # new => bl[d] = NoBlock
    BY <1>1 DEF Behind, BlocksIn
  <1>5. bl \in [Blocks -> BlockRow \cup {NoBlock}]
    <2>1. \A d \in Blocks : bl[d] \in BlockRow \cup {NoBlock}
      BY <1>2, <1>3, <1>4
    <2>2. bl = [d \in Blocks |-> bl[d]]
      OBVIOUS
    <2> QED BY <2>1, <2>2
  <1>6. BlocksIn(bl) = Rows \cup {new}
    <2>1. \A d \in Blocks : bl[d] # NoBlock <=> d \in Rows \/ d = new
      BY <1>2, <1>3, <1>4
    <2> QED BY <2>1 DEF BlocksIn, Rows
  <1> QED BY <1>1, <1>2, <1>3, <1>5, <1>6 DEF ShiftedFor

LEMMA InsertHalfKeeps ==
  ASSUME StackIndInv, NEW p \in Procs, InsertHalf(p)
  PROVE  /\ StackIndInv' /\ MergedStays(block, entry, block', entry')
         /\ SameCommits(entry, entry')
  <1> PICK c : c = call[p]
    OBVIOUS
  <1> PICK b, places, pos : b = c.block /\ places = c.places /\ pos = c.position
    OBVIOUS
  <1> PICK new : new = Least(FreeIds)
    OBVIOUS
  <1> PICK bl, en : bl = block' /\ en = entry'
    OBVIOUS
  <1>1. /\ Ends(p, "split") /\ FreeIds # {} /\ en = MoveEntries(places, new)
        /\ bl = [d \in Blocks |->
                   IF d = new THEN [position |-> pos + 1, status |-> "draft"]
                   ELSE IF d \in Behind(pos) THEN [block[d] EXCEPT !.position = @ + 1]
                   ELSE block[d]]
    BY DEF InsertHalf
  <1>2. StoreOK(setting, block, entry, gen) /\ UpToDate(entry, gen, branch)
    BY <1>1, SettingIsKnown, WriterFindsCurrent
  <1>3. Splitting(setting, c, block, entry)
    BY <1>1, SettingIsKnown, CallIs DEF Ends
  <1>4. new \in Blocks /\ new \notin Rows /\ Rows = BlocksIn(block)
    BY <1>1, <1>2, LeastFree, Stored
  <1>5. /\ pos \in Nat /\ pos < setting.positions /\ Placed(places) /\ b \in Blocks
        /\ \A d \in Rows : block[d].position < setting.positions
    BY <1>3, <1>4 DEF Splitting
  <1>6. ShiftedFor(new, pos, bl)
    BY <1>1, <1>2, <1>4, <1>5, ShiftedIs
  <1>7. /\ en \in [Commits -> EntryRow \cup {NoEntry}] /\ EntriesIn(en) = EntriesIn(entry)
        /\ \A e \in EntriesIn(entry) :
             /\ en[e].gen = entry[e].gen
             /\ e \in DOMAIN places => en[e].block = new /\ en[e].position = places[e]
             /\ e \notin DOMAIN places => en[e] = entry[e]
    BY <1>1, <1>2, <1>4, <1>5, MovedIs
  <1>8. \A d \in Rows : block[d].position \in Nat /\ setting.positions \in Nat
    BY <1>2, Known, Stored
  <1>9. Rewritten(bl, en)
    <2>1. \A d \in BlocksIn(bl) : bl[d].position <= setting.positions /\ bl[d].status \in setting.statuses
      <3>1. bl[new].position <= setting.positions /\ bl[new].status \in setting.statuses
        BY <1>5, <1>6, Known DEF ShiftedFor
      <3>2. \A d \in Rows : bl[d].position <= setting.positions
        <4> TAKE d \in Rows
        <4>1. bl[d].position = block[d].position + 1 \/ bl[d].position = block[d].position
          BY <1>4, <1>6 DEF ShiftedFor
        <4> QED BY <4>1, <1>5, <1>8
      <3>3. \A d \in Rows : bl[d].status \in setting.statuses
        BY <1>2, <1>4, <1>6 DEF ShiftedFor, StoreOK
      <3> QED BY <3>1, <3>2, <3>3, <1>4, <1>6 DEF ShiftedFor
    <2>2. \A e \in EntriesIn(en) : en[e].block \in BlocksIn(bl)
      BY <1>2, <1>6, <1>7 DEF ShiftedFor, StoreOK
    <2>3. bl \in [Blocks -> BlockRow \cup {NoBlock}]
      BY <1>6 DEF ShiftedFor
    <2> QED BY <2>1, <2>2, <2>3, <1>7 DEF Rewritten
  <1>10. Distinct(bl)
    <2>1. \A d \in Rows : bl[d].position \in Nat /\ bl[d].position # pos + 1
      <3> TAKE d \in Rows
      <3>1. /\ block[d].position \in Nat
            /\ bl[d].position = IF block[d].position > pos THEN block[d].position + 1 ELSE block[d].position
        BY <1>4, <1>6, <1>8 DEF ShiftedFor
      <3> QED BY <3>1, <1>5
    <2>2. ASSUME NEW d \in Rows, NEW f \in Rows, bl[d].position = bl[f].position PROVE d = f
      <3>1. /\ block[d].position \in Nat
            /\ bl[d].position = IF block[d].position > pos THEN block[d].position + 1 ELSE block[d].position
        BY <1>4, <1>6, <1>8 DEF ShiftedFor
      <3>2. /\ block[f].position \in Nat
            /\ bl[f].position = IF block[f].position > pos THEN block[f].position + 1 ELSE block[f].position
        BY <1>4, <1>6, <1>8 DEF ShiftedFor
      <3>3. block[d].position = block[f].position
        BY <3>1, <3>2, <2>2, <1>5
      <3> QED BY <3>3, <1>4, SettingIsKnown DEF Distinct
    <2>3. bl[new].position = pos + 1 /\ BlocksIn(bl) = Rows \cup {new}
      BY <1>4, <1>6 DEF ShiftedFor
    <2> QED BY <2>1, <2>2, <2>3 DEF Distinct
  <1>11. ASSUME Neat(setting) PROVE Tidy(bl, en)
    <2> PICK S, moved : S = In(entry, b) /\ moved = DOMAIN places
      OBVIOUS
    <2>1. /\ moved \subseteq S /\ moved # {} /\ S \ moved # {} /\ b \in Rows
          /\ Apart(moved, places) /\ Gapless(moved, places)
          /\ \A e \in S \ moved, f \in moved : entry[e].position < entry[f].position
      BY <1>3, <1>4, <1>11 DEF Splitting, Editable, Neat
    <2>2. \A e \in S : e \in EntriesIn(entry) /\ e \in Commits /\ entry[e].block = b /\ entry[e].position \in Nat
      BY <1>2, Stored DEF In, EntriesIn
    <2> SUFFICES ASSUME NEW d \in BlocksIn(bl) PROVE In(en, d) # {} /\ Numbered(en, d)
      BY DEF Tidy
    <2>3. CASE d = new
      <3>1. In(en, d) = moved
        <4>1. \A e \in EntriesIn(entry) : e \notin moved => en[e].block # new
          BY <1>2, <1>4, <1>7 DEF StoreOK
        <4> QED BY <4>1, <2>1, <2>2, <2>3, <1>7 DEF In
      <3>2. \A e \in moved : Places(en)[e] = places[e]
        BY <1>7, <2>1, <2>2 DEF Places
      <3>3. Apart(moved, Places(en)) /\ Gapless(moved, Places(en))
        BY <2>1, <3>2 DEF Apart, Gapless
      <3> QED BY <2>1, <3>1, <3>3 DEF Numbered
    <2>4. CASE d = b
      <3>0. b # new /\ Numbered(entry, b)
        BY <2>1, <1>4, <1>11, SettingIsKnown DEF Tidy
      <3>1. In(en, d) = S \ moved
        BY <1>7, <2>1, <2>2, <2>4, <3>0 DEF In
      <3>2. /\ \A e \in S : Places(entry)[e] = entry[e].position
            /\ \A e \in S \ moved : Places(en)[e] = entry[e].position
        BY <1>7, <2>2 DEF Places
      <3>3. Apart(S \ moved, Places(en))
        BY <3>0, <3>2 DEF Numbered, Apart
      <3>4. Gapless(S \ moved, Places(en))
        <4> SUFFICES ASSUME NEW e \in S \ moved, NEW i \in 0 .. Places(en)[e]
                     PROVE  \E f \in S \ moved : Places(en)[f] = i
          BY DEF Gapless
        <4>1. Places(entry)[e] = entry[e].position /\ Places(en)[e] = entry[e].position
          BY <3>2
        <4>2. PICK f \in S : Places(entry)[f] = i
          BY <3>0, <4>1 DEF Numbered, Gapless
        <4>3. f \notin moved
          <5>1. entry[f].position <= entry[e].position /\ entry[f].position \in Nat /\ entry[e].position \in Nat
            BY <4>1, <4>2, <3>2, <2>2
          <5> QED BY <5>1, <2>1
        <4> QED BY <4>2, <4>3, <3>2
      <3> QED BY <2>1, <3>1, <3>3, <3>4 DEF Numbered
    <2>5. CASE d # new /\ d # b
      <3>1. d \in Rows /\ In(entry, d) # {} /\ Numbered(entry, d)
        BY <2>5, <1>4, <1>6, <1>11, SettingIsKnown DEF Tidy, ShiftedFor
      <3>2. SameIn(entry, en, d)
        <4>1. \A e \in In(entry, d) : e \in EntriesIn(entry) /\ e \notin moved /\ en[e] = entry[e]
          BY <2>1, <2>2, <2>5, <1>7 DEF In
        <4>2. \A e \in In(en, d) : e \in EntriesIn(entry) /\ e \notin moved /\ en[e] = entry[e]
          BY <2>1, <2>2, <2>5, <1>7 DEF In
        <4> QED BY <4>1, <4>2, <1>7 DEF SameIn, In
      <3> QED BY <3>1, <3>2, SameIsTidy DEF SameIn
    <2> QED BY <2>3, <2>4, <2>5
  <1>12. StoreOK(setting, bl, en, gen) /\ OnePatch(en) /\ UpToDate(en, gen, branch)
    BY <1>2, <1>9, RewrittenIs
  <1>13. MergedStays(block, entry, bl, en)
    <2> SUFFICES ASSUME Calm(setting), NEW d \in Rows, block[d].status = "merged"
                 PROVE  In(en, d) = In(entry, d)
      BY DEF MergedStays
    <2>1. d # b /\ d # new /\ DOMAIN places \subseteq In(entry, b)
      BY <1>3, <1>4 DEF Splitting, Editable
    <2> QED BY <2>1, <1>7 DEF In
  <1>14. SameCommits(entry, en)
    BY <1>7 DEF SameCommits
  <1> QED BY <1>1, <1>10, <1>11, <1>12, <1>13, <1>14, EndsKeeps

BlockPlace(c, S) == Cardinality({d \in S : BlockBefore(d, c)})

LEMMA BlockPlacesAre ==
  ASSUME StoreOK(setting, block, entry, gen), NEW S \in SUBSET Rows
  PROVE  /\ Cardinality(S) \in Nat
         /\ \A c \in S : BlockPlace(c, S) \in Nat /\ BlockPlace(c, S) < Cardinality(S)
         /\ \A c, d \in S : BlockPlace(c, S) = BlockPlace(d, S) => c = d
  <1> PICK R : R = {z \in S \X S : BlockBefore(z[1], z[2])}
    OBVIOUS
  <1>1. \A b, c \in S : <<b, c>> \in R <=> BlockBefore(b, c)
    OBVIOUS
  <1>2. Ordered(R, S)
    BY <1>1, BlockOrder DEF Ordered
  <1>3. \A c \in S : BlockPlace(c, S) = Nth(c, R, S)
    <2> TAKE c \in S
    <2>1. {d \in S : BlockBefore(d, c)} = Below(c, R, S)
      BY <1>1 DEF Below
    <2> QED BY <2>1 DEF BlockPlace, Nth
  <1>4. IsFiniteSet(S)
    BY Finite DEF Rows
  <1> QED BY <1>2, <1>3, <1>4, Counted

\* The blocks after a merge are numbered anew.
Renumber(rest, bl) ==
  /\ bl \in [Blocks -> BlockRow \cup {NoBlock}] /\ BlocksIn(bl) = rest
  /\ \A d \in rest : bl[d].status = block[d].status /\ bl[d].position <= setting.positions
  /\ Distinct(bl)

LEMMA RenumberedIs ==
  ASSUME StoreOK(setting, block, entry, gen), Distinct(block), setting.positions \in Nat,
         NEW rest \in SUBSET Rows,
         NEW bl, bl = [c \in Blocks |->
                         IF c \in rest
                         THEN [block[c] EXCEPT !.position = Cardinality({d \in rest : BlockBefore(d, c)})]
                         ELSE NoBlock]
  PROVE  Renumber(rest, bl)
  <1> PICK m, nth : m = Cardinality(rest) /\ nth = [c \in rest |-> Cardinality({d \in rest : BlockBefore(d, c)})]
    OBVIOUS
  <1>3. /\ m \in Nat
        /\ \A c \in rest : nth[c] \in Nat /\ nth[c] < m
        /\ \A c, d \in rest : nth[c] = nth[d] => c = d
    <2>1. \A c \in rest : nth[c] = BlockPlace(c, rest)
      BY DEF BlockPlace
    <2>2. /\ Cardinality(rest) \in Nat
          /\ \A c \in rest : BlockPlace(c, rest) \in Nat /\ BlockPlace(c, rest) < Cardinality(rest)
          /\ \A c, d \in rest : BlockPlace(c, rest) = BlockPlace(d, rest) => c = d
      BY BlockPlacesAre
    <2> QED BY <2>1, <2>2
  <1>4. m <= setting.positions + 1
    <2> DEFINE f == [b \in rest |-> block[b].position]
    <2>1. \A b \in rest : f[b] \in Nat /\ f[b] < setting.positions + 1
      <3> TAKE b \in rest
      <3>1. block[b].position \in Nat /\ block[b].position <= setting.positions
        BY Stored DEF StoreOK
      <3> QED BY <3>1
    <2>2. Apart(rest, f)
      BY Stored DEF Apart, Distinct
    <2>3. setting.positions + 1 \in Nat
      OBVIOUS
    <2> HIDE DEF f
    <2> QED BY <2>1, <2>2, <2>3, FewNumbers
  <1>6. \A c \in rest : /\ bl[c] \in BlockRow /\ bl[c] # NoBlock /\ bl[c].status = block[c].status
                        /\ bl[c].position = nth[c]
    <2> TAKE c \in rest
    <2> PICK x, n : x = block[c] /\ n = nth[c]
      OBVIOUS
    <2>1. x \in BlockRow /\ x.status \in Statuses /\ n \in Nat /\ c \in Blocks
      BY <1>3, Stored DEF BlockRow, Rows
    <2>2. bl[c] = [x EXCEPT !.position = n]
      BY <2>1
    <2>3. bl[c] = [position |-> n, status |-> x.status]
      BY <2>1, <2>2 DEF BlockRow
    <2> QED BY <2>1, <2>3 DEF BlockRow, NoBlock, Statuses
  <1>7. \A c \in Blocks : c \notin rest => bl[c] = NoBlock
    OBVIOUS
  <1>8. bl \in [Blocks -> BlockRow \cup {NoBlock}]
    <2>1. \A c \in Blocks : bl[c] \in BlockRow \cup {NoBlock}
      BY <1>6, <1>7
    <2>2. bl = [c \in Blocks |-> bl[c]]
      OBVIOUS
    <2> QED BY <2>1, <2>2
  <1>9. BlocksIn(bl) = rest
    BY <1>6, <1>7 DEF BlocksIn, Rows
  <1>10. \A c \in rest : bl[c].position <= setting.positions
    <2> TAKE c \in rest
    <2>1. nth[c] \in Nat /\ nth[c] < m /\ bl[c].position = nth[c]
      BY <1>3, <1>6
    <2> QED BY <2>1, <1>3, <1>4
  <1>11. Distinct(bl)
    <2> SUFFICES ASSUME NEW c \in rest, NEW d \in rest, bl[c].position = bl[d].position PROVE c = d
      BY <1>9 DEF Distinct
    <2>1. nth[c] = nth[d]
      BY <1>6
    <2> QED BY <2>1, <1>3
  <1> QED BY <1>6, <1>8, <1>9, <1>10, <1>11 DEF Renumber

\* A block to which entries were moved behind its own.
LEMMA ContinuedIs ==
  ASSUME NEW en, NEW en2, NEW b, NEW moved, NEW places,
         In(en2, b) = In(en, b) \cup moved,
         \A e \in In(en, b) : en2[e].position = en[e].position /\ en[e].position \in Nat,
         \A e \in moved : en2[e].position = places[e] /\ places[e] \in Nat,
         Numbered(en, b), Apart(moved, places), Continue(In(en, b), Places(en), moved, places)
  PROVE  Numbered(en2, b)
  <1> PICK S, f, g : S = In(en, b) /\ f = Places(en) /\ g = Places(en2)
    OBVIOUS
  <1>1. \A e \in S \cup moved : e \in Commits
    BY DEF In, EntriesIn
  <1>2. \A e \in S : f[e] \in Nat /\ g[e] = f[e]
    BY <1>1 DEF Places
  <1>3. \A e \in moved : places[e] \in Nat /\ g[e] = places[e]
    BY <1>1 DEF Places
  <1>4. Apart(S, f) /\ Gapless(S, f) /\ Continue(S, f, moved, places)
    BY DEF Numbered
  <1>5. Apart(S \cup moved, g)
    <2>1. \A e, h \in S : g[e] = g[h] => e = h
      BY <1>2, <1>4 DEF Apart
    <2>2. \A e, h \in moved : g[e] = g[h] => e = h
      BY <1>3 DEF Apart
    <2>3. \A e \in S, h \in moved : g[e] < g[h] /\ g[e] # g[h]
      <3> TAKE e \in S, h \in moved
      <3>1. f[e] < places[h] /\ f[e] \in Nat /\ places[h] \in Nat /\ g[e] = f[e] /\ g[h] = places[h]
        BY <1>2, <1>3, <1>4 DEF Continue
      <3> QED BY <3>1
    <2> QED BY <2>1, <2>2, <2>3 DEF Apart
  <1>6. Gapless(S \cup moved, g)
    <2> SUFFICES ASSUME NEW e \in S \cup moved, NEW i \in 0 .. g[e]
                 PROVE  \E h \in S \cup moved : g[h] = i
      BY DEF Gapless
    <2>1. CASE e \in S
      <3>1. PICK h \in S : f[h] = i
        BY <2>1, <1>2, <1>4 DEF Gapless
      <3> QED BY <3>1, <1>2
    <2>2. CASE e \in moved
      <3>1. (\E h \in S : f[h] = i) \/ (\E h \in moved : places[h] = i)
        BY <2>2, <1>3, <1>4 DEF Continue
      <3> QED BY <3>1, <1>2, <1>3
    <2> QED BY <2>1, <2>2
  <1> QED BY <1>5, <1>6 DEF Numbered

LEMMA JoinBlocksKeeps ==
  ASSUME StackIndInv, NEW p \in Procs, JoinBlocks(p)
  PROVE  /\ StackIndInv' /\ MergedStays(block, entry, block', entry')
         /\ call[p].block \notin call[p].others => SameCommits(entry, entry')
  <1> PICK c : c = call[p]
    OBVIOUS
  <1> PICK b, places, others : b = c.block /\ places = c.places /\ others = c.others
    OBVIOUS
  <1> PICK rest : rest = Rows \ others
    OBVIOUS
  <1> PICK mv : mv = MoveEntries(places, b)
    OBVIOUS
  <1> PICK bl, en : bl = block' /\ en = entry'
    OBVIOUS
  <1>1. /\ Ends(p, "merge")
        /\ IF b \in rest \/ DOMAIN places \cap Entries = {}
           THEN /\ en = [e \in Commits |-> IF mv[e].block \in others THEN NoEntry ELSE mv[e]]
                /\ bl = [d \in Blocks |->
                           IF d \in rest
                           THEN [block[d] EXCEPT !.position = Cardinality({f \in rest : BlockBefore(f, d)})]
                           ELSE NoBlock]
           ELSE UNCHANGED <<block, entry>>
    BY DEF JoinBlocks
  <1>2. StoreOK(setting, block, entry, gen) /\ UpToDate(entry, gen, branch)
    BY <1>1, SettingIsKnown, WriterFindsCurrent
  <1>3. Merging(setting, c, block, entry)
    BY <1>1, SettingIsKnown, CallIs DEF Ends
  <1>4. CASE ~ (b \in rest \/ DOMAIN places \cap Entries = {})
    <2>1. block' = block /\ entry' = entry
      BY <1>1, <1>4
    <2>2. /\ StoreOK(setting, block', entry', gen) /\ Distinct(block') /\ OnePatch(entry')
          /\ UpToDate(entry', gen, branch) /\ (Neat(setting) => Tidy(block', entry'))
      BY <2>1, <1>2, SettingIsKnown
    <2>3. MergedStays(block, entry, block', entry') /\ SameCommits(entry, entry')
      BY <2>1 DEF MergedStays, SameCommits
    <2> QED BY <2>2, <2>3, <1>1, EndsKeeps
  <1>5. CASE b \in rest \/ DOMAIN places \cap Entries = {}
    <2>1. /\ b \in Blocks /\ Placed(places)
          /\ \A e \in EntriesIn(entry) : entry[e].block \in others \ {b} => e \in DOMAIN places
      BY <1>3 DEF Merging
    <2>2. Rows = BlocksIn(block) /\ Entries = EntriesIn(entry)
      BY <1>2, Stored
    <2>3. /\ mv \in [Commits -> EntryRow \cup {NoEntry}] /\ EntriesIn(mv) = EntriesIn(entry)
          /\ \A e \in EntriesIn(entry) :
               /\ mv[e].gen = entry[e].gen
               /\ e \in DOMAIN places => mv[e].block = b /\ mv[e].position = places[e]
               /\ e \notin DOMAIN places => mv[e] = entry[e]
      BY <1>2, <2>1, MovedIs
    <2>4. b \notin others => \A e \in EntriesIn(entry) : mv[e].block \notin others
      BY <2>1, <2>3
    <2>5. /\ EntriesIn(en) \subseteq EntriesIn(entry)
          /\ \A e \in EntriesIn(en) : en[e] = mv[e] /\ mv[e].block \notin others
          /\ \A e \in EntriesIn(entry) : mv[e].block \notin others => e \in EntriesIn(en)
      <3>1. \A e \in Commits : en[e] = IF mv[e].block \in others THEN NoEntry ELSE mv[e]
        BY <1>1, <1>5
      <3> QED BY <3>1, <2>3 DEF EntriesIn
    <2>6. en \in [Commits -> EntryRow \cup {NoEntry}]
      BY <1>1, <1>5, <2>3
    <2>7. Renumber(rest, bl)
      <3>1. rest \in SUBSET Rows /\ setting.positions \in Nat /\ Distinct(block)
        BY Known, SettingIsKnown
      <3>2. bl = [d \in Blocks |->
                    IF d \in rest
                    THEN [block[d] EXCEPT !.position = Cardinality({f \in rest : BlockBefore(f, d)})]
                    ELSE NoBlock]
        BY <1>1, <1>5
      <3> QED BY <1>2, <3>1, <3>2, RenumberedIs
    <2>8. \A e \in EntriesIn(en) : en[e].block \in rest /\ en[e].gen = entry[e].gen
      <3> TAKE e \in EntriesIn(en)
      <3>1. e \in EntriesIn(entry) /\ en[e] = mv[e] /\ en[e].block \notin others /\ en[e].gen = entry[e].gen
        BY <2>3, <2>5
      <3>2. CASE e \in DOMAIN places
        BY <3>1, <3>2, <1>5, <2>2, <2>3
      <3>3. CASE e \notin DOMAIN places
        <4>1. en[e].block \in Rows
          BY <3>1, <3>3, <1>2, <2>2, <2>3 DEF StoreOK
        <4> QED BY <3>1, <4>1
      <3> QED BY <3>2, <3>3
    <2>9. Rewritten(bl, en)
      <3>1. \A d \in BlocksIn(bl) : bl[d].position <= setting.positions /\ bl[d].status \in setting.statuses
        BY <1>2, <2>2, <2>7 DEF Renumber, StoreOK
      <3> QED BY <3>1, <2>5, <2>6, <2>7, <2>8 DEF Rewritten, Renumber
    <2>10. ASSUME Neat(setting) PROVE Tidy(bl, en)
      <3> PICK moved : moved = DOMAIN places
        OBVIOUS
      <3>1. /\ b \in Rows /\ Apart(moved, places) /\ Continue(In(entry, b), Places(entry), moved, places)
            /\ \A e \in moved : e \in EntriesIn(entry) /\ entry[e].block \in others
        BY <1>3, <2>2, <2>10 DEF Merging, Editable, Neat
      <3> SUFFICES ASSUME NEW d \in BlocksIn(bl) PROVE In(en, d) # {} /\ Numbered(en, d)
        BY DEF Tidy
      <3>2. d \in Rows /\ d \notin others /\ In(entry, d) # {} /\ Numbered(entry, d)
        BY <2>2, <2>7, <2>10, SettingIsKnown DEF Tidy, Renumber
      <3>0. EntriesIn(en) = EntriesIn(entry) /\ \A e \in EntriesIn(entry) : en[e] = mv[e]
        <4>1. b \notin others
          BY <1>3, <2>10 DEF Merging
        <4> QED BY <4>1, <2>4, <2>5
      <3>3. \A e \in EntriesIn(entry) : /\ e \in moved => en[e].block = b /\ en[e].position = places[e]
                                        /\ e \notin moved => en[e] = entry[e]
        BY <2>3, <3>0
      <3>4. CASE d = b
        <4>1. In(en, b) = In(entry, b) \cup moved
          BY <3>1, <3>2, <3>3, <3>4, <3>0 DEF In
        <4>2. \A e \in In(entry, b) : en[e].position = entry[e].position /\ entry[e].position \in Nat
          <5> TAKE e \in In(entry, b)
          <5>1. e \in EntriesIn(entry) /\ e \notin moved
            BY <3>1, <3>2, <3>4 DEF In
          <5> QED BY <5>1, <3>3, <1>2, <2>2, Stored
        <4>3. \A e \in moved : en[e].position = places[e] /\ places[e] \in Nat
          BY <3>1, <3>3, <2>1 DEF Placed
        <4>4. Numbered(en, b)
          BY <4>1, <4>2, <4>3, <3>1, <3>2, <3>4, ContinuedIs
        <4> QED BY <4>1, <4>4, <3>2, <3>4
      <3>5. CASE d # b
        <4>1. SameIn(entry, en, d)
          <5>1. \A e \in In(entry, d) : e \in EntriesIn(entry) /\ e \notin moved /\ en[e] = entry[e]
            BY <3>1, <3>2, <3>3 DEF In
          <5>2. \A e \in In(en, d) : e \in EntriesIn(entry) /\ e \notin moved /\ en[e] = entry[e]
            BY <3>3, <3>5, <3>0 DEF In
          <5> QED BY <5>1, <5>2, <3>0 DEF SameIn, In
        <4> QED BY <3>2, <4>1, SameIsTidy DEF SameIn
      <3> QED BY <3>4, <3>5
    <2>11. StoreOK(setting, bl, en, gen) /\ OnePatch(en) /\ UpToDate(en, gen, branch)
      BY <1>2, <2>9, RewrittenIs
    <2>12. Distinct(bl)
      BY <2>7 DEF Renumber
    <2>13. MergedStays(block, entry, bl, en)
      <3> SUFFICES ASSUME Calm(setting), NEW d \in Rows, block[d].status = "merged"
                   PROVE  In(en, d) = In(entry, d)
        BY DEF MergedStays
      <3>1. /\ d # b /\ d \notin others
            /\ \A e \in DOMAIN places : e \in EntriesIn(entry) /\ entry[e].block \in others
        BY <1>3 DEF Merging, Editable
      <3>2. ASSUME NEW e \in In(entry, d) PROVE e \in In(en, d)
        <4>1. e \in EntriesIn(entry) /\ entry[e].block = d /\ mv[e] = entry[e]
          BY <3>1, <2>3 DEF In
        <4> QED BY <4>1, <3>1, <2>5 DEF In
      <3>3. ASSUME NEW e \in In(en, d) PROVE e \in In(entry, d)
        <4>1. e \in EntriesIn(entry) /\ mv[e].block = d
          BY <2>5 DEF In
        <4>2. mv[e] = entry[e]
          BY <4>1, <3>1, <2>3
        <4> QED BY <4>1, <4>2 DEF In
      <3> QED BY <3>2, <3>3
    <2>14. b \notin others => SameCommits(entry, en)
      <3> SUFFICES ASSUME b \notin others PROVE SameCommits(entry, en)
        OBVIOUS
      <3>1. EntriesIn(en) = EntriesIn(entry)
        BY <2>4, <2>5
      <3>2. \A e \in EntriesIn(entry) : en[e].gen = entry[e].gen
        BY <3>1, <2>3, <2>5
      <3> QED BY <3>1, <3>2 DEF SameCommits
    <2>15. StackIndInv'
      BY <1>1, <2>10, <2>11, <2>12, EndsKeeps
    <2>16. MergedStays(block, entry, block', entry') /\ (b \notin others => SameCommits(entry, entry'))
      BY <2>13, <2>14
    <2> QED BY <2>15, <2>16
  <1> QED BY <1>4, <1>5

-----------------------------------------------------------------------------
(* Blocks for the commits that have none *)

LEMMA UnassignedIs ==
  ASSUME NEW n \in Nat, n <= Cardinality(FreeIds)
  PROVE  /\ Unassigned(n) \in SUBSET FreeIds /\ Cardinality(Unassigned(n)) = n
         /\ FreeIds \in SUBSET Blocks /\ FreeIds \cap Rows = {}
  <1>1. FreeIds \in SUBSET Blocks /\ FreeIds \cap Rows = {}
    BY DEF FreeIds
  <1>2. IsFiniteSet(FreeIds) /\ FreeIds \in SUBSET Nat
    BY <1>1, Finite
  <1>3. \E T \in SUBSET FreeIds : Cardinality(T) = n /\ \A b \in T, c \in FreeIds \ T : b < c
    BY <1>2, SmallestAre
  <1> QED BY <1>1, <1>3 DEF Unassigned

\* Each new block is for one commit, and each commit is in one.
OneEach(new, ids, of) ==
  /\ \A e \in new : of[e] \in ids
  /\ \A e, f \in new : of[e] = of[f] => e = f
  /\ \A b \in ids : \E e \in new : of[e] = b
BlockFor(new, ids) ==
  [e \in new |-> CHOOSE b \in ids : Rank(b, ids) = Rank(e[1], {c[1] : c \in new})]

LEMMA OneBlockEach ==
  ASSUME NEW ids \in SUBSET Blocks, NEW new \in SUBSET Commits, Cardinality(ids) = Cardinality(new),
         \A e, f \in new : e[1] = f[1] => e = f,
         NEW of, of = BlockFor(new, ids)
  PROVE  OneEach(new, ids, of)
  <1> DEFINE Ps == {c[1] : c \in new}
  <1> PICK n : n = Cardinality(new)
    OBVIOUS
  <1>1. Ps \in SUBSET Patches
    BY DEF Commits
  <1>2. IsFiniteSet(Ps) /\ Ps \in SUBSET Nat /\ IsFiniteSet(ids) /\ ids \in SUBSET Nat /\ IsFiniteSet(new)
    BY <1>1, Finite
  <1>3. Cardinality(Ps) = n
    <2> DEFINE f == [c \in new |-> c[1]]
    <2>1. f \in Bijection(new, Ps)
      <3>1. f \in [new -> Ps]
        OBVIOUS
      <3>2. \A c, d \in new : f[c] = f[d] => c = d
        OBVIOUS
      <3>3. \A x \in Ps : \E c \in new : f[c] = x
        OBVIOUS
      <3> HIDE DEF f, Ps
      <3> QED BY <3>1, <3>2, <3>3 DEF Bijection, Injection, Surjection, IsInjective
    <2> HIDE DEF f, Ps
    <2> QED BY <2>1, <1>2, FS_Bijection DEF ExistsBijection
  <1>4. \A e \in new : e[1] \in Ps
    OBVIOUS
  <1>5. \A x \in Ps : \E e \in new : e[1] = x
    OBVIOUS
  <1>6. \A e \in new : of[e] = CHOOSE b \in ids : Rank(b, ids) = Rank(e[1], Ps)
    BY DEF BlockFor
  <1> HIDE DEF Ps
  <1>7. n \in Nat
    BY <1>2, FS_CardinalityType
  <1>8. /\ \A x \in Ps : Rank(x, Ps) \in Nat /\ Rank(x, Ps) < n
        /\ \A x, y \in Ps : Rank(x, Ps) = Rank(y, Ps) => x = y
        /\ \A i \in Nat : i < n => \E x \in Ps : Rank(x, Ps) = i
    BY <1>2, <1>3, RankIs
  <1>9. /\ \A x \in ids : Rank(x, ids) \in Nat /\ Rank(x, ids) < n
        /\ \A x, y \in ids : Rank(x, ids) = Rank(y, ids) => x = y
        /\ \A i \in Nat : i < n => \E x \in ids : Rank(x, ids) = i
    <2>1. Cardinality(ids) = n
      OBVIOUS
    <2> QED BY <2>1, <1>2, RankIs
  <1>10. \A e \in new : of[e] \in ids /\ Rank(of[e], ids) = Rank(e[1], Ps)
    <2> TAKE e \in new
    <2>1. \E b \in ids : Rank(b, ids) = Rank(e[1], Ps)
      BY <1>4, <1>8, <1>9
    <2> QED BY <2>1, <1>6
  <1>11. ASSUME NEW e \in new, NEW f \in new, of[e] = of[f] PROVE e = f
    <2>1. Rank(e[1], Ps) = Rank(f[1], Ps)
      BY <1>10, <1>11
    <2>2. e[1] = f[1]
      BY <2>1, <1>4, <1>8
    <2> QED BY <2>2
  <1>12. ASSUME NEW b \in ids PROVE \E e \in new : of[e] = b
    <2>1. PICK x \in Ps : Rank(x, Ps) = Rank(b, ids)
      BY <1>8, <1>9
    <2>2. PICK e \in new : e[1] = x
      BY <1>5
    <2>3. of[e] \in ids /\ Rank(of[e], ids) = Rank(b, ids)
      BY <2>1, <2>2, <1>10
    <2> QED BY <2>3, <1>9
  <1> QED BY <1>10, <1>11, <1>12 DEF OneEach

\* The blocks with the new ones on top.
Stacked(bl, ids, first) ==
  [b \in Blocks |-> IF b \in ids THEN [position |-> first + Rank(b, ids), status |-> "draft"] ELSE bl[b]]
Stack(st, bl) ==
  /\ bl \in [Blocks -> BlockRow \cup {NoBlock}] /\ Distinct(bl)
  /\ \A b \in BlocksIn(bl) : bl[b].position <= st.positions /\ bl[b].status \in st.statuses

Room(st, bl, ids, first) ==
  /\ ids \in SUBSET Blocks /\ first \in Nat /\ Stack(st, bl) /\ ids \cap BlocksIn(bl) = {}
  /\ \A b \in BlocksIn(bl) : bl[b].position < first
  /\ st.positions \in Nat /\ "draft" \in st.statuses /\ first + Cardinality(ids) <= st.positions + 1
OnTop(st, bl, ids, bl2) ==
  Stack(st, bl2) /\ BlocksIn(bl2) = BlocksIn(bl) \cup ids /\ \A b \in BlocksIn(bl) : bl2[b] = bl[b]

LEMMA StackedIs ==
  ASSUME NEW st, NEW bl, NEW ids, NEW first, Room(st, bl, ids, first)
  PROVE  OnTop(st, bl, ids, Stacked(bl, ids, first))
  <1> PICK bl2 : bl2 = Stacked(bl, ids, first)
    OBVIOUS
  <1>0. /\ ids \in SUBSET Blocks /\ first \in Nat /\ Stack(st, bl) /\ ids \cap BlocksIn(bl) = {}
        /\ \A b \in BlocksIn(bl) : bl[b].position < first
        /\ st.positions \in Nat /\ "draft" \in st.statuses /\ first + Cardinality(ids) <= st.positions + 1
    BY DEF Room
  <1> PICK m : m = Cardinality(ids)
    OBVIOUS
  <1>1. /\ m \in Nat
        /\ \A x \in ids : Rank(x, ids) \in Nat /\ Rank(x, ids) < m
        /\ \A x, y \in ids : Rank(x, ids) = Rank(y, ids) => x = y
    <2>1. IsFiniteSet(ids) /\ ids \in SUBSET Nat
      BY <1>0, Finite
    <2>2. /\ Cardinality(ids) \in Nat
          /\ \A x \in ids : Rank(x, ids) \in Nat /\ Rank(x, ids) < Cardinality(ids)
          /\ \A x, y \in ids : Rank(x, ids) = Rank(y, ids) => x = y
      BY <2>1, RankIs
    <2> QED BY <2>2
  <1>2. \A b \in ids : /\ bl2[b] \in BlockRow /\ bl2[b] # NoBlock /\ bl2[b].status = "draft"
                       /\ bl2[b].position = first + Rank(b, ids)
    <2> TAKE b \in ids
    <2> PICK n : n = first + Rank(b, ids)
      OBVIOUS
    <2>1. n \in Nat /\ bl2[b] = [position |-> n, status |-> "draft"]
      BY <1>0, <1>1 DEF Stacked
    <2> QED BY <2>1 DEF BlockRow, Statuses, NoBlock
  <1>3. \A b \in Blocks : b \notin ids => bl2[b] = bl[b]
    BY DEF Stacked
  <1>4. bl2 \in [Blocks -> BlockRow \cup {NoBlock}]
    <2>1. \A b \in Blocks : bl2[b] \in BlockRow \cup {NoBlock}
      BY <1>0, <1>2, <1>3 DEF Stack
    <2>2. bl2 = [b \in Blocks |-> bl2[b]]
      BY DEF Stacked
    <2> QED BY <2>1, <2>2
  <1>5. BlocksIn(bl2) = BlocksIn(bl) \cup ids
    <2>1. \A b \in Blocks : bl2[b] # NoBlock <=> b \in ids \/ bl[b] # NoBlock
      BY <1>2, <1>3
    <2> QED BY <1>0, <2>1 DEF BlocksIn
  <1>6. \A b \in BlocksIn(bl) : bl2[b] = bl[b] /\ bl[b].position \in Nat
    <2> TAKE b \in BlocksIn(bl)
    <2>1. b \in Blocks /\ b \notin ids /\ bl[b] \in BlockRow
      BY <1>0 DEF BlocksIn, Stack
    <2> QED BY <2>1, <1>3 DEF BlockRow
  <1>7. \A b \in ids : bl2[b].position \in Nat /\ first <= bl2[b].position /\ bl2[b].position <= st.positions
    <2> TAKE b \in ids
    <2>1. Rank(b, ids) \in Nat /\ Rank(b, ids) < m /\ bl2[b].position = first + Rank(b, ids)
      BY <1>1, <1>2
    <2> QED BY <2>1, <1>0, <1>1
  <1>8. Distinct(bl2)
    <2>1. \A b, c \in BlocksIn(bl) : bl2[b].position = bl2[c].position => b = c
      BY <1>0, <1>6 DEF Distinct, Stack
    <2>2. ASSUME NEW b \in ids, NEW c \in ids, bl2[b].position = bl2[c].position PROVE b = c
      <3>1. first + Rank(b, ids) = first + Rank(c, ids) /\ Rank(b, ids) \in Nat /\ Rank(c, ids) \in Nat
        BY <1>1, <1>2, <2>2
      <3>2. Rank(b, ids) = Rank(c, ids)
        BY <1>0, <3>1
      <3> QED BY <3>2, <1>1
    <2>3. \A b \in BlocksIn(bl), c \in ids : bl2[b].position < bl2[c].position /\ bl2[b].position # bl2[c].position
      <3> TAKE b \in BlocksIn(bl), c \in ids
      <3>1. bl2[b].position \in Nat /\ bl2[b].position < first /\ bl2[c].position \in Nat /\ first <= bl2[c].position
        BY <1>0, <1>6, <1>7
      <3> QED BY <1>0, <3>1
    <2> QED BY <2>1, <2>2, <2>3, <1>5 DEF Distinct
  <1>9. \A b \in BlocksIn(bl2) : bl2[b].position <= st.positions /\ bl2[b].status \in st.statuses
    BY <1>0, <1>2, <1>5, <1>6, <1>7 DEF Stack
  <1> QED BY <1>4, <1>5, <1>6, <1>8, <1>9 DEF Stack, OnTop

\* What the blocks and entries are after each commit of cs has a block.
Fills(bl, en, bl2, en2) ==
  /\ StoreOK(setting, bl2, en2, gen) /\ Distinct(bl2) /\ OnePatch(en2) /\ UpToDate(en2, gen, branch)
  /\ Tidy(bl, en) => Tidy(bl2, en2)
  /\ \A b \in BlocksIn(bl) : bl2[b] = bl[b]
  /\ \A b \in Rows : bl2[b] = bl[b]
  /\ \A e \in EntriesIn(en) : en2[e] = en[e]
  /\ \A b \in Rows : In(en2, b) = In(en, b)

\* The entries with those of the new blocks.
Entered(en, new, of) ==
  [e \in Commits |-> IF e \in new THEN [block |-> of[e], position |-> 0, gen |-> e[2]] ELSE en[e]]
Enters(en, new, of, en2) ==
  /\ en2 \in [Commits -> EntryRow \cup {NoEntry}] /\ EntriesIn(en2) = EntriesIn(en) \cup new
  /\ \A e \in EntriesIn(en) : e \notin new /\ en2[e] = en[e]
  /\ \A e \in new : en2[e].block = of[e] /\ en2[e].position = 0 /\ en2[e].gen = gen

LEMMA EnteredIs ==
  ASSUME StackIndInv, NEW en \in [Commits -> EntryRow \cup {NoEntry}],
         NEW new, new \subseteq At(gen, branch), \A c \in new, e \in EntriesIn(en) : c[1] # e[1],
         NEW of, \A e \in new : of[e] \in Blocks, NEW en2, en2 = Entered(en, new, of)
  PROVE  Enters(en, new, of, en2)
  <1>1. \A e \in new : e \in Commits /\ e[2] = gen
    BY Known
  <1>2. \A e \in new : /\ en2[e] \in EntryRow /\ en2[e] # NoEntry /\ en2[e].block = of[e]
                       /\ en2[e].position = 0 /\ en2[e].gen = gen
    <2> TAKE e \in new
    <2> PICK b : b = of[e]
      OBVIOUS
    <2>1. en2[e] = [block |-> b, position |-> 0, gen |-> gen] /\ b \in Blocks /\ gen \in Nat
      BY <1>1, Known DEF Entered
    <2> QED BY <2>1, ReviewStacksAssumption DEF EntryRow, NoEntry
  <1>3. \A e \in Commits : e \notin new => en2[e] = en[e]
    BY DEF Entered
  <1>4. \A e \in EntriesIn(en) : e \notin new /\ en2[e] = en[e]
    BY <1>3 DEF EntriesIn
  <1>5. EntriesIn(en2) = EntriesIn(en) \cup new
    <2>1. \A e \in Commits : en2[e] # NoEntry <=> e \in new \/ en[e] # NoEntry
      BY <1>2, <1>3
    <2> QED BY <2>1, <1>1 DEF EntriesIn
  <1>6. en2 \in [Commits -> EntryRow \cup {NoEntry}]
    <2>1. \A e \in Commits : en2[e] \in EntryRow \cup {NoEntry}
      BY <1>2, <1>3
    <2>2. en2 = [e \in Commits |-> en2[e]]
      BY DEF Entered
    <2> QED BY <2>1, <2>2
  <1> QED BY <1>2, <1>4, <1>5, <1>6 DEF Enters

LEMMA FilledIs ==
  ASSUME StackIndInv, NEW bl, NEW en, StoreOK(setting, bl, en, gen), OnePatch(en),
         UpToDate(en, gen, branch),
         NEW new, new \subseteq At(gen, branch), \A c \in new, e \in EntriesIn(en) : c[1] # e[1],
         NEW ids, ids \cap Rows = {}, BlocksIn(bl) \subseteq Rows, NEW of, OneEach(new, ids, of),
         NEW bl2, Stack(setting, bl2), BlocksIn(bl2) = BlocksIn(bl) \cup ids,
         \A b \in BlocksIn(bl) : bl2[b] = bl[b], \A b \in Rows : bl2[b] = bl[b],
         NEW en2, Enters(en, new, of, en2)
  PROVE  Fills(bl, en, bl2, en2)
  <1>1. /\ en2 \in [Commits -> EntryRow \cup {NoEntry}] /\ EntriesIn(en2) = EntriesIn(en) \cup new
        /\ \A e \in EntriesIn(en) : e \notin new /\ en2[e] = en[e]
        /\ \A e \in new : en2[e].block = of[e] /\ en2[e].position = 0 /\ en2[e].gen = gen
    BY DEF Enters
  <1>2. \A e \in EntriesIn(en) : /\ e \in Commits /\ en[e].block \in BlocksIn(bl)
                                 /\ e[2] <= en[e].gen /\ en[e].gen <= gen
    BY DEF StoreOK, EntriesIn
  <1>3. \A e \in new : e \in Commits /\ e[1] \in branch /\ e[2] = gen /\ e = <<e[1], gen>>
    BY Known
  <1>4. \A e \in new : en2[e].block \in ids
    BY <1>1 DEF OneEach
  <1>5. StoreOK(setting, bl2, en2, gen)
    <2>1. \A e \in new : en2[e].block \in BlocksIn(bl2) /\ e[2] <= en2[e].gen /\ en2[e].gen <= gen
      BY <1>1, <1>3, <1>4, Known
    <2>2. \A e \in EntriesIn(en) : en2[e].block \in BlocksIn(bl2) /\ e[2] <= en2[e].gen /\ en2[e].gen <= gen
      BY <1>1, <1>2
    <2> QED BY <2>1, <2>2, <1>1 DEF StoreOK, Stack
  <1>6. OnePatch(en2)
    <2>1. \A e, f \in EntriesIn(en) : e[1] = f[1] => e = f
      BY DEF OnePatch
    <2>2. \A e, f \in new : e[1] = f[1] => e = f
      BY <1>3
    <2> QED BY <2>1, <2>2, <1>1 DEF OnePatch
  <1>7. UpToDate(en2, gen, branch)
    <2>1. \A e \in EntriesIn(en) : en2[e].gen = gen /\ e[1] \in branch
      BY <1>1 DEF UpToDate
    <2>2. \A e \in new : en2[e].gen = gen /\ e[1] \in branch
      BY <1>1, <1>3
    <2> QED BY <2>1, <2>2, <1>1 DEF UpToDate
  <1>8. ASSUME Tidy(bl, en) PROVE Tidy(bl2, en2)
    <2> SUFFICES ASSUME NEW d \in BlocksIn(bl2) PROVE In(en2, d) # {} /\ Numbered(en2, d)
      BY DEF Tidy
    <2>1. CASE d \in ids
      <3>1. PICK e \in new : of[e] = d
        BY <2>1 DEF OneEach
      <3>2. In(en2, d) = {e}
        <4>1. \A f \in new : en2[f].block = d <=> f = e
          <5> TAKE f \in new
          <5>1. en2[f].block = of[f] /\ (of[f] = of[e] => f = e)
            BY <1>1 DEF OneEach
          <5> QED BY <5>1, <3>1
        <4>2. \A f \in EntriesIn(en) : en2[f].block # d
          BY <2>1, <1>1, <1>2
        <4> QED BY <4>1, <4>2, <1>1 DEF In
      <3>3. Places(en2)[e] = 0
        BY <1>1, <1>3 DEF Places
      <3>4. Apart({e}, Places(en2)) /\ Gapless({e}, Places(en2))
        BY <3>3 DEF Apart, Gapless
      <3> QED BY <3>2, <3>4 DEF Numbered
    <2>2. CASE d \notin ids
      <3>1. d \in BlocksIn(bl) /\ In(en, d) # {} /\ Numbered(en, d)
        BY <2>2, <1>8 DEF Tidy
      <3>2. SameIn(en, en2, d)
        <4>1. \A e \in new : en2[e].block # d
          BY <2>2, <1>4
        <4>2. In(en2, d) = In(en, d)
          BY <4>1, <1>1 DEF In
        <4>3. \A e \in In(en, d) : en2[e] = en[e]
          BY <1>1 DEF In
        <4> QED BY <4>2, <4>3 DEF SameIn
      <3> QED BY <3>1, <3>2, SameIsTidy DEF SameIn
    <2> QED BY <2>1, <2>2
  <1>9. Distinct(bl2) /\ \A e \in EntriesIn(en) : en2[e] = en[e]
    BY <1>1 DEF Stack
  <1>10. \A b \in Rows : In(en2, b) = In(en, b)
    <2> TAKE b \in Rows
    <2>1. \A e \in new : en2[e].block # b
      BY <1>4
    <2> QED BY <2>1, <1>1 DEF In
  <1> QED BY <1>5, <1>6, <1>7, <1>8, <1>9, <1>10 DEF Fills

\* The position on top of the stack.
LEMMA TopIs ==
  ASSUME NEW bl, NEW m \in Nat, bl \in [Blocks -> BlockRow \cup {NoBlock}],
         \A b \in BlocksIn(bl) : bl[b].position <= m
  PROVE  /\ After({bl[b].position : b \in BlocksIn(bl)}) \in Nat
         /\ \A b \in BlocksIn(bl) : bl[b].position < After({bl[b2].position : b2 \in BlocksIn(bl)})
  <1> DEFINE S == {bl[b].position : b \in BlocksIn(bl)}
  <1>1. S \in SUBSET Nat
    BY DEF BlocksIn, BlockRow
  <1>2. \A x \in S : x <= m
    OBVIOUS
  <1>3. IsFiniteSet(S)
    BY <1>1, <1>2, FS_BoundedSetOfNaturals
  <1>4. \A b \in BlocksIn(bl) : bl[b].position \in S
    OBVIOUS
  <1> HIDE DEF S
  <1>5. After(S) \in Nat /\ \A x \in S : x < After(S)
    BY <1>1, <1>3, AfterIs
  <1>6. \A b \in BlocksIn(bl) : bl[b].position < After(S)
    BY <1>4, <1>5
  <1> QED BY <1>5, <1>6 DEF S

LEMMA PopulatedIs ==
  ASSUME StackIndInv, NEW bl, NEW en, StoreOK(setting, bl, en, gen), Distinct(bl), OnePatch(en),
         UpToDate(en, gen, branch), BlocksIn(bl) \subseteq Rows,
         NEW cs, cs \subseteq At(gen, branch), Populated(bl, en, cs)
  PROVE  Fills(bl, en, block', entry')
  <1> PICK new : new = cs \ {<<e[1], en[e].gen>> : e \in EntriesIn(en)}
    OBVIOUS
  <1> PICK first : first = After({bl[b].position : b \in BlocksIn(bl)})
    OBVIOUS
  <1> PICK n : n = Cardinality(new)
    OBVIOUS
  <1> PICK ids : ids = Unassigned(n)
    OBVIOUS
  <1> PICK of : of = BlockFor(new, ids)
    OBVIOUS
  <1> PICK bl2, en2 : bl2 = block' /\ en2 = entry'
    OBVIOUS
  <1>1. /\ n <= Cardinality(FreeIds) /\ first + n <= setting.positions + 1
        /\ bl2 = Stacked(bl, ids, first) /\ en2 = Entered(en, new, of)
    <2>1. /\ Cardinality(FreeIds) >= n /\ first + n <= setting.positions + 1
          /\ bl2 = [b \in Blocks |->
                      IF b \in ids THEN [position |-> first + Rank(b, ids), status |-> "draft"] ELSE bl[b]]
          /\ en2 = [e \in Commits |->
                      IF e \in new
                      THEN [block |-> CHOOSE b \in ids : Rank(b, ids) = Rank(e[1], {c[1] : c \in new}),
                            position |-> 0, gen |-> e[2]]
                      ELSE en[e]]
      BY DEF Populated, EntriesIn, BlocksIn
    <2>2. Cardinality(FreeIds) >= n => n <= Cardinality(FreeIds)
      OBVIOUS
    <2>3. bl2 = Stacked(bl, ids, first)
      BY <2>1 DEF Stacked
    <2>4. en2 = Entered(en, new, of)
      BY <2>1 DEF Entered, BlockFor
    <2> QED BY <2>1, <2>2, <2>3, <2>4
  <1>2. new \in SUBSET At(gen, branch) /\ new \in SUBSET Commits
    BY Known
  <1>3. \A e, f \in new : e[1] = f[1] => e = f
    BY <1>2, Known
  <1>4. \A c \in new, e \in EntriesIn(en) : c[1] # e[1]
    <2> TAKE c \in new, e \in EntriesIn(en)
    <2>1. c = <<c[1], gen>> /\ en[e].gen = gen
      BY <1>2, Known DEF UpToDate
    <2>2. c # <<e[1], en[e].gen>>
      OBVIOUS
    <2> QED BY <2>1, <2>2
  <1>5. first \in Nat /\ \A b \in BlocksIn(bl) : bl[b].position < first
    <2>1. /\ setting.positions \in Nat /\ bl \in [Blocks -> BlockRow \cup {NoBlock}]
          /\ \A b \in BlocksIn(bl) : bl[b].position <= setting.positions
      BY Known DEF StoreOK
    <2> QED BY <2>1, TopIs
  <1>6. n \in Nat
    BY <1>2, Finite, FS_CardinalityType
  <1>7. ids \in SUBSET Blocks /\ ids \cap Rows = {} /\ Cardinality(ids) = n
    BY <1>1, <1>6, UnassignedIs
  <1>8. OneEach(new, ids, of)
    <2>1. Cardinality(ids) = Cardinality(new)
      BY <1>7
    <2> QED BY <1>2, <1>3, <1>7, <2>1, OneBlockEach
  <1>9. first + Cardinality(ids) <= setting.positions + 1
    BY <1>1, <1>7
  <1>10. /\ Stack(setting, bl2) /\ BlocksIn(bl2) = BlocksIn(bl) \cup ids
         /\ \A b \in BlocksIn(bl) : bl2[b] = bl[b]
    <2>1. Stack(setting, bl) /\ ids \cap BlocksIn(bl) = {}
      BY <1>7 DEF Stack, StoreOK
    <2>2. setting.positions \in Nat /\ "draft" \in setting.statuses
      BY Known
    <2>3. ids \in SUBSET Blocks /\ bl2 = Stacked(bl, ids, first)
      BY <1>1, <1>7
    <2>4. /\ \A b \in BlocksIn(bl) : bl[b].position < first
          /\ first \in Nat /\ first + Cardinality(ids) <= setting.positions + 1
      BY <1>5, <1>9
    <2>5. Room(setting, bl, ids, first)
      BY <2>1, <2>2, <2>3, <2>4 DEF Room
    <2>6. OnTop(setting, bl, ids, Stacked(bl, ids, first))
      BY <2>5, StackedIs
    <2>7. OnTop(setting, bl, ids, bl2)
      BY <2>3, <2>6
    <2> QED BY <2>7 DEF OnTop
  <1>11. \A b \in Rows : bl2[b] = bl[b]
    BY <1>1, <1>7 DEF Stacked, Rows
  <1>12. Enters(en, new, of, en2)
    <2>1. en \in [Commits -> EntryRow \cup {NoEntry}] /\ \A e \in new : of[e] \in Blocks
      BY <1>7, <1>8 DEF StoreOK, OneEach
    <2> QED BY <2>1, <1>1, <1>2, <1>4, EnteredIs
  <1>13. Fills(bl, en, bl2, en2)
    BY <1>2, <1>4, <1>7, <1>8, <1>10, <1>11, <1>12, FilledIs
  <1> QED BY <1>13

LEMMA PopulateStackKeeps ==
  ASSUME StackIndInv, NEW p \in Procs, PopulateStack(p)
  PROVE  StackIndInv' /\ MergedStays(block, entry, block', entry')
  <1> PICK cs : cs = call[p].commits
    OBVIOUS
  <1>1. Ends(p, "populate") /\ Populated(block, entry, cs)
    BY DEF PopulateStack
  <1>2. StoreOK(setting, block, entry, gen) /\ UpToDate(entry, gen, branch)
    BY <1>1, SettingIsKnown, WriterFindsCurrent
  <1>3. Populating(call[p], gen, branch)
    BY <1>1, SettingIsKnown, CallIs DEF Ends
  <1>4. cs \subseteq At(gen, branch)
    BY <1>3 DEF Populating
  <1>5. BlocksIn(block) \subseteq Rows /\ Distinct(block) /\ OnePatch(entry)
    BY <1>2, Stored, SettingIsKnown
  <1>6. Fills(block, entry, block', entry')
    BY <1>1, <1>2, <1>4, <1>5, PopulatedIs
  <1>7. Neat(setting) => Tidy(block', entry')
    BY <1>6, SettingIsKnown DEF Fills
  <1>8. MergedStays(block, entry, block', entry')
    BY <1>6 DEF Fills, MergedStays
  <1> QED BY <1>1, <1>6, <1>7, <1>8, EndsKeeps DEF Fills

\* The store of a rebuild before its blocks for new commits: what survived is where it was.
Rebuilt(commits, bl, en) ==
  /\ StoreOK(setting, bl, en, gen) /\ Distinct(bl) /\ OnePatch(en) /\ UpToDate(en, gen, branch)
  /\ Neat(setting) => Tidy(bl, en)
  /\ Calm(setting) => \A b \in Rows : In(en, b) = In(entry, b)
  /\ BlocksIn(bl) \subseteq Rows
  /\ \A e \in Entries : Matched(e, commits) =>
       /\ e \in EntriesIn(en) /\ en[e].block = entry[e].block
       /\ bl[entry[e].block] = block[entry[e].block]

EmptyOf(seen, commits) == {b \in DOMAIN seen : \A e \in seen[b] : ~ Matched(e, commits)}
AllOf(seen) == UNION {seen[b] : b \in DOMAIN seen}
BlocksLeft(empty) == [b \in Blocks |-> IF b \in empty THEN NoBlock ELSE block[b]]
EntriesLeft(all, empty, commits) ==
  [e \in Commits |->
     IF e \notin Entries \/ entry[e].block \in empty \/ (e \in all /\ ~ Matched(e, commits))
     THEN NoEntry
     ELSE IF e \in all
     THEN [entry[e] EXCEPT !.gen = (CHOOSE c \in commits : c[1] = e[1])[2]]
     ELSE entry[e]]

LEMMA RebuiltIs ==
  ASSUME StackIndInv, NEW c, Rebuilding(setting, c, entry, gen, branch),
         NEW empty, empty = EmptyOf(c.seen, c.commits), NEW all, all = AllOf(c.seen),
         NEW bl, bl = BlocksLeft(empty), NEW en, en = EntriesLeft(all, empty, c.commits)
  PROVE  Rebuilt(c.commits, bl, en)
  <1> PICK cs : cs = c.commits
    OBVIOUS
  <1>1. /\ StoreOK(setting, block, entry, gen) /\ Distinct(block) /\ OnePatch(entry)
        /\ (Neat(setting) => Tidy(block, entry))
    BY SettingIsKnown
  <1>2. Entries = EntriesIn(entry) /\ Rows = BlocksIn(block)
    BY <1>1, Stored
  <1>3. /\ cs \subseteq At(gen, branch)
        /\ \A e \in Entries : entry[e].block \in DOMAIN c.seen /\ e \in c.seen[entry[e].block]
        /\ Calm(setting) => \A e \in Entries : Matched(e, cs)
    BY <1>2 DEF Rebuilding
  <1>4. \A e \in Entries : e \in all
    BY <1>3 DEF AllOf
  <1>5. \A e \in Entries : Matched(e, cs) => entry[e].block \notin empty
    BY <1>3 DEF EmptyOf
  <1>6. \A e \in Entries : Matched(e, cs) =>
          /\ en[e] \in EntryRow /\ en[e] # NoEntry /\ en[e].gen = gen /\ e[1] \in branch
          /\ en[e].block = entry[e].block /\ en[e].position = entry[e].position
    <2> TAKE e \in Entries
    <2> HAVE Matched(e, cs)
    <2> PICK x, f : x = entry[e] /\ f = CHOOSE d \in cs : d[1] = e[1]
      OBVIOUS
    <2>1. f \in cs /\ f[1] = e[1]
      BY DEF Matched
    <2>2. f[2] = gen /\ e[1] \in branch /\ gen \in Nat
      BY <2>1, <1>3, Known
    <2>3. x \in EntryRow /\ e \in Commits /\ x.block \in Blocks
      BY <1>1, Stored DEF EntryRow
    <2>4. en[e] = [x EXCEPT !.gen = f[2]]
      BY <1>4, <1>5, <2>3 DEF EntriesLeft
    <2>5. en[e] = [block |-> x.block, position |-> x.position, gen |-> gen] /\ x.position \in Nat
      BY <2>2, <2>3, <2>4 DEF EntryRow
    <2> QED BY <2>2, <2>3, <2>5, ReviewStacksAssumption DEF EntryRow, NoEntry
  <1>7. \A e \in Commits : ~ (e \in Entries /\ Matched(e, cs)) => en[e] = NoEntry
    BY <1>4 DEF EntriesLeft
  <1>8. EntriesIn(en) = {e \in Entries : Matched(e, cs)}
    BY <1>6, <1>7 DEF EntriesIn, Entries
  <1>9. en \in [Commits -> EntryRow \cup {NoEntry}]
    <2>1. \A e \in Commits : en[e] \in EntryRow \cup {NoEntry}
      BY <1>6, <1>7
    <2>2. en = [e \in Commits |-> en[e]]
      BY DEF EntriesLeft
    <2> QED BY <2>1, <2>2
  <1>10. /\ bl \in [Blocks -> BlockRow \cup {NoBlock}]
         /\ BlocksIn(bl) = Rows \ empty /\ \A b \in BlocksIn(bl) : bl[b] = block[b]
    <2>1. block \in [Blocks -> BlockRow \cup {NoBlock}]
      BY <1>1 DEF StoreOK
    <2> QED BY <2>1 DEF BlocksLeft, BlocksIn, Rows
  <1>11. StoreOK(setting, bl, en, gen)
    <2>1. \A b \in BlocksIn(bl) : bl[b].position <= setting.positions /\ bl[b].status \in setting.statuses
      BY <1>1, <1>2, <1>10 DEF StoreOK
    <2>2. ASSUME NEW e \in EntriesIn(en)
          PROVE  en[e].block \in BlocksIn(bl) /\ e[2] <= en[e].gen /\ en[e].gen <= gen
      <3>1. e \in Entries /\ Matched(e, cs) /\ en[e].gen = gen /\ en[e].block = entry[e].block
        BY <1>6, <1>8
      <3>2. entry[e].block \in Rows /\ entry[e].block \notin empty
        BY <3>1, <1>1, <1>5, Stored
      <3>3. e[2] <= entry[e].gen /\ entry[e].gen <= gen
        BY <3>1, <1>1, <1>2 DEF StoreOK
      <3>4. e[2] \in Nat /\ entry[e].gen \in Nat /\ gen \in Nat
        BY <3>1, <1>1, Stored, Known
      <3>5. e[2] <= gen /\ gen <= gen
        BY <3>3, <3>4
      <3> QED BY <3>1, <3>2, <3>5, <1>10
    <2> QED BY <2>1, <2>2, <1>9, <1>10 DEF StoreOK
  <1>12. Distinct(bl)
    BY <1>1, <1>2, <1>10 DEF Distinct
  <1>13. OnePatch(en)
    BY <1>1, <1>2, <1>8 DEF OnePatch
  <1>14. UpToDate(en, gen, branch)
    BY <1>6, <1>8 DEF UpToDate
  <1>15. ASSUME Neat(setting) PROVE Tidy(bl, en)
    <2> SUFFICES ASSUME NEW d \in BlocksIn(bl) PROVE In(en, d) # {} /\ Numbered(en, d)
      BY DEF Tidy
    <2>1. In(entry, d) # {} /\ Numbered(entry, d)
      BY <1>1, <1>2, <1>10, <1>15 DEF Tidy
    <2>2. \A e \in Entries : Matched(e, cs)
      BY <1>3, <1>15 DEF Neat
    <2>3. EntriesIn(en) = EntriesIn(entry)
      BY <2>2, <1>2, <1>8
    <2>4. SameIn(entry, en, d)
      BY <2>2, <2>3, <1>2, <1>6 DEF SameIn, In
    <2> QED BY <2>1, <2>4, SameIsTidy DEF SameIn
  <1>16. \A e \in Entries : Matched(e, cs) =>
           /\ e \in EntriesIn(en) /\ en[e].block = entry[e].block
           /\ bl[entry[e].block] = block[entry[e].block]
    <2> TAKE e \in Entries
    <2> HAVE Matched(e, cs)
    <2>1. entry[e].block \in Rows /\ entry[e].block \notin empty
      BY <1>1, <1>5, Stored
    <2> QED BY <2>1, <1>6, <1>8, <1>10
  <1>17. BlocksIn(bl) \subseteq Rows
    BY <1>10
  <1>18. Calm(setting) => \A b \in Rows : In(en, b) = In(entry, b)
    <2> SUFFICES ASSUME Calm(setting), NEW b \in Rows PROVE In(en, b) = In(entry, b)
      OBVIOUS
    <2>1. \A e \in Entries : Matched(e, cs)
      BY <1>3
    <2> QED BY <2>1, <1>2, <1>6, <1>8 DEF In
  <1> QED BY <1>18, <1>11, <1>12, <1>13, <1>14, <1>15, <1>16, <1>17 DEF Rebuilt

LEMMA WrittenIs ==
  ASSUME StackIndInv, NEW p \in Procs, WriteStack(p)
  PROVE  \E bl, en : /\ Rebuilt(call[p].commits, bl, en)
                     /\ Fills(bl, en, block', entry') \/ (block' = bl /\ entry' = en)
  <1> DEFINE commits == call[p].commits
             seen == call[p].seen
             every == UNION {seen[b] : b \in DOMAIN seen}
             gone == {b \in DOMAIN seen : \A e \in seen[b] : ~ Matched(e, commits)}
             left == [b \in Blocks |-> IF b \in gone THEN NoBlock ELSE block[b]]
             kept == [e \in Commits |->
                        IF e \notin Entries \/ entry[e].block \in gone \/ (e \in every /\ ~ Matched(e, commits))
                        THEN NoEntry
                        ELSE IF e \in every
                        THEN [entry[e] EXCEPT !.gen = (CHOOSE c \in commits : c[1] = e[1])[2]]
                        ELSE entry[e]]
  <1>01. Ends(p, "rebuild") /\ (Populated(left, kept, commits) \/ (block' = left /\ entry' = kept))
    BY Zenon DEF WriteStack
  <1>02. gone = EmptyOf(seen, commits) /\ every = AllOf(seen)
    BY Zenon DEF EmptyOf, AllOf
  <1>03. left = BlocksLeft(gone)
    BY Zenon DEF BlocksLeft
  <1>04. kept = EntriesLeft(every, gone, commits)
    BY Zenon DEF EntriesLeft
  <1> HIDE DEF every, gone, left, kept
  <1> PICK c : c = call[p]
    OBVIOUS
  <1> PICK empty, all : empty = gone /\ all = every
    OBVIOUS
  <1> PICK bl, en : bl = left /\ en = kept
    OBVIOUS
  <1>1. /\ empty = EmptyOf(c.seen, c.commits) /\ all = AllOf(c.seen)
        /\ bl = BlocksLeft(empty) /\ en = EntriesLeft(all, empty, c.commits)
        /\ Ends(p, "rebuild") /\ (Populated(bl, en, c.commits) \/ (block' = bl /\ entry' = en))
    BY <1>01, <1>02, <1>03, <1>04
  <1>2. Rebuilding(setting, c, entry, gen, branch)
    BY <1>1, SettingIsKnown, CallIs DEF Ends
  <1>3. Rebuilt(c.commits, bl, en)
    BY <1>1, <1>2, RebuiltIs
  <1>4. CASE Populated(bl, en, c.commits)
    <2>1. /\ StoreOK(setting, bl, en, gen) /\ Distinct(bl) /\ OnePatch(en) /\ UpToDate(en, gen, branch)
          /\ BlocksIn(bl) \subseteq Rows
      BY <1>3 DEF Rebuilt
    <2>2. c.commits \subseteq At(gen, branch)
      BY <1>2 DEF Rebuilding
    <2>3. Fills(bl, en, block', entry')
      BY <2>1, <2>2, <1>4, PopulatedIs
    <2> QED BY <1>3, <2>3
  <1>5. CASE block' = bl /\ entry' = en
    BY <1>3, <1>5
  <1> QED BY <1>1, <1>4, <1>5

LEMMA WriteStackKeeps ==
  ASSUME StackIndInv, NEW p \in Procs, WriteStack(p)
  PROVE  StackIndInv' /\ MergedStays(block, entry, block', entry')
  <1>1. PICK bl, en : /\ Rebuilt(call[p].commits, bl, en)
                      /\ Fills(bl, en, block', entry') \/ (block' = bl /\ entry' = en)
    BY WrittenIs
  <1>2. Ends(p, "rebuild")
    BY DEF WriteStack
  <1>3. CASE Fills(bl, en, block', entry')
    <2>1. MergedStays(block, entry, block', entry')
      BY <1>1, <1>3 DEF Fills, Rebuilt, MergedStays
    <2> QED BY <2>1, <1>1, <1>2, <1>3, EndsKeeps DEF Fills, Rebuilt
  <1>4. CASE block' = bl /\ entry' = en
    <2>1. /\ StoreOK(setting, block', entry', gen) /\ Distinct(block') /\ OnePatch(entry')
          /\ UpToDate(entry', gen, branch) /\ (Neat(setting) => Tidy(block', entry'))
      BY <1>1, <1>4 DEF Rebuilt
    <2>2. MergedStays(block, entry, block', entry')
      BY <1>1, <1>4 DEF Rebuilt, MergedStays
    <2> QED BY <2>1, <2>2, <1>2, EndsKeeps
  <1> QED BY <1>1, <1>3, <1>4

-----------------------------------------------------------------------------
(* The theorems *)

LEMMA StackIndInvInit ==
  ASSUME Init
  PROVE  StackIndInv
  <1>1. /\ setting \in Settings /\ branch = {} /\ gen = 0
        /\ block = [b \in Blocks |-> NoBlock] /\ entry = [e \in Commits |-> NoEntry]
        /\ call = [p \in Procs |-> NoCall]
    BY DEF Init
  <1>2. setting \in Setting
    BY <1>1, ReviewStacksAssumption
  <1>3. setting.rebases \in 0 .. MaxGen
    BY <1>2 DEF Setting
  <1>4. Types
    BY <1>1, <1>3, ReviewStacksAssumption DEF Types
  <1>5. BlocksIn(block) = {} /\ EntriesIn(entry) = {}
    BY <1>1 DEF BlocksIn, EntriesIn
  <1>6. StoreOK(setting, block, entry, gen) /\ Distinct(block) /\ OnePatch(entry)
    BY <1>1, <1>5 DEF StoreOK, Distinct, OnePatch
  <1>7. UpToDate(entry, gen, branch) /\ Tidy(block, entry)
    BY <1>5 DEF UpToDate, Tidy
  <1>8. \A p \in Procs : call[p] = NoCall
    BY <1>1
  <1>9. OneBuilder /\ OneCall
    BY <1>8 DEF OneBuilder, OneCall, Builds, NoCall
  <1>10. \A p \in Procs : CallOK(setting, call[p], block, entry, gen, branch)
    BY <1>8 DEF CallOK
  <1> QED BY <1>4, <1>6, <1>7, <1>9, <1>10 DEF StackIndInv

LEMMA EntriesKept ==
  ASSUME entry' = entry
  PROVE  MergedStays(block, entry, block', entry')
  BY DEF MergedStays

LEMMA CallKeeps ==
  ASSUME StackIndInv, NEW p \in Procs, Call(p)
  PROVE  StackIndInv' /\ call[p] = NoCall /\ entry' = entry
         /\ \A q \in Procs : q # p => call'[q] = call[q]
  <1>0. \A c : Begin(p, c) => entry' = entry /\ \A q \in Procs : q # p => call'[q] = call[q]
    BY DEF Begin, StackIndInv, Types
  <1>1. CASE RebaseOntoStream(p)
    <2>1. entry' = entry /\ \A q \in Procs : q # p => call'[q] = call[q]
      BY <1>1 DEF RebaseOntoStream, StackIndInv, Types
    <2> QED BY <2>1, <1>1, RebaseOntoStreamKeeps DEF RebaseOntoStream, Free
  <1>2. CASE RebuildStack(p)
    BY <1>0, <1>2, RebuildStackKeeps DEF RebuildStack, Free
  <1>3. CASE AutoPopulateStack(p)
    BY <1>0, <1>3, AutoPopulateStackKeeps DEF AutoPopulateStack, Free
  <1>4. CASE \E cs \in SUBSET Untracked : CreateReviewBlock(p, cs)
    BY <1>0, <1>4, CreateReviewBlockKeeps DEF CreateReviewBlock, Free
  <1>5. CASE \E bs \in (SUBSET Rows) \ {{}} :
               \E twice \in IF setting.repeats THEN SUBSET bs ELSE {{}} : MergeReviewBlocks(p, bs, twice)
    <2>1. PICK bs \in (SUBSET Rows) \ {{}} :
                 \E twice \in IF setting.repeats THEN SUBSET bs ELSE {{}} : MergeReviewBlocks(p, bs, twice)
      BY <1>5
    <2>2. PICK twice \in IF setting.repeats THEN SUBSET bs ELSE {{}} : MergeReviewBlocks(p, bs, twice)
      BY <2>1
    <2>3. Free(p) /\ \E c : Begin(p, c)
      BY <2>2 DEF MergeReviewBlocks
    <2>4. twice \in SUBSET bs /\ (~ setting.repeats => twice = {})
      BY <2>2
    <2>5. StackIndInv'
      BY <2>1, <2>2, <2>4, MergeReviewBlocksKeeps
    <2> QED BY <1>0, <2>3, <2>5 DEF Free
  <1>6. ASSUME NEW b \in Rows, NEW st \in setting.statuses, SetReviewStatus(p, b, st)
        PROVE  StackIndInv' /\ call[p] = NoCall /\ entry' = entry
               /\ \A q \in Procs : q # p => call'[q] = call[q]
    BY <1>0, <1>6, SetReviewStatusKeeps DEF SetReviewStatus
  <1>7. ASSUME NEW b \in Rows, NEW cs \in SUBSET Untracked, AddCommitsToBlock(p, b, cs)
        PROVE  StackIndInv' /\ call[p] = NoCall /\ entry' = entry
               /\ \A q \in Procs : q # p => call'[q] = call[q]
    BY <1>0, <1>7, AddCommitsToBlockKeeps DEF AddCommitsToBlock, Free
  <1>8. ASSUME NEW b \in Rows, NEW es \in SUBSET Of(b), RemoveCommitsFromBlock(p, b, es)
        PROVE  StackIndInv' /\ call[p] = NoCall /\ entry' = entry
               /\ \A q \in Procs : q # p => call'[q] = call[q]
    BY <1>0, <1>8, RemoveCommitsFromBlockKeeps DEF RemoveCommitsFromBlock, Free
  <1>9. ASSUME NEW b \in Rows, NEW k \in 0 .. Cardinality(Of(b)), SplitReviewBlock(p, b, k)
        PROVE  StackIndInv' /\ call[p] = NoCall /\ entry' = entry
               /\ \A q \in Procs : q # p => call'[q] = call[q]
    BY <1>0, <1>9, SplitReviewBlockKeeps DEF SplitReviewBlock, Free
  <1> QED BY <1>1, <1>2, <1>3, <1>4, <1>5, <1>6, <1>7, <1>8, <1>9 DEF Call

LEMMA TransactionKeeps ==
  ASSUME StackIndInv, NEW p \in Procs, Transaction(p)
  PROVE  /\ StackIndInv' /\ MergedStays(block, entry, block', entry')
         /\ \A q \in Procs : q # p => call'[q] = call[q]
         /\ Divides(call[p]) => SameCommits(entry, entry')
  <1>0. \A op : Ends(p, op) => call[p].op = op /\ \A q \in Procs : q # p => call'[q] = call[q]
    BY DEF Ends, StackIndInv, Types
  <1>1. CASE InsertBlock(p)
    <2>1. Ends(p, "create")
      BY <1>1 DEF InsertBlock
    <2>2. StackIndInv' /\ MergedStays(block, entry, block', entry')
      BY <1>1, InsertBlockKeeps
    <2> QED BY <1>0, <1>1, <2>1, <2>2 DEF Divides
  <1>2. CASE WriteStatus(p)
    <2>1. entry' = entry
      BY <1>2 DEF WriteStatus
    <2>2. call[p].op = "status" /\ \A q \in Procs : q # p => call'[q] = call[q]
      BY <1>0, <1>2 DEF WriteStatus
    <2> QED BY <1>2, <2>1, <2>2, WriteStatusKeeps, EntriesKept DEF Divides
  <1>3. CASE InsertCommits(p)
    <2>1. Ends(p, "add")
      BY <1>3 DEF InsertCommits
    <2>2. StackIndInv' /\ MergedStays(block, entry, block', entry')
      BY <1>3, InsertCommitsKeeps
    <2> QED BY <1>0, <1>3, <2>1, <2>2 DEF Divides
  <1>4. CASE DeleteCommits(p)
    <2>1. Ends(p, "remove")
      BY <1>4 DEF DeleteCommits
    <2>2. StackIndInv' /\ MergedStays(block, entry, block', entry')
      BY <1>4, DeleteCommitsKeeps
    <2> QED BY <1>0, <1>4, <2>1, <2>2 DEF Divides
  <1>5. CASE InsertHalf(p)
    <2>1. Ends(p, "split")
      BY <1>5 DEF InsertHalf
    <2>2. StackIndInv' /\ MergedStays(block, entry, block', entry')
      BY <1>5, InsertHalfKeeps
    <2> QED BY <1>0, <1>5, <2>1, <2>2, InsertHalfKeeps DEF Divides
  <1>6. CASE JoinBlocks(p)
    <2>1. Ends(p, "merge")
      BY <1>6 DEF JoinBlocks
    <2>2. StackIndInv' /\ MergedStays(block, entry, block', entry')
      BY <1>6, JoinBlocksKeeps
    <2> QED BY <1>0, <1>6, <2>1, <2>2, JoinBlocksKeeps DEF Divides
  <1>7. CASE WriteStack(p)
    <2>1. Ends(p, "rebuild")
      BY <1>7 DEF WriteStack
    <2>2. StackIndInv' /\ MergedStays(block, entry, block', entry')
      BY <1>7, WriteStackKeeps
    <2> QED BY <1>0, <1>7, <2>1, <2>2 DEF Divides
  <1>8. CASE PopulateStack(p)
    <2>1. Ends(p, "populate")
      BY <1>8 DEF PopulateStack
    <2>2. StackIndInv' /\ MergedStays(block, entry, block', entry')
      BY <1>8, PopulateStackKeeps
    <2> QED BY <1>0, <1>8, <2>1, <2>2 DEF Divides
  <1> QED BY <1>1, <1>2, <1>3, <1>4, <1>5, <1>6, <1>7, <1>8 DEF Transaction

\* A step of the process p, or one that leaves the calls and the merged blocks.
LEMMA NextIs ==
  ASSUME StackIndInv, Next
  PROVE  \/ \E p \in Procs : Call(p) \/ Transaction(p)
         \/ /\ StackIndInv' /\ MergedStays(block, entry, block', entry') /\ call' = call
  <1>1. setting.procs \subseteq Procs
    BY Known DEF Setting
  <1>2. CASE \E p \in setting.procs : Call(p) \/ Transaction(p)
    BY <1>1, <1>2
  <1>3. CASE \E q \in setting.patches : Commit(q)
    <2>1. entry' = entry /\ call' = call
      BY <1>3 DEF Commit
    <2> QED BY <2>1, <1>3, CommitKeeps, EntriesKept
  <1>4. ASSUME NEW b \in Blocks, DeleteReviewBlock(b)
        PROVE  StackIndInv' /\ MergedStays(block, entry, block', entry') /\ call' = call
    <2>1. /\ call' = call /\ block' = [c \in Blocks |-> IF c \in {b} THEN NoBlock ELSE block[c]]
          /\ entry' = [e \in Commits |-> IF entry[e].block \in {b} THEN NoEntry ELSE entry[e]]
      BY <1>4 DEF DeleteReviewBlock, Without
    <2>2. \A d \in Rows : block'[d] # NoBlock => In(entry', d) = In(entry, d)
      <3> TAKE d \in Rows
      <3> HAVE block'[d] # NoBlock
      <3>1. d # b
        BY <2>1 DEF Rows
      <3>2. \A e \in Commits : entry'[e] # NoEntry /\ entry'[e].block = d <=> entry[e] # NoEntry /\ entry[e].block = d
        <4> TAKE e \in Commits
        <4>1. entry'[e] = IF entry[e].block = b THEN NoEntry ELSE entry[e]
          BY <2>1
        <4> QED BY <3>1, <4>1
      <3> QED BY <3>2 DEF In, EntriesIn
    <2>3. MergedStays(block, entry, block', entry')
      BY <2>2 DEF MergedStays
    <2> QED BY <2>1, <2>3, <1>4, DeleteReviewBlockKeeps
  <1> QED BY <1>2, <1>3, <1>4 DEF Next

LEMMA StackIndInvStep ==
  ASSUME StackIndInv, [Next]_vars
  PROVE  StackIndInv' /\ MergedStays(block, entry, block', entry')
  <1>1. CASE Next
    BY <1>1, NextIs, CallKeeps, TransactionKeeps, EntriesKept
  <1>2. CASE UNCHANGED vars
    <2>1. UNCHANGED <<setting, branch, gen, block, entry, call>>
      BY <1>2 DEF vars
    <2>2. StackIndInv'
      BY <2>1 DEF StackIndInv, Types, OneBuilder, OneCall, Builds
    <2> QED BY <2>1, <2>2, EntriesKept
  <1> QED BY <1>1, <1>2

\* A call that was running and is not as it was has written.
LEMMA CallEnded ==
  ASSUME StackIndInv, [Next]_vars, NEW p \in Procs, call'[p] # call[p], call[p] # NoCall
  PROVE  Transaction(p)
  <1>1. Next
    BY DEF vars
  <1>2. \A q \in Procs : Call(q) => call[q] = NoCall /\ (q # p => call'[p] = call[p])
    BY CallKeeps
  <1>3. \A q \in Procs : Transaction(q) => (q # p => call'[p] = call[p])
    BY TransactionKeeps
  <1> QED BY <1>1, <1>2, <1>3, NextIs

\* The stack holds in every reachable state what its calls rely on.
THEOREM StackIsIndInvariant == Spec => []StackIndInv
  <1>1. Init => StackIndInv
    BY StackIndInvInit
  <1>2. StackIndInv /\ [Next]_vars => StackIndInv'
    BY StackIndInvStep
  <1> QED BY <1>1, <1>2, PTL DEF Spec

LEMMA StackInvIsKept ==
  ASSUME StackIndInv
  PROVE  StackInv
  <1>1. StoreOK(setting, block, entry, gen) /\ Distinct(block) /\ OnePatch(entry)
        /\ (Neat(setting) => Tidy(block, entry))
    BY SettingIsKnown
  <1>2. Rows = BlocksIn(block) /\ Entries = EntriesIn(entry) /\ \A b : Of(b) = In(entry, b)
    BY <1>1, Stored
  <1>3. TypeOK
    <2>1. branch \subseteq setting.patches /\ gen \in 0 .. setting.rebases
      BY DEF StackIndInv, Types
    <2>2. block \in [Blocks -> [position : 0 .. setting.positions, status : setting.statuses] \cup {NoBlock}]
      <3>1. block \in [Blocks -> BlockRow \cup {NoBlock}]
        BY <1>1 DEF StoreOK
      <3>2. ASSUME NEW b \in Rows
            PROVE  block[b] \in [position : 0 .. setting.positions, status : setting.statuses]
        <4> PICK x : x = block[b]
          OBVIOUS
        <4>1. x \in BlockRow /\ x.position <= setting.positions /\ x.status \in setting.statuses
          BY <1>1, <1>2, Stored DEF StoreOK
        <4>2. x.position \in 0 .. setting.positions /\ x = [position |-> x.position, status |-> x.status]
          BY <4>1, Known DEF BlockRow
        <4> QED BY <4>1, <4>2
      <3>3. \A b \in Blocks : b \notin Rows => block[b] = NoBlock
        BY DEF Rows
      <3> QED BY <3>1, <3>2, <3>3
    <2>3. ASSUME NEW e \in Entries
          PROVE  entry[e].block \in Rows /\ entry[e].gen \in e[2] .. gen /\ entry[e].position \in Nat
      <3>1. entry[e].block \in Rows /\ entry[e].position \in Nat /\ entry[e].gen \in Nat /\ e[2] \in Nat
        BY <1>1, Stored
      <3>2. e[2] <= entry[e].gen /\ entry[e].gen <= gen /\ gen \in Nat
        BY <1>1, <1>2, Known DEF StoreOK
      <3> QED BY <3>1, <3>2
    <2> QED BY <2>1, <2>2, <2>3 DEF TypeOK
  <1>4. BlocksDistinct
    BY <1>1, <1>2 DEF BlocksDistinct, Distinct
  <1>5. NoEmptyBlock
    BY <1>1, <1>2 DEF NoEmptyBlock, Tidy, Calm, Neat
  <1>6. PlacesDistinct
    <2> SUFFICES ASSUME Neat(setting), NEW e \in Entries, NEW f \in Entries,
                        entry[e].block = entry[f].block, entry[e].position = entry[f].position
                 PROVE  e = f
      BY DEF PlacesDistinct, Calm, Neat
    <2> PICK b : b = entry[e].block
      OBVIOUS
    <2>1. b \in BlocksIn(block) /\ e \in In(entry, b) /\ f \in In(entry, b)
      BY <1>1, <1>2, Stored DEF In
    <2>2. Apart(In(entry, b), Places(entry))
      BY <2>1, <1>1 DEF Tidy, Numbered
    <2>3. Places(entry)[e] = Places(entry)[f]
      BY DEF Places, Entries
    <2> QED BY <2>1, <2>2, <2>3 DEF Apart
  <1> QED BY <1>3, <1>4, <1>5, <1>6 DEF StackInv

\* StackInv holds: the blocks of a stack and the entries of a block are each in an order,
\* whatever calls overlap, and a block is there as long as it has commits.
THEOREM BlocksAreAStack == Spec => []StackInv
  <1>1. StackIndInv => StackInv
    BY StackInvIsKept
  <1> QED BY <1>1, StackIsIndInvariant, PTL

LEMMA EntryInvIsKept ==
  ASSUME StackIndInv
  PROVE  EntryInv
  <1>1. Entries = EntriesIn(entry)
    BY DEF Entries, EntriesIn
  <1>2. EntriesCurrent
    <2> SUFFICES ASSUME Quiet, NEW e \in Entries PROVE Hash(e) \in Current
      BY DEF EntriesCurrent, Tracked
    <2>1. \A p \in Procs : call[p].op # "rebuild"
      BY DEF Quiet, NoCall
    <2>2. UpToDate(entry, gen, branch)
      BY <2>1 DEF StackIndInv
    <2> QED BY <1>1, <2>2 DEF UpToDate, Hash, Current
  <1>3. TrackedOnce
    <2> SUFFICES ASSUME NEW e \in Entries, NEW f \in Entries, Hash(e) = Hash(f) PROVE e = f
      BY DEF TrackedOnce
    <2>1. e[1] = f[1]
      BY DEF Hash
    <2> QED BY <2>1, <1>1, SettingIsKnown DEF OnePatch
  <1> QED BY <1>2, <1>3 DEF EntryInv

\* EntryInv holds: outside of calls every entry shows a commit the stream has, and a commit
\* is in one block, once.
THEOREM EntriesAreOfTheStream == Spec => []EntryInv
  <1>1. StackIndInv => EntryInv
    BY EntryInvIsKept
  <1> QED BY <1>1, StackIsIndInvariant, PTL

\* BlocksKept holds: a split, or a merge whose list does not name its first block again, keeps
\* the commits that are tracked; and a merged block keeps its entries as long as the one
\* process that builds does not race a review.
THEOREM MergedBlocksAreKept == Spec => BlocksKept
  <1>1. ASSUME StackIndInv, [Next]_vars
        PROVE  /\ \A p \in Procs : Divides(call[p]) /\ call'[p] # call[p] => Tracked' = Tracked
               /\ ~ setting.drops /\ ~ setting.reviewed => MergedUnchanged
    <2>1. ASSUME NEW p \in Procs, Divides(call[p]), call'[p] # call[p]
          PROVE  Tracked' = Tracked
      <3>1. call[p] # NoCall
        BY <2>1 DEF NoCall, Divides
      <3>2. SameCommits(entry, entry')
        BY <1>1, <2>1, <3>1, CallEnded, TransactionKeeps
      <3>3. Entries' = Entries /\ \A e \in Entries : entry'[e].gen = entry[e].gen
        BY <3>2 DEF SameCommits, EntriesIn, Entries
      <3>4. \A e \in Entries : Hash(e)' = Hash(e)
        BY <3>3 DEF Hash
      <3> QED BY <3>3, <3>4 DEF Tracked, Hash
    <2>2. MergedStays(block, entry, block', entry')
      BY <1>1, StackIndInvStep
    <2>3. \A b : Of(b) = In(entry, b)
      BY DEF Of, Entries, In, EntriesIn
    <2>4. \A b : {e \in Commits : entry'[e] # NoEntry /\ entry'[e].block = b} = In(entry', b)
      BY DEF In, EntriesIn
    <2> QED BY <2>1, <2>2, <2>3, <2>4 DEF MergedStays, Calm, MergedUnchanged
  <1>2. StackIndInv /\ [Next]_vars =>
          /\ [\A p \in Procs : Divides(call[p]) /\ call'[p] # call[p] => Tracked' = Tracked]_vars
          /\ [~ setting.drops /\ ~ setting.reviewed => MergedUnchanged]_vars
    BY <1>1
  <1> QED BY <1>2, StackIsIndInvariant, PTL DEF Spec, BlocksKept, ContentKept, MergedKept

\* SurvivorsKept holds: what survives a rebase stays in its block, and the block as it was.
THEOREM SurvivorsAreKept == Spec => SurvivorsKept
  <1>1. ASSUME StackIndInv, [Next]_vars, NEW p \in Procs, call[p].op = "rebuild", call'[p] # call[p],
               NEW e \in Entries, e[1] \in {c[1] : c \in call[p].commits}
        PROVE  entry'[e].block = entry[e].block /\ block'[entry[e].block] = block[entry[e].block]
    <2>1. call[p] # NoCall
      BY <1>1 DEF NoCall
    <2>2. Transaction(p)
      BY <1>1, <2>1, CallEnded
    <2>3. WriteStack(p)
      BY <1>1, <2>2 DEF Transaction, InsertBlock, WriteStatus, InsertCommits, DeleteCommits, InsertHalf,
                        JoinBlocks, PopulateStack, Ends
    <2>4. PICK bl, en : /\ Rebuilt(call[p].commits, bl, en)
                        /\ Fills(bl, en, block', entry') \/ (block' = bl /\ entry' = en)
      BY <1>1, <2>3, WrittenIs
    <2>5. Matched(e, call[p].commits)
      BY <1>1 DEF Matched
    <2>6. /\ e \in EntriesIn(en) /\ en[e].block = entry[e].block
          /\ bl[entry[e].block] = block[entry[e].block]
      BY <1>1, <2>4, <2>5 DEF Rebuilt
    <2>7. entry[e].block \in Rows
      BY <1>1, SettingIsKnown, Stored
    <2>8. CASE Fills(bl, en, block', entry')
      BY <2>6, <2>7, <2>8 DEF Fills
    <2>9. CASE block' = bl /\ entry' = en
      BY <2>6, <2>9
    <2> QED BY <2>4, <2>8, <2>9
  <1>2. StackIndInv /\ [Next]_vars =>
          [\A p \in Procs : call[p].op = "rebuild" /\ call'[p] # call[p] =>
             \A e \in Entries : e[1] \in {c[1] : c \in call[p].commits} =>
               /\ entry'[e].block = entry[e].block
               /\ block'[entry[e].block] = block[entry[e].block]]_vars
    BY <1>1
  <1> QED BY <1>2, StackIsIndInvariant, PTL DEF Spec, SurvivorsKept

=============================================================================
