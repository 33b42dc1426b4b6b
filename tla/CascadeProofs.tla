---------------------------- MODULE CascadeProofs ----------------------------
(***************************************************************************)
(* Proofs about Cascade, for any streams, any graph and any number of      *)
(* processes.  First the helpers: what topologicalSort returns, by         *)
(* induction over its rounds.  Then the graph: its types, what a call      *)
(* knows at each step of its search (GraphKnown), and from that that calls *)
(* which do not overlap implement DependencyGraph, are refused just when   *)
(* they must be, and return.  Last the walk: what each stream of a cascade *)
(* leaves for the next one (WalkKnown), and from that that the result is   *)
(* true and that success means that the streams are up to date.            *)
(***************************************************************************)
EXTENDS Cascade, FiniteSetTheorems, SequenceTheorems, WellFoundedInduction, TLAPS

-----------------------------------------------------------------------------
(* Induction.  The theorems of the library that take an operator cannot be  *)
(* used, so an induction over n looks at the least n for which the claim    *)
(* fails: sets of naturals have a least element, because finite sets are    *)
(* well-founded under inclusion.                                            *)

LEMMA LeastOf ==
  ASSUME NEW T \in SUBSET Nat, T # {}
  PROVE  \E x \in T : \A y \in T : x <= y
  <1> DEFINE I == {1 .. n : n \in T}
  <1>1. I \subseteq FiniteSubsetsOf(Nat) /\ I # {}
    <2>1. \A n \in T : 1 .. n \in SUBSET Nat /\ IsFiniteSet(1 .. n)
      BY FS_Interval
    <2>2. \A n \in T : 1 .. n \in FiniteSubsetsOf(Nat)
      BY <2>1 DEF FiniteSubsetsOf
    <2> QED BY <2>2
  <1>2. PICK C \in I : \A D \in I : ~ (<<D, C>> \in StrictSubsetOrdering(Nat))
    <2> HIDE DEF I
    <2> QED BY <1>1, FS_StrictSubsetOrderingWellFounded, WFMin
  <1>3. PICK x \in T : C = 1 .. x
    OBVIOUS
  <1>4. ASSUME NEW y \in T, y < x PROVE FALSE
    <2> DEFINE D == 1 .. y  E == 1 .. x
    <2>1. D \in I /\ C = E
      BY <1>3
    <2>2. D \subseteq E /\ x \in E /\ x \notin D
      BY <1>4
    <2>3. D \in SUBSET Nat /\ E \in SUBSET Nat
      OBVIOUS
    <2> HIDE DEF D, E, I
    <2>4. <<D, E>> \in StrictSubsetOrdering(Nat)
      BY <2>2, <2>3 DEF StrictSubsetOrdering
    <2> QED BY <2>1, <2>4, <1>2
  <1> QED BY <1>4

\* What is false of some natural number and true of 0 becomes false in one step.
LEMMA LeastFailure ==
  ASSUME NEW G \in SUBSET Nat, 0 \in G, G # Nat
  PROVE  \E n \in Nat : n \in G /\ n + 1 \notin G
  <1> DEFINE T == Nat \ G
  <1>1. T \in SUBSET Nat /\ T # {}
    OBVIOUS
  <1> HIDE DEF T
  <1>2. PICK x \in T : \A y \in T : x <= y
    BY <1>1, LeastOf
  <1>3. x \in Nat /\ x \notin G /\ x # 0
    BY <1>2 DEF T
  <1>4. x - 1 \in Nat /\ x - 1 \notin T
    BY <1>2, <1>3
  <1>5. (x - 1) + 1 = x
    BY <1>3
  <1> QED BY <1>3, <1>4, <1>5 DEF T

LEMMA MinIs ==
  ASSUME NEW T \in SUBSET Nat, T # {}
  PROVE  Min(T) \in T /\ \A y \in T : Min(T) <= y
  BY LeastOf DEF Min

-----------------------------------------------------------------------------
(* Lists *)

LEMMA ToSetIs ==
  ASSUME NEW S, NEW list \in Seq(S)
  PROVE  /\ ToSet(list) \subseteq S
         /\ DOMAIN list = 1 .. Len(list)
         /\ \A x : x \in ToSet(list) <=> \E i \in 1 .. Len(list) : list[i] = x
  BY DEF ToSet

LEMMA SelectIs ==
  ASSUME NEW S, NEW list \in Seq(S), NEW e, \E i \in 1 .. Len(list) : list[i] = e
  PROVE  LET k == SelectInSeq(list, LAMBDA v : v = e) IN k \in 1 .. Len(list) /\ list[k] = e
  <1> DEFINE I == {i \in 1 .. Len(list) : list[i] = e}
  <1>1. I \in SUBSET Nat /\ I # {}
    OBVIOUS
  <1>2. SelectInSeq(list, LAMBDA v : v = e) = Min(I)
    BY <1>1 DEF SelectInSeq
  <1>3. Min(I) \in I
    <2> HIDE DEF I
    <2> QED BY <1>1, MinIs
  <1> QED BY <1>2, <1>3

\* RemoveFirst takes one entry e out; the others stay.
LEMMA RemoveFirstIs ==
  ASSUME NEW S, NEW list \in Seq(S), NEW e \in ToSet(list)
  PROVE  /\ RemoveFirst(list, e) \in Seq(S)
         /\ ToSet(RemoveFirst(list, e)) \subseteq ToSet(list)
         /\ ToSet(list) \subseteq ToSet(RemoveFirst(list, e)) \cup {e}
  <1>1. \E i \in 1 .. Len(list) : list[i] = e
    BY DEF ToSet
  <1> DEFINE k == SelectInSeq(list, LAMBDA v : v = e)
  <1>2. k \in 1 .. Len(list) /\ list[k] = e
    BY <1>1, SelectIs
  <1>3. RemoveFirst(list, e) = SubSeq(list, 1, k - 1) \o SubSeq(list, k + 1, Len(list))
    BY <1>1 DEF RemoveFirst, RemoveAt
  <1> HIDE DEF k
  <1> DEFINE r == RemoveFirst(list, e)
  <1> DEFINE front == SubSeq(list, 1, k - 1)  back == SubSeq(list, k + 1, Len(list))
  <1>4. front \in Seq(S) /\ Len(front) = k - 1 /\ \A i \in 1 .. k - 1 : front[i] = list[i]
    BY <1>2
  <1>5. back \in Seq(S) /\ Len(back) = Len(list) - k /\ \A i \in 1 .. Len(list) - k : back[i] = list[k + i]
    BY <1>2
  <1>6. r = front \o back
    BY <1>3
  <1> HIDE DEF r, front, back
  <1>7. r \in Seq(S) /\ Len(r) = Len(list) - 1
    BY <1>2, <1>4, <1>5, <1>6
  <1>8. \A i \in 1 .. Len(r) : r[i] = IF i < k THEN list[i] ELSE list[i + 1]
    <2> TAKE i \in 1 .. Len(r)
    <2>1. r[i] = IF i <= k - 1 THEN front[i] ELSE back[i - (k - 1)]
      BY <1>2, <1>4, <1>5, <1>6, <1>7
    <2>2. CASE i < k
      BY <2>1, <2>2, <1>2, <1>4
    <2>3. CASE i >= k
      <3>1. i - (k - 1) \in 1 .. Len(list) - k /\ k + (i - (k - 1)) = i + 1
        BY <2>3, <1>2, <1>7
      <3> QED BY <2>1, <2>3, <3>1, <1>2, <1>5
    <2> QED BY <2>2, <2>3, <1>2, <1>7
  <1>9. ToSet(r) \subseteq ToSet(list)
    <2> SUFFICES ASSUME NEW x \in ToSet(r) PROVE x \in ToSet(list)
      OBVIOUS
    <2>1. PICK i \in 1 .. Len(r) : r[i] = x
      BY <1>7, ToSetIs
    <2>2. \E j \in 1 .. Len(list) : list[j] = x
      BY <2>1, <1>2, <1>7, <1>8
    <2> QED BY <2>2, ToSetIs
  <1>10. ASSUME NEW x \in ToSet(list), x # e PROVE x \in ToSet(r)
    <2>1. PICK i \in 1 .. Len(list) : list[i] = x
      BY ToSetIs
    <2>2. CASE i < k
      <3>1. i \in 1 .. Len(r) /\ r[i] = x
        BY <1>2, <1>7, <1>8, <2>1, <2>2
      <3> QED BY <3>1, <1>7, ToSetIs
    <2>3. CASE i > k
      <3>1. i - 1 \in 1 .. Len(r) /\ r[i - 1] = x
        BY <1>2, <1>7, <1>8, <2>1, <2>3
      <3> QED BY <3>1, <1>7, ToSetIs
    <2> QED BY <2>1, <2>2, <2>3, <1>2, <1>10
  <1> QED BY <1>7, <1>9, <1>10 DEF r

\* The rounds of Among
AmongRounds(f, list, S, m) ==
  f = [n \in 0 .. m |->
        IF n = 0 THEN <<>>
        ELSE IF list[n] \in S THEN Append(f[n - 1], list[n]) ELSE f[n - 1]]

LEMMA AmongExists ==
  ASSUME NEW list, NEW S, NEW m \in Nat
  PROVE  \E f : AmongRounds(f, list, S, m)
  <1> DEFINE G == {n \in Nat : \E f : AmongRounds(f, list, S, n)}
  <1>1. 0 \in G
    <2> DEFINE f == [n \in 0 .. 0 |-> <<>>]
    <2>1. f = [n \in 0 .. 0 |-> IF n = 0 THEN <<>> ELSE IF list[n] \in S THEN Append(f[n - 1], list[n]) ELSE f[n - 1]]
      OBVIOUS
    <2> HIDE DEF f
    <2> QED BY <2>1 DEF AmongRounds
  <1>2. ASSUME NEW l \in Nat, l \in G PROVE l + 1 \in G
    <2>1. PICK f : AmongRounds(f, list, S, l)
      BY <1>2
    <2> DEFINE g == [n \in 0 .. l + 1 |->
                       IF n = l + 1 THEN IF list[n] \in S THEN Append(f[l], list[n]) ELSE f[l] ELSE f[n]]
    <2>2. \A n \in 0 .. l : f[n] = IF n = 0 THEN <<>>
                                   ELSE IF list[n] \in S THEN Append(f[n - 1], list[n]) ELSE f[n - 1]
      BY <2>1 DEF AmongRounds
    <2>3. \A n \in 0 .. l : g[n] = f[n]
      OBVIOUS
    <2>4. \A n \in 0 .. l + 1 : g[n] = IF n = 0 THEN <<>>
                                       ELSE IF list[n] \in S THEN Append(g[n - 1], list[n]) ELSE g[n - 1]
      <3> TAKE n \in 0 .. l + 1
      <3>1. CASE n = l + 1
        BY <3>1, <2>3
      <3>2. CASE n # l + 1
        BY <3>2, <2>2, <2>3
      <3> QED BY <3>1, <3>2
    <2>5. AmongRounds(g, list, S, l + 1)
      BY <2>4 DEF AmongRounds
    <2> QED BY <2>5
  <1> HIDE DEF G
  <1>3. G = Nat
    BY <1>1, <1>2, LeastFailure DEF G
  <1> QED BY <1>3 DEF G

\* q holds what of the first n entries is in S.
AmongFirst(q, list, S, n) ==
  /\ \A i \in 1 .. Len(q) : \E j \in 1 .. n : q[i] = list[j] /\ list[j] \in S
  /\ \A j \in 1 .. n : list[j] \in S => \E i \in 1 .. Len(q) : q[i] = list[j]
  /\ IsInjective(list) => \A i, k \in 1 .. Len(q) : q[i] = q[k] => i = k

LEMMA AmongNext ==
  ASSUME NEW T, NEW list \in Seq(T), NEW S, NEW l \in Nat, l + 1 <= Len(list),
         NEW q \in Seq(T), AmongFirst(q, list, S, l),
         NEW b, b = IF list[l + 1] \in S THEN Append(q, list[l + 1]) ELSE q
  PROVE  b \in Seq(T) /\ AmongFirst(b, list, S, l + 1)
  <1>1. \A i \in 1 .. Len(q) : \E j \in 1 .. l : q[i] = list[j] /\ list[j] \in S
    BY DEF AmongFirst
  <1>2. \A j \in 1 .. l : list[j] \in S => \E i \in 1 .. Len(q) : q[i] = list[j]
    BY DEF AmongFirst
  <1>3. IsInjective(list) => \A i, k \in 1 .. Len(q) : q[i] = q[k] => i = k
    BY DEF AmongFirst
  <1>4. CASE list[l + 1] \notin S
    <2>1. b = q
      BY <1>4
    <2>2. \A i \in 1 .. Len(b) : \E j \in 1 .. l + 1 : b[i] = list[j] /\ list[j] \in S
      BY <2>1, <1>1
    <2>3. \A j \in 1 .. l + 1 : list[j] \in S => \E i \in 1 .. Len(b) : b[i] = list[j]
      BY <2>1, <1>2, <1>4
    <2> QED BY <2>1, <2>2, <2>3, <1>3 DEF AmongFirst
  <1>5. CASE list[l + 1] \in S
    <2>1. PICK e \in T : e = list[l + 1]
      OBVIOUS
    <2>2. b = Append(q, e) /\ e \in S
      BY <1>5, <2>1
    <2>3. b \in Seq(T) /\ Len(b) = Len(q) + 1 /\ b[Len(b)] = e /\ \A i \in 1 .. Len(q) : b[i] = q[i]
      BY <2>2
    <2>4. \A i \in 1 .. Len(b) : \E j \in 1 .. l + 1 : b[i] = list[j] /\ list[j] \in S
      BY <1>1, <2>1, <2>2, <2>3
    <2>5. \A j \in 1 .. l + 1 : list[j] \in S => \E i \in 1 .. Len(b) : b[i] = list[j]
      <3> TAKE j \in 1 .. l + 1
      <3> HAVE list[j] \in S
      <3>1. CASE j = l + 1
        BY <3>1, <2>1, <2>3
      <3>2. CASE j # l + 1
        <4>1. PICK i \in 1 .. Len(q) : q[i] = list[j]
          BY <3>2, <1>2
        <4> QED BY <4>1, <2>3
      <3> QED BY <3>1, <3>2
    <2>6. ASSUME IsInjective(list), NEW i \in 1 .. Len(b), NEW k \in 1 .. Len(b), b[i] = b[k]
          PROVE  i = k
      <3>1. \A n \in 1 .. Len(q) : q[n] # e
        <4> SUFFICES ASSUME NEW n \in 1 .. Len(q), q[n] = e PROVE FALSE
          OBVIOUS
        <4>1. PICK j \in 1 .. l : q[n] = list[j]
          BY <1>1
        <4>2. list[j] = list[l + 1]
          BY <4>1, <2>1
        <4>3. j \in DOMAIN list /\ l + 1 \in DOMAIN list
          BY ToSetIs
        <4> QED BY <4>2, <4>3, <2>6 DEF IsInjective
      <3> QED BY <3>1, <1>3, <2>3, <2>6
    <2> QED BY <2>3, <2>4, <2>5, <2>6 DEF AmongFirst
  <1> QED BY <1>4, <1>5

\* Among keeps the entries in S, each in its place among the others.
LEMMA AmongIs ==
  ASSUME NEW T, NEW list \in Seq(T), NEW S
  PROVE  /\ Among(list, S) \in Seq(T)
         /\ ToSet(Among(list, S)) = ToSet(list) \cap S
         /\ IsInjective(list) => IsInjective(Among(list, S))
  <1> DEFINE F == CHOOSE f : AmongRounds(f, list, S, Len(list))
  <1>1. Len(list) \in Nat
    OBVIOUS
  <1>2. AmongRounds(F, list, S, Len(list))
    BY <1>1, AmongExists
  <1>3. Among(list, S) = F[Len(list)]
    BY DEF Among, AmongRounds
  <1> HIDE DEF F
  <1>4. \A n \in 0 .. Len(list) : F[n] = IF n = 0 THEN <<>>
                                   ELSE IF list[n] \in S THEN Append(F[n - 1], list[n]) ELSE F[n - 1]
    BY <1>2 DEF AmongRounds
  <1> DEFINE G == {n \in Nat : n <= Len(list) => F[n] \in Seq(T) /\ AmongFirst(F[n], list, S, n)}
  <1>5. 0 \in G
    <2>1. F[0] = <<>>
      BY <1>4
    <2>2. AmongFirst(<<>>, list, S, 0)
      BY DEF AmongFirst
    <2>3. F[0] \in Seq(T) /\ AmongFirst(F[0], list, S, 0)
      BY <2>1, <2>2
    <2> QED BY <2>3
  <1>6. ASSUME NEW l \in Nat, l \in G PROVE l + 1 \in G
    <2> SUFFICES ASSUME l + 1 <= Len(list)
                 PROVE  F[l + 1] \in Seq(T) /\ AmongFirst(F[l + 1], list, S, l + 1)
      OBVIOUS
    <2>1. F[l] \in Seq(T) /\ AmongFirst(F[l], list, S, l)
      BY <1>6
    <2>2. F[l + 1] = IF list[l + 1] \in S THEN Append(F[l], list[l + 1]) ELSE F[l]
      BY <1>4
    <2> QED BY <2>1, <2>2, AmongNext
  <1>7. F[Len(list)] \in Seq(T) /\ AmongFirst(F[Len(list)], list, S, Len(list))
    <2>1. G = Nat
      <3> HIDE DEF G
      <3>1. G \in SUBSET Nat
        BY DEF G
      <3> QED BY <3>1, <1>5, <1>6, LeastFailure
    <2> QED BY <2>1, <1>1
  <1> HIDE DEF G
  <1>8. PICK r : r = F[Len(list)]
    OBVIOUS
  <1>9. r \in Seq(T) /\ AmongFirst(r, list, S, Len(list))
    BY <1>7, <1>8
  <1>10. ToSet(r) \subseteq ToSet(list) \cap S
    <2> SUFFICES ASSUME NEW x \in ToSet(r) PROVE x \in ToSet(list) \cap S
      OBVIOUS
    <2>1. PICK i \in 1 .. Len(r) : r[i] = x
      BY <1>9, ToSetIs
    <2>2. PICK j \in 1 .. Len(list) : r[i] = list[j] /\ list[j] \in S
      BY <1>9 DEF AmongFirst
    <2> QED BY <2>1, <2>2, ToSetIs
  <1>11. ToSet(list) \cap S \subseteq ToSet(r)
    <2> SUFFICES ASSUME NEW x \in ToSet(list), x \in S PROVE x \in ToSet(r)
      OBVIOUS
    <2>1. PICK j \in 1 .. Len(list) : list[j] = x
      BY ToSetIs
    <2>2. PICK i \in 1 .. Len(r) : r[i] = list[j]
      BY <1>9, <2>1 DEF AmongFirst
    <2> QED BY <1>9, <2>1, <2>2, ToSetIs
  <1>12. IsInjective(list) => IsInjective(r)
    <2>1. DOMAIN r = 1 .. Len(r)
      BY <1>9, ToSetIs
    <2> QED BY <2>1, <1>9 DEF IsInjective, AmongFirst
  <1> QED BY <1>3, <1>8, <1>9, <1>10, <1>11, <1>12

LEMMA JoinIs ==
  ASSUME NEW S, NEW a \in Seq(S), NEW b \in Seq(S)
  PROVE  /\ a \o b \in Seq(S)
         /\ ToSet(a \o b) = ToSet(a) \cup ToSet(b)
         /\ IsInjective(a) /\ IsInjective(b) /\ ToSet(a) \cap ToSet(b) = {} => IsInjective(a \o b)
  <1>1. PICK c : c = a \o b
    OBVIOUS
  <1>2. c \in Seq(S) /\ Len(c) = Len(a) + Len(b)
    BY <1>1
  <1>3. \A i \in 1 .. Len(a) : i \in 1 .. Len(c) /\ c[i] = a[i]
    BY <1>1, <1>2
  <1>4. \A i \in 1 .. Len(b) : Len(a) + i \in 1 .. Len(c) /\ c[Len(a) + i] = b[i]
    BY <1>1, <1>2
  <1>5. \A n \in 1 .. Len(c) : n \in 1 .. Len(a) \/ (n - Len(a) \in 1 .. Len(b) /\ n = Len(a) + (n - Len(a)))
    BY <1>2
  <1>6. ASSUME NEW x \in ToSet(c) PROVE x \in ToSet(a) \cup ToSet(b)
    <2>1. PICK n \in 1 .. Len(c) : c[n] = x
      BY <1>2, ToSetIs
    <2>2. CASE n \in 1 .. Len(a)
      BY <2>1, <2>2, <1>3, ToSetIs
    <2>3. CASE n - Len(a) \in 1 .. Len(b) /\ n = Len(a) + (n - Len(a))
      <3>1. b[n - Len(a)] = x
        BY <2>1, <2>3, <1>4
      <3> QED BY <3>1, <2>3, ToSetIs
    <2> QED BY <2>2, <2>3, <1>5
  <1>7. ToSet(a) \subseteq ToSet(c) /\ ToSet(b) \subseteq ToSet(c)
    <2>1. ASSUME NEW x \in ToSet(a) PROVE x \in ToSet(c)
      BY <1>2, <1>3, ToSetIs
    <2>2. ASSUME NEW x \in ToSet(b) PROVE x \in ToSet(c)
      <3>1. PICK i \in 1 .. Len(b) : b[i] = x
        BY ToSetIs
      <3>2. Len(a) + i \in 1 .. Len(c) /\ c[Len(a) + i] = x
        BY <3>1, <1>4
      <3> QED BY <3>2, <1>2, ToSetIs
    <2> QED BY <2>1, <2>2
  <1>8. ASSUME IsInjective(a), IsInjective(b), ToSet(a) \cap ToSet(b) = {},
               NEW i \in 1 .. Len(c), NEW j \in 1 .. Len(c), c[i] = c[j]
        PROVE  i = j
    <2>1. \A x, y \in 1 .. Len(a) : a[x] = a[y] => x = y
      BY <1>8, ToSetIs DEF IsInjective
    <2>2. \A x, y \in 1 .. Len(b) : b[x] = b[y] => x = y
      BY <1>8, ToSetIs DEF IsInjective
    <2>3. \A x \in 1 .. Len(a), y \in 1 .. Len(b) : a[x] # b[y]
      BY <1>8, ToSetIs
    <2>4. Len(a) \in Nat /\ Len(b) \in Nat
      OBVIOUS
    <2>5. CASE i \in 1 .. Len(a) /\ j \in 1 .. Len(a)
      BY <2>5, <2>1, <1>3, <1>8
    <2>6. CASE i \in 1 .. Len(a) /\ j - Len(a) \in 1 .. Len(b)
      <3>1. c[j] = b[j - Len(a)]
        BY <2>4, <2>6, <1>4
      <3> QED BY <3>1, <2>3, <2>6, <1>3, <1>8
    <2>7. CASE j \in 1 .. Len(a) /\ i - Len(a) \in 1 .. Len(b)
      <3>1. c[i] = b[i - Len(a)]
        BY <2>4, <2>7, <1>4
      <3> QED BY <3>1, <2>3, <2>7, <1>3, <1>8
    <2>8. CASE i - Len(a) \in 1 .. Len(b) /\ j - Len(a) \in 1 .. Len(b)
      <3>1. c[i] = b[i - Len(a)] /\ c[j] = b[j - Len(a)]
        BY <2>4, <2>8, <1>4
      <3>2. i - Len(a) = j - Len(a)
        BY <3>1, <2>2, <2>8, <1>8
      <3> QED BY <3>2, <2>4
    <2> QED BY <2>5, <2>6, <2>7, <2>8, <1>5
  <1>9. IsInjective(a) /\ IsInjective(b) /\ ToSet(a) \cap ToSet(b) = {} => IsInjective(c)
    <2>1. DOMAIN c = 1 .. Len(c)
      BY <1>2, ToSetIs
    <2> QED BY <2>1, <1>8 DEF IsInjective
  <1> QED BY <1>1, <1>2, <1>6, <1>7, <1>9

LEMMA AppendIs ==
  ASSUME NEW S, NEW a \in Seq(S), NEW e \in S
  PROVE  /\ Append(a, e) \in Seq(S)
         /\ ToSet(Append(a, e)) = ToSet(a) \cup {e}
         /\ IsInjective(a) /\ e \notin ToSet(a) => IsInjective(Append(a, e))
  <1>1. PICK b : b = <<e>>
    OBVIOUS
  <1>2. b \in Seq(S) /\ Len(b) = 1 /\ b[1] = e
    BY <1>1
  <1>3. Append(a, e) = a \o b
    BY <1>1
  <1>4. ToSet(b) = {e}
    BY <1>2, ToSetIs
  <1>5. IsInjective(b)
    <2>1. DOMAIN b = 1 .. 1
      BY <1>2, ToSetIs
    <2> QED BY <2>1 DEF IsInjective
  <1>6. IsInjective(a) /\ e \notin ToSet(a) => IsInjective(a \o b)
    BY <1>2, <1>4, <1>5, JoinIs
  <1>7. a \o b \in Seq(S) /\ ToSet(a \o b) = ToSet(a) \cup {e}
    BY <1>2, <1>4, JoinIs
  <1> QED BY <1>3, <1>6, <1>7

LEMMA TailIs ==
  ASSUME NEW S, NEW q \in Seq(S), q # <<>>
  PROVE  /\ Tail(q) \in Seq(S) /\ Head(q) \in S
         /\ ToSet(q) = ToSet(Tail(q)) \cup {Head(q)}
         /\ IsInjective(q) => IsInjective(Tail(q)) /\ Head(q) \notin ToSet(Tail(q))
  <1>1. PICK t : t = Tail(q)
    OBVIOUS
  <1>2. PICK c : c = Head(q)
    OBVIOUS
  <1>3. Len(q) \in Nat /\ 1 \in 1 .. Len(q) /\ q[1] = c
    BY <1>2
  <1>4. t \in Seq(S) /\ Len(t) = Len(q) - 1 /\ \A i \in 1 .. Len(t) : t[i] = q[i + 1]
    BY <1>1
  <1>5. \A i \in 1 .. Len(t) : i + 1 \in 1 .. Len(q)
    BY <1>3, <1>4
  <1>6. ASSUME NEW x \in ToSet(t) PROVE \E i \in 1 .. Len(t) : t[i] = x /\ q[i + 1] = x /\ i + 1 \in 1 .. Len(q)
    <2>1. PICK i \in 1 .. Len(t) : t[i] = x
      BY <1>4, ToSetIs
    <2> QED BY <2>1, <1>4, <1>5
  <1>7. ToSet(q) \subseteq ToSet(t) \cup {c}
    <2> SUFFICES ASSUME NEW x \in ToSet(q), x # c PROVE x \in ToSet(t)
      OBVIOUS
    <2>1. PICK i \in 1 .. Len(q) : q[i] = x
      BY ToSetIs
    <2>2. i - 1 \in 1 .. Len(t) /\ t[i - 1] = x
      BY <2>1, <1>3, <1>4
    <2> QED BY <2>2, <1>4, ToSetIs
  <1>8. ToSet(t) \cup {c} \subseteq ToSet(q)
    BY <1>3, <1>6, ToSetIs
  <1>9. ASSUME IsInjective(q) PROVE IsInjective(t) /\ c \notin ToSet(t)
    <2>1. \A i, j \in 1 .. Len(q) : q[i] = q[j] => i = j
      BY <1>9, ToSetIs DEF IsInjective
    <2>2. ASSUME NEW i \in 1 .. Len(t), NEW j \in 1 .. Len(t), t[i] = t[j] PROVE i = j
      <3>1. i + 1 = j + 1
        BY <2>1, <2>2, <1>4, <1>5
      <3> QED BY <3>1, <1>3, <1>4
    <2>3. IsInjective(t)
      <3>1. DOMAIN t = 1 .. Len(t)
        BY <1>4, ToSetIs
      <3> QED BY <3>1, <2>2 DEF IsInjective
    <2>4. c \notin ToSet(t)
      <3> SUFFICES ASSUME c \in ToSet(t) PROVE FALSE
        OBVIOUS
      <3>1. PICK i \in 1 .. Len(t) : q[i + 1] = c /\ i + 1 \in 1 .. Len(q)
        BY <1>6
      <3>2. i + 1 = 1
        BY <3>1, <2>1, <1>3
      <3> QED BY <3>2, <1>3, <1>4
    <2> QED BY <2>3, <2>4
  <1>10. c \in S
    BY <1>3
  <1> QED BY <1>1, <1>2, <1>4, <1>7, <1>8, <1>9, <1>10

\* A list without repetitions is as long as the set of its entries is large.
LEMMA DistinctLength ==
  ASSUME NEW S, NEW list \in Seq(S), IsInjective(list)
  PROVE  IsFiniteSet(ToSet(list)) /\ Cardinality(ToSet(list)) = Len(list)
  <1> DEFINE n == Len(list)  I == ToSet(list)
  <1>1. n \in Nat /\ DOMAIN list = 1 .. n
    BY ToSetIs
  <1>2. list \in [1 .. n -> I]
    BY <1>1, ToSetIs
  <1>3. \A x \in I : \E i \in 1 .. n : list[i] = x
    BY ToSetIs
  <1>4. \A i, j \in 1 .. n : list[i] = list[j] => i = j
    BY <1>1 DEF IsInjective
  <1> HIDE DEF n, I
  <1>5. list \in Bijection(1 .. n, I)
    BY <1>2, <1>3, <1>4 DEF Bijection, Injection, Surjection, IsInjective
  <1>6. ExistsBijection(1 .. n, I)
    BY <1>5 DEF ExistsBijection
  <1>7. Cardinality(I) = n
    BY <1>1, <1>6, FS_CountingElements
  <1>8. IsFiniteSet(I)
    BY <1>1, <1>6, FS_NatBijection
  <1> QED BY <1>7, <1>8 DEF n, I

-----------------------------------------------------------------------------
(* Kahn's algorithm *)

Places(list, S) == {i \in DOMAIN list : list[i] \in S}

LEMMA OccurrencesIs ==
  ASSUME NEW T, NEW list \in Seq(T), NEW S
  PROVE  /\ IsFiniteSet(Places(list, S)) /\ Occurrences(list, S) = Cardinality(Places(list, S))
         /\ Occurrences(list, S) \in Nat
         /\ Occurrences(list, S) = 0 <=> ToSet(list) \cap S = {}
  <1> DEFINE I == Places(list, S)
  <1>1. I \in SUBSET (1 .. Len(list)) /\ IsFiniteSet(1 .. Len(list))
    BY FS_Interval DEF Places
  <1>2. IsFiniteSet(I)
    BY <1>1, FS_Subset
  <1>3. Cardinality(I) \in Nat /\ (Cardinality(I) = 0 <=> I = {})
    BY <1>2, FS_CardinalityType, FS_EmptySet
  <1>4. I = {} <=> ToSet(list) \cap S = {}
    BY DEF ToSet, Places
  <1> QED BY <1>2, <1>3, <1>4 DEF Occurrences, Places

\* A stream that is taken is counted no longer.
LEMMA OccurrencesWithout ==
  ASSUME NEW T, NEW list \in Seq(T), NEW S, NEW c \in S
  PROVE  Occurrences(list, S \ {c}) = Occurrences(list, S) - Occurrences(list, {c})
  <1> DEFINE A == Places(list, S \ {c})  B == Places(list, {c})
  <1>1. /\ IsFiniteSet(A) /\ Occurrences(list, S \ {c}) = Cardinality(A)
        /\ IsFiniteSet(B) /\ Occurrences(list, {c}) = Cardinality(B)
        /\ Occurrences(list, S) = Cardinality(Places(list, S))
    BY OccurrencesIs
  <1>2. Places(list, S) = A \cup B /\ A \cap B = {}
    BY DEF Places
  <1> HIDE DEF A, B
  <1>3. Cardinality(A \cup B) = Cardinality(A) + Cardinality(B) - Cardinality(A \cap B)
    BY <1>1, FS_Union
  <1>4. Cardinality(A \cap B) = 0
    BY <1>2, FS_EmptySet
  <1>5. Cardinality(A) \in Nat /\ Cardinality(B) \in Nat
    BY <1>1, FS_CardinalityType
  <1> QED BY <1>1, <1>2, <1>3, <1>4, <1>5

\* What is so after every round, with the result r and the queue q: the count of a
\* stream is that of its dependencies still to come, and what has none is in r or q.
Kahn(r, q, inDegree, ids, on) ==
  LET I == ToSet(ids) IN
  /\ r \in Seq(I) /\ q \in Seq(I)
  /\ IsInjective(r) /\ IsInjective(q)
  /\ ToSet(r) \cap ToSet(q) = {}
  /\ inDegree = [s \in I |-> Occurrences(on[s], I \ ToSet(r))]
  /\ ToSet(r) \cup ToSet(q) = {s \in I : inDegree[s] = 0}
  /\ \A i \in 1 .. Len(r) : \A d \in ToSet(on[r[i]]) \cap I : \E j \in 1 .. i - 1 : r[j] = d

LEMMA StartIsKahn ==
  ASSUME NEW T, NEW ids \in Seq(T), IsInjective(ids), NEW on, \A s \in T : on[s] \in Seq(T),
         NEW k, k = Start(ids, on)
  PROVE  Kahn(k.result, k.queue, k.inDegree, ids, on)
  <1> DEFINE I == ToSet(ids)
             inDegree == [s \in I |-> Occurrences(on[s], I)]
             Zero == {s \in I : inDegree[s] = 0}
  <1>1. ids \in Seq(I)
    BY ToSetIs
  <1>2. k.inDegree = inDegree /\ k.queue = Among(ids, Zero) /\ k.result = <<>>
    BY DEF Start
  <1>3. PICK q : q = Among(ids, Zero)
    OBVIOUS
  <1> HIDE DEF I
  <1>4. q \in Seq(I) /\ IsInjective(q) /\ ToSet(q) = ToSet(ids) \cap Zero
    <2> HIDE DEF Zero
    <2> QED BY <1>1, <1>3, AmongIs
  <1>5. ToSet(<<>>) = {} /\ <<>> \in Seq(I) /\ IsInjective(<<>>) /\ Len(<<>>) = 0
    BY DEF ToSet, IsInjective
  <1>6. inDegree = [s \in I |-> Occurrences(on[s], I \ ToSet(<<>>))]
    BY <1>5
  <1>7. ToSet(<<>>) \cup ToSet(q) = {s \in I : inDegree[s] = 0}
    BY <1>4, <1>5 DEF I
  <1> HIDE DEF Zero, inDegree
  <1>8. PICK r : r = <<>>
    OBVIOUS
  <1>9. /\ r \in Seq(I) /\ IsInjective(r) /\ Len(r) = 0 /\ ToSet(r) \cap ToSet(q) = {}
        /\ inDegree = [s \in I |-> Occurrences(on[s], I \ ToSet(r))]
        /\ ToSet(r) \cup ToSet(q) = {s \in I : inDegree[s] = 0}
    BY <1>5, <1>6, <1>7, <1>8
  <1>11. \A i \in 1 .. Len(r) : FALSE
    BY <1>9
  <1>12. ToSet(ids) = I
    BY DEF I
  <1>10. Kahn(r, q, inDegree, ids, on)
    BY <1>4, <1>9, <1>11, <1>12 DEF Kahn
  <1> QED BY <1>2, <1>3, <1>8, <1>10

LEMMA TakeKeepsKahn ==
  ASSUME NEW T, NEW ids \in Seq(T), IsInjective(ids), NEW on, \A s \in T : on[s] \in Seq(T),
         NEW k, Kahn(k.result, k.queue, k.inDegree, ids, on), k.queue # <<>>,
         NEW n, n = Take(k, ids, on)
  PROVE  Kahn(n.result, n.queue, n.inDegree, ids, on) /\ Len(n.result) = Len(k.result) + 1
  <1> DEFINE I == ToSet(ids)
  <1>1. ids \in Seq(I) /\ I \subseteq T
    BY ToSetIs
  <1>2. PICK q : q = k.queue
    OBVIOUS
  <1>3. PICK r : r = k.result
    OBVIOUS
  <1>4. PICK g : g = k.inDegree
    OBVIOUS
  <1>k. Kahn(r, q, g, ids, on)
    BY <1>2, <1>3, <1>4
  <1>5. r \in Seq(I) /\ q \in Seq(I) /\ IsInjective(r) /\ IsInjective(q) /\ ToSet(r) \cap ToSet(q) = {}
    BY <1>k DEF Kahn
  <1>6. g = [s \in I |-> Occurrences(on[s], I \ ToSet(r))]
    BY <1>k DEF Kahn
  <1>7. ToSet(r) \cup ToSet(q) = {s \in I : g[s] = 0}
    BY <1>k DEF Kahn
  <1>8. \A i \in 1 .. Len(r) : \A d \in ToSet(on[r[i]]) \cap I : \E j \in 1 .. i - 1 : r[j] = d
    BY <1>k DEF Kahn
  <1>9. PICK c : c = Head(q)
    OBVIOUS
  <1>10. PICK t : t = Tail(q)
    OBVIOUS
  <1>11. /\ c \in I /\ t \in Seq(I) /\ IsInjective(t) /\ c \notin ToSet(t)
         /\ ToSet(q) = ToSet(t) \cup {c}
    <2>1. q # <<>>
      BY <1>2
    <2> HIDE DEF I
    <2> QED BY <2>1, <1>5, <1>9, <1>10, TailIs
  <1> DEFINE released == [s \in I |-> g[s] - Occurrences(on[s], {c})]
             New == {s \in I : released[s] = 0 /\ g[s] # 0}
  <1>12. PICK a : a = Among(ids, New)
    OBVIOUS
  <1>13. PICK m : m = Append(r, c)
    OBVIOUS
  <1>14. PICK u : u = t \o a
    OBVIOUS
  <1>15. n.inDegree = released /\ n.queue = u /\ n.result = m
    BY <1>2, <1>3, <1>4, <1>9, <1>10, <1>12, <1>13, <1>14 DEF Take, Released
  <1> HIDE DEF I
  <1>16. a \in Seq(I) /\ IsInjective(a) /\ ToSet(a) = New
    <2>1. a \in Seq(I) /\ IsInjective(a) /\ ToSet(a) = ToSet(ids) \cap New
      <3> HIDE DEF New
      <3> QED BY <1>1, <1>12, AmongIs
    <2> QED BY <2>1 DEF I
  <1>17. c \notin ToSet(r)
    BY <1>5, <1>11
  <1>18. m \in Seq(I) /\ IsInjective(m) /\ ToSet(m) = ToSet(r) \cup {c}
    BY <1>5, <1>11, <1>13, <1>17, AppendIs
  <1>19. Len(m) = Len(r) + 1 /\ m[Len(r) + 1] = c /\ \A i \in 1 .. Len(r) : m[i] = r[i]
    BY <1>5, <1>11, <1>13
  <1>20. \A s \in I : /\ g[s] = Occurrences(on[s], I \ ToSet(r))
                      /\ released[s] = Occurrences(on[s], I \ ToSet(m))
    <2> TAKE s \in I
    <2>1. g[s] = Occurrences(on[s], I \ ToSet(r))
      BY <1>6
    <2>2. c \in I \ ToSet(r) /\ (I \ ToSet(r)) \ {c} = I \ ToSet(m)
      BY <1>11, <1>17, <1>18
    <2>3. on[s] \in Seq(T)
      BY <1>1
    <2>4. Occurrences(on[s], I \ ToSet(m)) = Occurrences(on[s], I \ ToSet(r)) - Occurrences(on[s], {c})
      BY <2>2, <2>3, OccurrencesWithout
    <2> QED BY <2>1, <2>4
  <1>21. released = [s \in I |-> Occurrences(on[s], I \ ToSet(m))]
    BY <1>20
  <1>22. ASSUME NEW s \in I, g[s] = 0 PROVE released[s] = 0 /\ ToSet(on[s]) \cap (I \ ToSet(r)) = {}
    <2>1. on[s] \in Seq(T)
      BY <1>1
    <2>2. ToSet(on[s]) \cap (I \ ToSet(r)) = {}
      BY <2>1, <1>20, <1>22, OccurrencesIs
    <2>3. ToSet(on[s]) \cap (I \ ToSet(m)) = {}
      BY <2>2, <1>18
    <2>4. Occurrences(on[s], I \ ToSet(m)) = 0
      BY <2>1, <2>3, OccurrencesIs
    <2>5. released[s] = 0
      BY <2>4, <1>20
    <2> QED BY <2>2, <2>5
  <1> HIDE DEF released
  <1>23. ToSet(t) \cap ToSet(a) = {} /\ ToSet(m) \cap ToSet(a) = {} /\ ToSet(m) \cap ToSet(t) = {}
    <2>1. \A s \in ToSet(r) \cup ToSet(q) : s \notin ToSet(a)
      BY <1>7, <1>16
    <2> QED BY <2>1, <1>5, <1>11, <1>18
  <1>24. u \in Seq(I) /\ IsInjective(u) /\ ToSet(u) = ToSet(t) \cup ToSet(a)
    <2>1. u \in Seq(I) /\ ToSet(u) = ToSet(t) \cup ToSet(a)
      BY <1>11, <1>14, <1>16, JoinIs
    <2>2. IsInjective(u)
      BY <1>11, <1>14, <1>16, <1>23, JoinIs
    <2> QED BY <2>1, <2>2
  <1>25. ToSet(m) \cup ToSet(u) = {s \in I : released[s] = 0}
    <2>1. ToSet(m) \cup ToSet(u) = (ToSet(r) \cup ToSet(q)) \cup New
      BY <1>11, <1>16, <1>18, <1>24
    <2> QED BY <2>1, <1>7, <1>22
  <1>26. ToSet(m) \cap ToSet(u) = {}
    BY <1>23, <1>24
  <1>27. ASSUME NEW i \in 1 .. Len(m), NEW d \in ToSet(on[m[i]]) \cap I
         PROVE  \E j \in 1 .. i - 1 : m[j] = d
    <2>l. Len(r) \in Nat
      BY <1>5
    <2>1. CASE i \in 1 .. Len(r)
      <3>1. m[i] = r[i]
        BY <2>1, <1>19
      <3>2. PICK j \in 1 .. i - 1 : r[j] = d
        BY <2>1, <3>1, <1>8, <1>27
      <3>3. j \in 1 .. Len(r)
        BY <2>l, <2>1
      <3> QED BY <3>2, <3>3, <1>19
    <2>2. CASE i = Len(r) + 1
      <3>1. m[i] = c
        BY <2>2, <1>19
      <3>2. g[c] = 0
        BY <1>7, <1>11
      <3>3. ToSet(on[c]) \cap (I \ ToSet(r)) = {}
        BY <3>2, <1>11, <1>22
      <3>4. d \in ToSet(r)
        BY <3>1, <3>3
      <3>5. PICK j \in 1 .. Len(r) : r[j] = d
        BY <3>4, <1>5, ToSetIs
      <3>6. j \in 1 .. i - 1 /\ m[j] = d
        BY <3>5, <2>l, <2>2, <1>19
      <3> QED BY <3>6
    <2> QED BY <2>l, <2>1, <2>2, <1>19
  <1> HIDE DEF New
  <1>28. Kahn(m, u, released, ids, on)
    BY <1>18, <1>21, <1>24, <1>25, <1>26, <1>27 DEF Kahn, I
  <1> QED BY <1>3, <1>15, <1>19, <1>28
-----------------------------------------------------------------------------
\* The rounds of Sorted
SortRounds(f, ids, on, m) ==
  f = [n \in 0 .. m |->
        IF n = 0 THEN Start(ids, on)
        ELSE LET k == f[n - 1] IN IF k.queue = <<>> THEN k ELSE Take(k, ids, on)]

LEMMA SortRoundsExist ==
  ASSUME NEW ids, NEW on, NEW m \in Nat
  PROVE  \E f : SortRounds(f, ids, on, m)
  <1> DEFINE G == {n \in Nat : \E f : SortRounds(f, ids, on, n)}
  <1>1. 0 \in G
    <2> DEFINE f == [n \in 0 .. 0 |-> Start(ids, on)]
    <2>1. f = [n \in 0 .. 0 |-> IF n = 0 THEN Start(ids, on)
                 ELSE LET k == f[n - 1] IN IF k.queue = <<>> THEN k ELSE Take(k, ids, on)]
      OBVIOUS
    <2> HIDE DEF f
    <2>2. SortRounds(f, ids, on, 0)
      BY <2>1 DEF SortRounds
    <2> QED BY <2>2
  <1>2. ASSUME NEW l \in Nat, l \in G PROVE l + 1 \in G
    <2>1. PICK f : SortRounds(f, ids, on, l)
      BY <1>2
    <2> DEFINE Next2(k) == IF k.queue = <<>> THEN k ELSE Take(k, ids, on)
    <2> DEFINE g == [n \in 0 .. l + 1 |-> IF n = l + 1 THEN Next2(f[l]) ELSE f[n]]
    <2>2. \A n \in 0 .. l : f[n] = IF n = 0 THEN Start(ids, on) ELSE Next2(f[n - 1])
      BY <2>1 DEF SortRounds
    <2> HIDE DEF Next2
    <2>3. \A n \in 0 .. l : g[n] = f[n]
      OBVIOUS
    <2>4. \A n \in 0 .. l + 1 : g[n] = IF n = 0 THEN Start(ids, on) ELSE Next2(g[n - 1])
      <3> TAKE n \in 0 .. l + 1
      <3>1. CASE n = l + 1
        BY <3>1, <2>3
      <3>2. CASE n # l + 1
        BY <3>2, <2>2, <2>3
      <3> QED BY <3>1, <3>2
    <2>5. g = [n \in 0 .. l + 1 |-> IF n = 0 THEN Start(ids, on) ELSE Next2(g[n - 1])]
      BY <2>4
    <2> HIDE DEF g
    <2>6. SortRounds(g, ids, on, l + 1)
      BY <2>5 DEF SortRounds, Next2
    <2> QED BY <2>6
  <1> HIDE DEF G
  <1>3. G = Nat
    BY <1>1, <1>2, LeastFailure DEF G
  <1> QED BY <1>3 DEF G

\* The result of the sort: different streams of ids, each after its dependencies
\* among ids; all of them, or what is missing holds a knot.
LEMMA SortedIs ==
  ASSUME NEW T, NEW ids \in Seq(T), IsInjective(ids), NEW on, \A s \in T : on[s] \in Seq(T),
         NEW r, r = Sorted(ids, on)
  PROVE  /\ r \in Seq(ToSet(ids)) /\ IsInjective(r)
         /\ \A i \in 1 .. Len(r) : \A d \in ToSet(on[r[i]]) \cap ToSet(ids) :
              \E j \in 1 .. i - 1 : r[j] = d
         /\ Len(r) = Len(ids) => ToSet(r) = ToSet(ids)
         /\ Len(r) # Len(ids) => \E C \in SUBSET ToSet(ids) : Knot(C, on)
  <1> DEFINE F == CHOOSE f : SortRounds(f, ids, on, Len(ids))
  <1>1. Len(ids) \in Nat
    OBVIOUS
  <1>2. SortRounds(F, ids, on, Len(ids))
    BY <1>1, SortRoundsExist
  <1>3. r = F[Len(ids)].result
    BY DEF Sorted, SortRounds
  <1> HIDE DEF F
  <1>4. \A n \in 0 .. Len(ids) : F[n] = IF n = 0 THEN Start(ids, on)
            ELSE IF F[n - 1].queue = <<>> THEN F[n - 1] ELSE Take(F[n - 1], ids, on)
    BY <1>2 DEF SortRounds
  <1> DEFINE Good(n) == /\ Kahn(F[n].result, F[n].queue, F[n].inDegree, ids, on)
                        /\ F[n].queue = <<>> \/ Len(F[n].result) = n
  <1> DEFINE G == {n \in Nat : n <= Len(ids) => Good(n)}
  <1>5. 0 \in G
    <2>1. F[0] = Start(ids, on)
      BY <1>4
    <2>2. Kahn(F[0].result, F[0].queue, F[0].inDegree, ids, on)
      BY <2>1, StartIsKahn
    <2>3. Len(F[0].result) = 0
      BY <2>1 DEF Start
    <2>4. Good(0)
      BY <2>2, <2>3
    <2> HIDE DEF Good
    <2> QED BY <2>4
  <1>6. ASSUME NEW l \in Nat, l \in G PROVE l + 1 \in G
    <2> SUFFICES ASSUME l + 1 <= Len(ids) PROVE Good(l + 1)
      OBVIOUS
    <2>1. Good(l)
      <3> HIDE DEF Good
      <3> QED BY <1>6
    <2>2. PICK k : k = F[l]
      OBVIOUS
    <2>3. PICK n : n = F[l + 1]
      OBVIOUS
    <2>4. n = IF k.queue = <<>> THEN k ELSE Take(k, ids, on)
      BY <2>2, <2>3, <1>4
    <2>5. Kahn(k.result, k.queue, k.inDegree, ids, on) /\ (k.queue = <<>> \/ Len(k.result) = l)
      BY <2>1, <2>2
    <2>6. Kahn(n.result, n.queue, n.inDegree, ids, on) /\ (n.queue = <<>> \/ Len(n.result) = l + 1)
      <3>1. CASE k.queue = <<>>
        BY <3>1, <2>4, <2>5
      <3>2. CASE k.queue # <<>>
        BY <3>2, <2>4, <2>5, TakeKeepsKahn
      <3> QED BY <3>1, <3>2
    <2> QED BY <2>3, <2>6
  <1>7. Good(Len(ids))
    <2> HIDE DEF Good
    <2>1. G = Nat
      <3>1. G \in SUBSET Nat
        OBVIOUS
      <3> HIDE DEF G
      <3> QED BY <3>1, <1>5, <1>6, LeastFailure
    <2> QED BY <2>1, <1>1
  <1> HIDE DEF G
  <1>8. PICK q : q = F[Len(ids)].queue
    OBVIOUS
  <1>9. PICK g : g = F[Len(ids)].inDegree
    OBVIOUS
  <1>10. Kahn(r, q, g, ids, on) /\ (q = <<>> \/ Len(r) = Len(ids))
    BY <1>3, <1>7, <1>8, <1>9
  <1> HIDE DEF Good
  <1> DEFINE I == ToSet(ids)
  <1>11. /\ r \in Seq(I) /\ IsInjective(r)
         /\ g = [s \in I |-> Occurrences(on[s], I \ ToSet(r))]
         /\ ToSet(r) \cup ToSet(q) = {s \in I : g[s] = 0}
    BY <1>10 DEF Kahn
  <1>12. \A i \in 1 .. Len(r) : \A d \in ToSet(on[r[i]]) \cap I : \E j \in 1 .. i - 1 : r[j] = d
    BY <1>10 DEF Kahn
  <1>13. I \subseteq T /\ IsFiniteSet(I) /\ Cardinality(I) = Len(ids)
    BY DistinctLength, ToSetIs
  <1>14. ToSet(r) \subseteq I /\ Cardinality(ToSet(r)) = Len(r)
    BY <1>11, DistinctLength, ToSetIs
  <1> HIDE DEF I
  <1>15. Len(r) = Len(ids) => ToSet(r) = I
    BY <1>13, <1>14, FS_Subset
  <1>16. ASSUME Len(r) # Len(ids) PROVE \E C \in SUBSET I : Knot(C, on)
    <2>1. q = <<>>
      BY <1>10, <1>16
    <2>2. ToSet(q) = {}
      BY <2>1 DEF ToSet
    <2>3. I \ ToSet(r) # {}
      <3> SUFFICES ASSUME I \subseteq ToSet(r) PROVE FALSE
        OBVIOUS
      <3>1. ToSet(r) = I
        BY <1>14
      <3> QED BY <3>1, <1>13, <1>14, <1>16
    <2>4. ASSUME NEW s \in I \ ToSet(r) PROVE \E d \in I \ ToSet(r) : d \in ToSet(on[s])
      <3>1. on[s] \in Seq(T)
        BY <1>13
      <3>2. g[s] # 0 /\ g[s] = Occurrences(on[s], I \ ToSet(r))
        BY <2>2, <1>11
      <3>3. ToSet(on[s]) \cap (I \ ToSet(r)) # {}
        BY <3>1, <3>2, OccurrencesIs
      <3> QED BY <3>3
    <2>5. Knot(I \ ToSet(r), on)
      BY <2>3, <2>4 DEF Knot
    <2> QED BY <2>5
  <1> QED BY <1>11, <1>12, <1>15, <1>16 DEF I

\* A knot among ids is never sorted.
LEMMA KnotsStop ==
  ASSUME NEW T, NEW ids \in Seq(T), IsInjective(ids), NEW on, \A s \in T : on[s] \in Seq(T),
         NEW C \in SUBSET ToSet(ids), Knot(C, on)
  PROVE  Len(Sorted(ids, on)) # Len(ids)
  <1> SUFFICES ASSUME Len(Sorted(ids, on)) = Len(ids) PROVE FALSE
    OBVIOUS
  <1>1. PICK r : r = Sorted(ids, on)
    OBVIOUS
  <1>2. /\ r \in Seq(ToSet(ids)) /\ ToSet(r) = ToSet(ids)
        /\ \A i \in 1 .. Len(r) : \A d \in ToSet(on[r[i]]) \cap ToSet(ids) : \E j \in 1 .. i - 1 : r[j] = d
    BY <1>1, SortedIs
  <1> DEFINE J == {i \in 1 .. Len(r) : r[i] \in C}
  <1>3. J \in SUBSET Nat /\ J # {}
    <2>1. PICK c \in C : TRUE
      BY DEF Knot
    <2>2. c \in ToSet(r)
      BY <1>2
    <2>3. PICK i \in 1 .. Len(r) : r[i] = c
      BY <2>2, <1>2, ToSetIs
    <2> QED BY <2>3
  <1>4. PICK i \in J : \A j \in J : i <= j
    <2> HIDE DEF J
    <2> QED BY <1>3, LeastOf
  <1>5. PICK d \in C : d \in ToSet(on[r[i]])
    BY <1>4 DEF Knot
  <1>6. PICK j \in 1 .. i - 1 : r[j] = d
    BY <1>2, <1>4, <1>5
  <1>7. j \in J /\ j < i
    BY <1>4, <1>5, <1>6
  <1> QED BY <1>4, <1>7
-----------------------------------------------------------------------------
(* No call on the graph, each in one step, makes a cycle *)

\* the graph over all streams
Whole == INSTANCE DependencyGraph

GraphSound == Whole!GraphTypeOK /\ Whole!Acyclic

\* what can be reached from some member of D
ReachedFrom(E, D) == {y \in Streams : \E d \in D : Whole!Reaches(E, d, y)}

\* A stream reaches itself and its dependencies, and what these reach.
LEMMA ReachedClosed ==
  ASSUME NEW E \in SUBSET (Streams \X Streams), NEW D \in SUBSET Streams
  PROVE  /\ D \subseteq ReachedFrom(E, D)
         /\ Whole!Closed(E, ReachedFrom(E, D))
         /\ ReachedFrom(E, D) \subseteq Streams
<1>1. D \subseteq ReachedFrom(E, D)
  BY DEF ReachedFrom, Whole!Reaches
<1>2. ASSUME NEW e \in E, e[1] \in ReachedFrom(E, D)
      PROVE  e[2] \in ReachedFrom(E, D)
  <2>1. PICK d \in D : Whole!Reaches(E, d, e[1])
    BY <1>2 DEF ReachedFrom
  <2>2. Whole!Reaches(E, d, e[2])
    BY <2>1 DEF Whole!Reaches, Whole!Closed
  <2> QED BY <2>1, <2>2 DEF ReachedFrom
<1> QED BY <1>1, <1>2 DEF Whole!Closed, ReachedFrom

\* A stream lies on no cycle when a closed set holds its dependencies without it.
LEMMA AcyclicFromSets ==
  ASSUME NEW E \in SUBSET (Streams \X Streams),
         \A s \in Streams : \E C \in SUBSET Streams :
           /\ Whole!Closed(E, C)
           /\ \A e \in E : e[1] = s => e[2] \in C
           /\ s \notin C
  PROVE  \A e \in E : ~ Whole!Reaches(E, e[2], e[1])
<1> TAKE e \in E
<1>1. PICK C \in SUBSET Streams :
        Whole!Closed(E, C) /\ (\A f \in E : f[1] = e[1] => f[2] \in C) /\ e[1] \notin C
  OBVIOUS
<1> QED BY <1>1 DEF Whole!Reaches

\* Conversely, in a graph without cycles each stream has such a set.
LEMMA SetsFromAcyclic ==
  ASSUME Whole!GraphTypeOK, Whole!Acyclic, NEW s \in Streams
  PROVE  \E C \in SUBSET Streams :
           /\ Whole!Closed(edges, C)
           /\ \A e \in edges : e[1] = s => e[2] \in C
           /\ s \notin C
<1> DEFINE D == {d \in Streams : <<s, d>> \in edges}
           C == ReachedFrom(edges, D)
<1>1. /\ D \subseteq C
      /\ Whole!Closed(edges, C)
      /\ C \subseteq Streams
  BY ReachedClosed DEF Whole!GraphTypeOK
<1>2. \A e \in edges : e[1] = s => e[2] \in D
  BY DEF Whole!GraphTypeOK
<1>3. s \notin C
  <2> SUFFICES ASSUME s \in C PROVE FALSE
    OBVIOUS
  <2>1. PICK d \in D : Whole!Reaches(edges, d, s)
    BY DEF ReachedFrom
  <2>2. <<s, d>> \in edges
    BY <2>1
  <2>3. <<s, d>>[1] = s /\ <<s, d>>[2] = d
    OBVIOUS
  <2> QED BY <2>1, <2>2, <2>3 DEF Whole!Acyclic
<1> HIDE DEF C
<1>4. \A e \in edges : e[1] = s => e[2] \in C
  BY <1>1, <1>2
<1> QED BY <1>1, <1>3, <1>4

-----------------------------------------------------------------------------
(* The dependencies of one stream are replaced by others that do not reach  *)
(* it: this covers addDependency, which keeps the old ones, as well as      *)
(* addMergeDependency, which does not.                                      *)

LEMMA ReplaceKeepsAcyclic ==
  ASSUME Whole!GraphTypeOK, Whole!Acyclic, Whole!GraphTypeOK',
         NEW s \in Streams, NEW D \in SUBSET Streams,
         \A d \in D : ~ Whole!Reaches(edges, d, s),
         \A e \in edges' : (e \in edges /\ e[1] # s) \/ (e[1] = s /\ e[2] \in D)
  PROVE  Whole!Acyclic'
<1> DEFINE B == ReachedFrom(edges, D)
<1>1. /\ D \subseteq B
      /\ Whole!Closed(edges, B)
      /\ B \subseteq Streams
  BY ReachedClosed DEF Whole!GraphTypeOK
<1>2. s \notin B
  BY DEF ReachedFrom
<1> HIDE DEF B
<1>3. ASSUME NEW x \in Streams
      PROVE  \E C \in SUBSET Streams :
               /\ Whole!Closed(edges', C)
               /\ \A e \in edges' : e[1] = x => e[2] \in C
               /\ x \notin C
  <2>1. PICK A \in SUBSET Streams :
          /\ Whole!Closed(edges, A)
          /\ \A e \in edges : e[1] = x => e[2] \in A
          /\ x \notin A
    BY SetsFromAcyclic
  <2>2. CASE x = s
    <3>1. Whole!Closed(edges', B)
      BY <1>1, <1>2 DEF Whole!Closed
    <3>2. \A e \in edges' : e[1] = x => e[2] \in B
      BY <1>1, <2>2
    <3> QED BY <3>1, <3>2, <1>1, <1>2, <2>2
  <2>3. CASE x # s /\ s \notin A
    <3>1. Whole!Closed(edges', A)
      BY <2>1, <2>3 DEF Whole!Closed
    <3>2. \A e \in edges' : e[1] = x => e[2] \in A
      BY <2>1, <2>3
    <3> QED BY <3>1, <3>2, <2>1
  <2>4. CASE x # s /\ s \in A /\ x \notin B
    <3>1. Whole!Closed(edges', A \cup B)
      BY <1>1, <2>1 DEF Whole!Closed
    <3>2. \A e \in edges' : e[1] = x => e[2] \in A \cup B
      BY <2>1, <2>4
    <3> QED BY <3>1, <3>2, <1>1, <2>1, <2>4
  <2>5. CASE x # s /\ x \in B
    <3>1. Whole!Closed(edges', A \cap B)
      BY <1>1, <1>2, <2>1 DEF Whole!Closed
    <3>2. \A e \in edges' : e[1] = x => e[2] \in A \cap B
      BY <1>1, <2>1, <2>5 DEF Whole!Closed
    <3> QED BY <3>1, <3>2, <1>1, <2>1
  <2> QED BY <2>2, <2>3, <2>4, <2>5
<1>4. edges' \in SUBSET (Streams \X Streams)
  BY DEF Whole!GraphTypeOK
<1>5. \A e \in edges' : ~ Whole!Reaches(edges', e[2], e[1])
  BY <1>3, <1>4, AcyclicFromSets
<1> QED BY <1>5 DEF Whole!Acyclic, Whole!Reaches, Whole!Closed

\* Fewer dependencies make no cycle.
LEMMA FewerKeepsAcyclic ==
  ASSUME Whole!GraphTypeOK, Whole!Acyclic, edges' \subseteq edges
  PROVE  Whole!Acyclic'
<1> SUFFICES ASSUME NEW e \in edges', Whole!Reaches(edges', e[2], e[1]) PROVE FALSE
  BY DEF Whole!Acyclic, Whole!Reaches, Whole!Closed
<1>1. \A C : Whole!Closed(edges, C) => Whole!Closed(edges', C)
  BY DEF Whole!Closed
<1>2. Whole!Reaches(edges, e[2], e[1])
  BY <1>1 DEF Whole!Reaches
<1> QED BY <1>2 DEF Whole!Acyclic

LEMMA GraphSoundInit == Whole!GraphInit => GraphSound
BY DEF Whole!GraphInit, GraphSound, Whole!GraphTypeOK, Whole!Acyclic

LEMMA GraphSoundStep == GraphSound /\ [Whole!GraphNext]_(Whole!gvars) => GraphSound'
<1> SUFFICES ASSUME GraphSound, [Whole!GraphNext]_(Whole!gvars) PROVE GraphSound'
  OBVIOUS
<1>t. Whole!GraphTypeOK /\ Whole!Acyclic
  BY DEF GraphSound
<1>1. Whole!GraphTypeOK'
  BY <1>t DEF Whole!GraphNext, Whole!gvars, Whole!GraphTypeOK, Whole!AddDependency, Whole!AddMergeDependency,
              Whole!RemoveDependency, Whole!ArchiveStream
<1>2. ASSUME NEW s \in Streams, NEW d \in Streams, Whole!AddDependency(s, d) PROVE Whole!Acyclic'
  <2> DEFINE D == {c \in Streams : c = d \/ <<s, c>> \in edges}
  <2>1. \A c \in D : ~ Whole!Reaches(edges, c, s)
    <3>1. \A c \in Streams : <<s, c>> \in edges => ~ Whole!Reaches(edges, c, s)
      <4> TAKE c \in Streams
      <4> HAVE <<s, c>> \in edges
      <4>1. <<s, c>>[1] = s /\ <<s, c>>[2] = c
        OBVIOUS
      <4> QED BY <4>1, <1>t DEF Whole!Acyclic
    <3> QED BY <3>1, <1>2 DEF Whole!AddDependency, Whole!WouldCreateCycle
  <2>2. \A e \in edges' : (e \in edges /\ e[1] # s) \/ (e[1] = s /\ e[2] \in D)
    BY <1>2, <1>t DEF Whole!AddDependency, Whole!GraphTypeOK
  <2> HIDE DEF D
  <2>3. D \in SUBSET Streams
    BY DEF D
  <2> QED BY <2>1, <2>2, <2>3, <1>1, <1>t, ReplaceKeepsAcyclic
<1>3. ASSUME NEW s \in Streams, NEW D \in SUBSET Streams, Whole!AddMergeDependency(s, D)
      PROVE  Whole!Acyclic'
  <2>1. \A d \in D : ~ Whole!Reaches(edges, d, s)
    BY <1>3 DEF Whole!AddMergeDependency, Whole!WouldCreateCycle
  <2>2. \A e \in edges' : (e \in edges /\ e[1] # s) \/ (e[1] = s /\ e[2] \in D)
    BY <1>3 DEF Whole!AddMergeDependency
  <2> QED BY <2>1, <2>2, <1>1, <1>t, ReplaceKeepsAcyclic
<1>4. ASSUME NEW s \in Streams, NEW d \in Streams, Whole!RemoveDependency(s, d) PROVE Whole!Acyclic'
  <2>1. edges' \subseteq edges
    BY <1>4 DEF Whole!RemoveDependency
  <2> QED BY <2>1, <1>t, FewerKeepsAcyclic
<1>5. ASSUME NEW s \in Streams, Whole!ArchiveStream(s) PROVE Whole!Acyclic'
  <2>1. edges' \subseteq edges
    BY <1>5 DEF Whole!ArchiveStream
  <2> QED BY <2>1, <1>t, FewerKeepsAcyclic
<1>6. ASSUME UNCHANGED Whole!gvars PROVE Whole!Acyclic'
  <2>1. edges' \subseteq edges
    BY <1>6 DEF Whole!gvars
  <2> QED BY <2>1, <1>t, FewerKeepsAcyclic
<1>7. Whole!Acyclic'
  BY <1>2, <1>3, <1>4, <1>5, <1>6 DEF Whole!GraphNext
<1> QED BY <1>1, <1>7 DEF GraphSound

\* addDependency "@throws CyclicDependencyError if adding would create a cycle":
\* no sequence of calls, each atomic, makes the dependency graph cyclic.
THEOREM GraphIsAcyclic == Whole!GraphSpec => []Whole!Acyclic
<1>1. GraphSound => Whole!Acyclic
  BY DEF GraphSound
<1> QED BY <1>1, GraphSoundInit, GraphSoundStep, PTL DEF Whole!GraphSpec

-----------------------------------------------------------------------------
(* The types of the graph's calls *)

Row == [on : Seq(Streams), type : Types \cup {"none"}]
Call == [pc : Pcs, stream : Streams \cup {NoStream}, sources : Seq(Streams), type : Types \cup {"none"},
         at : Nat, stack : Seq(Streams), visited : SUBSET Streams, list : Seq(Streams)]

RowOK(w) == /\ w = NoRow \/ w.type \in Types
            /\ w.on = <<>> => w.type \in {"none", "merge"}

CallOK(r) ==
  /\ r.pc # "idle" => r.stream \in Here
  /\ r.pc \in {"search", "read", "write"} => r.type \in Types
  /\ r.pc \in {"search", "read"} =>
       /\ r.at \in 1 .. Len(r.sources) /\ r.sources # <<>>
       /\ r.type # "merge" => Len(r.sources) = 1
  /\ r.pc = "read" => r.type # "merge"
  /\ r.pc = "write" /\ r.sources = <<>> => r.type = "merge"

GraphTypes ==
  /\ setting \in Settings
  /\ exists \subseteq Here
  /\ row \in [Streams -> Row] /\ \A s \in Streams : RowOK(row[s])
  /\ proc \in [Procs -> Call] /\ \A p \in Procs : CallOK(proc[p])
  /\ calls \in 0 .. setting.calls

LEMMA HereIs == Here \subseteq Streams
  BY DependenciesAssumption DEF Here

LEMMA StreamsFinite == IsFiniteSet(Streams)
  BY DependenciesAssumption, DistinctLength

LEMMA IdleOK == Idle \in Call /\ Idle.pc = "idle" /\ \A h : CallOK(Idle)
  BY DEF Idle, Call, Pcs, CallOK

LEMMA CallMoves ==
  ASSUME GraphTypes, NEW p \in Procs, NEW r \in Call, CallOK(r), Set(p, r),
         UNCHANGED setting, exists' \subseteq exists,
         row' \in [Streams -> Row], \A s \in Streams : RowOK(row'[s]), calls' \in 0 .. setting.calls
  PROVE  GraphTypes'
  <1>1. setting' \in Settings /\ exists' \subseteq Here' /\ Here' = Here /\ calls' \in 0 .. setting'.calls
    BY DEF GraphTypes, Here
  <1>2. proc' \in [Procs -> Call]
    BY DEF GraphTypes, Set
  <1>3. ASSUME NEW q \in Procs PROVE CallOK(proc[q])'
    <2>1. proc'[q] = r \/ proc'[q] = proc[q]
      BY DEF GraphTypes, Set
    <2>2. CallOK(proc[q])
      BY DEF GraphTypes
    <2> QED BY <2>1, <2>2, <1>1 DEF CallOK
  <1>4. ASSUME NEW s \in Streams PROVE RowOK(row[s])'
    BY DEF RowOK
  <1> QED BY <1>1, <1>2, <1>3, <1>4 DEF GraphTypes

LEMMA FreeCalls ==
  ASSUME GraphTypes, NEW p, Free(p), UNCHANGED setting
  PROVE  calls' \in 0 .. setting.calls
  <1>1. setting.calls \in Nat /\ calls \in 0 .. setting.calls
    BY DependenciesAssumption DEF GraphTypes
  <1> QED BY <1>1 DEF Free

LEMMA SourcesAre ==
  ASSUME setting \in Settings
  PROVE  SourceLists \subseteq Seq(Here)
  <1>1. setting.sources \in Nat
    BY DependenciesAssumption
  <1> QED BY <1>1 DEF SourceLists

LEMMA BeginKeepsTypes ==
  ASSUME GraphTypes, NEW p \in Procs, NEW s \in Here, NEW sources \in Seq(Streams), NEW type \in Types,
         type # "merge" => Len(sources) = 1, Begin(p, s, sources, type)
  PROVE  GraphTypes'
  <1>1. PICK r : r = [Idle EXCEPT !.pc = IF sources = <<>> THEN "write" ELSE "search",
                         !.stream = s, !.sources = sources, !.type = type,
                         !.stack = IF sources = <<>> THEN <<>> ELSE <<sources[1]>>]
    OBVIOUS
  <1>2. sources # <<>> => sources[1] \in Streams /\ Len(sources) \in Nat \ {0}
    OBVIOUS
  <1>3. PICK k \in Seq(Streams) : k = IF sources = <<>> THEN <<>> ELSE <<sources[1]>>
    <2>1. CASE sources = <<>>
      BY <2>1
    <2>2. CASE sources # <<>>
      <3>1. PICK e \in Streams : e = sources[1]
        BY <2>2, <1>2
      <3>2. <<e>> \in Seq(Streams)
        OBVIOUS
      <3> QED BY <2>2, <3>1, <3>2
    <2> QED BY <2>1, <2>2
  <1>4. /\ r.pc = (IF sources = <<>> THEN "write" ELSE "search")
        /\ r.stream = s /\ r.sources = sources /\ r.type = type /\ r.at = 1
    BY <1>1 DEF Idle
  <1>5. r \in Call
    <2>1. PICK pc \in Pcs : pc = IF sources = <<>> THEN "write" ELSE "search"
      BY DEF Pcs
    <2>2. r = [pc |-> pc, stream |-> s, sources |-> sources, type |-> type, at |-> 1,
               stack |-> k, visited |-> {}, list |-> <<>>]
      BY <1>1, <1>3, <2>1 DEF Idle
    <2>3. <<>> \in Seq(Streams) /\ s \in Streams
      BY HereIs
    <2> QED BY <2>2, <2>3 DEF Call
  <1>6. CallOK(r)
    <2>1. CASE sources = <<>>
      <3>1. type = "merge"
        BY <2>1
      <3> QED BY <1>4, <2>1, <3>1 DEF CallOK
    <2>2. CASE sources # <<>>
      <3>1. 1 \in 1 .. Len(sources)
        BY <2>2, <1>2
      <3> QED BY <1>4, <2>2, <3>1 DEF CallOK
    <2> QED BY <2>1, <2>2
  <1>7. Set(p, r) /\ UNCHANGED <<setting, exists, row>> /\ Free(p)
    BY <1>1 DEF Begin
  <1>8. calls' \in 0 .. setting.calls
    BY <1>7, FreeCalls
  <1>9. row' \in [Streams -> Row] /\ \A t \in Streams : RowOK(row'[t])
    BY <1>7 DEF GraphTypes
  <1> QED BY <1>5, <1>6, <1>7, <1>8, <1>9, CallMoves

\* A call that moves on and writes no row
LEMMA QuietMoves ==
  ASSUME GraphTypes, NEW p \in Procs, NEW r \in Call, CallOK(r), Set(p, r),
         UNCHANGED <<setting, exists, row, calls>>
  PROVE  GraphTypes'
  <1>1. row' \in [Streams -> Row] /\ \A t \in Streams : RowOK(row'[t])
    BY DEF GraphTypes
  <1>2. calls' \in 0 .. setting.calls
    BY DEF GraphTypes
  <1> QED BY <1>1, <1>2, CallMoves

\* the stack after c is taken off it
Popped(r, n, c, f) ==
  /\ r.stack = Append(f, c) /\ ToSet(r.stack) = ToSet(f) \cup {c} /\ Len(r.stack) = Len(f) + 1
  /\ c \in r.visited => n.stack = f
  /\ c \notin r.visited => ToSet(n.stack) = ToSet(f) \cup (Deps(c) \ (r.visited \cup {c}))

\* a round of the search
LEMMA ExpandIs ==
  ASSUME GraphTypes, NEW p \in Procs, At(p, "search"), proc[p].stack # <<>>,
         NEW r, r = proc[p], NEW c, c = Last(r.stack), NEW n, n = Expand(p, c)
  PROVE  /\ c \in Streams /\ c \in ToSet(r.stack)
         /\ n \in Call /\ n.pc = r.pc /\ n.stream = r.stream /\ n.sources = r.sources /\ n.type = r.type
         /\ n.at = r.at /\ n.visited = r.visited \cup {c}
         /\ \E f \in Seq(Streams) : Popped(r, n, c, f)
  <1>1. r \in Call /\ r = proc[p]
    BY DEF GraphTypes
  <1>2. PICK k \in Seq(Streams) : k = r.stack
    BY <1>1 DEF Call
  <1>3. k # <<>> /\ Len(k) \in Nat /\ Len(k) >= 1
    BY <1>1, <1>2
  <1>4. c = k[Len(k)] /\ c \in Streams
    BY <1>1, <1>2, <1>3 DEF Last
  <1>5. PICK f : f = Front(k)
    OBVIOUS
  <1>6. f \in Seq(Streams) /\ Len(f) = Len(k) - 1 /\ \A i \in 1 .. Len(k) - 1 : f[i] = k[i]
    <2>1. f = SubSeq(k, 1, Len(k) - 1)
      BY <1>5 DEF Front
    <2>2. \A i \in 1 .. Len(k) - 1 : k[i] \in Streams
      BY <1>3
    <2>3. PICK m \in Nat : m = Len(k) - 1
      BY <1>3
    <2>4. /\ f \in Seq(Streams) /\ Len(f) = (IF 1 <= m THEN m - 1 + 1 ELSE 0)
          /\ \A i \in 1 .. m - 1 + 1 : f[i] = k[1 + i - 1]
      BY <2>1, <2>2, <2>3, SubSeqProperties
    <2>5. Len(f) = m /\ m - 1 + 1 = m /\ \A i \in 1 .. m : 1 + i - 1 = i
      BY <2>4
    <2> QED BY <2>3, <2>4, <2>5
  <1>7. k = Append(f, c) /\ Len(k) = Len(f) + 1 /\ ToSet(k) = ToSet(f) \cup {c}
    <2>1. k = Append(f, c) /\ Len(k) = Len(f) + 1
      BY <1>3, <1>4, <1>6
    <2> QED BY <2>1, <1>4, <1>6, AppendIs
  <1>8. c \in ToSet(k)
    BY <1>3, <1>4, ToSetIs
  <1>9. row[c].on \in Seq(Streams)
    BY <1>4 DEF GraphTypes, Row
  <1>10. PICK todo : todo = Among(row[c].on, Streams \ (r.visited \cup {c}))
    OBVIOUS
  <1>11. todo \in Seq(Streams) /\ ToSet(todo) = Deps(c) \cap (Streams \ (r.visited \cup {c}))
    BY <1>9, <1>10, AmongIs DEF Deps
  <1>12. Deps(c) \subseteq Streams
    BY <1>9, ToSetIs DEF Deps
  <1>13. f \o todo \in Seq(Streams) /\ ToSet(f \o todo) = ToSet(f) \cup ToSet(todo)
    BY <1>6, <1>11, JoinIs
  <1>14. n = IF c \in r.visited THEN [r EXCEPT !.stack = f]
             ELSE [r EXCEPT !.stack = f \o todo, !.visited = @ \cup {c}]
    BY <1>1, <1>2, <1>5, <1>10 DEF Expand
  <1>15. CASE c \in r.visited
    <2>1. n = [r EXCEPT !.stack = f]
      BY <1>14, <1>15
    <2>2. n.stack = f /\ n \in Call
      BY <2>1, <1>1, <1>6 DEF Call
    <2>3. /\ n.pc = r.pc /\ n.stream = r.stream /\ n.sources = r.sources /\ n.type = r.type
          /\ n.at = r.at /\ n.visited = r.visited
      BY <2>1, <1>1 DEF Call
    <2>4. r.visited \cup {c} = r.visited
      BY <1>15
    <2>5. Popped(r, n, c, f)
      BY <2>2, <1>2, <1>7, <1>15 DEF Popped
    <2> QED BY <2>2, <2>3, <2>4, <2>5, <1>4, <1>2, <1>6, <1>8
  <1>16. CASE c \notin r.visited
    <2>1. n = [r EXCEPT !.stack = f \o todo, !.visited = r.visited \cup {c}]
      BY <1>14, <1>16
    <2>2. n.stack = f \o todo /\ n \in Call
      <3>1. PICK w : w = f \o todo
        OBVIOUS
      <3>2. PICK v : v = r.visited \cup {c}
        OBVIOUS
      <3>3. v \in SUBSET Streams /\ w \in Seq(Streams)
        BY <1>1, <1>4, <1>6, <1>11, <1>13, <3>1, <3>2 DEF Call
      <3>4. n = [r EXCEPT !.stack = w, !.visited = v]
        BY <2>1, <3>1, <3>2
      <3>5. n \in Call /\ n.stack = w
        BY <1>1, <3>3, <3>4 DEF Call
      <3> QED BY <3>1, <3>5
    <2>3. /\ n.pc = r.pc /\ n.stream = r.stream /\ n.sources = r.sources /\ n.type = r.type
          /\ n.at = r.at /\ n.visited = r.visited \cup {c}
      BY <2>1, <1>1 DEF Call
    <2>4. ToSet(n.stack) = ToSet(f) \cup (Deps(c) \ (r.visited \cup {c}))
      BY <2>2, <1>11, <1>12, <1>13
    <2>5. Popped(r, n, c, f)
      BY <2>4, <1>2, <1>7, <1>16 DEF Popped
    <2> QED BY <2>2, <2>3, <2>5, <1>2, <1>4, <1>6, <1>8
  <1> QED BY <1>15, <1>16

LEMMA SearchKeepsTypes ==
  ASSUME GraphTypes, NEW p \in Procs, Search(p)
  PROVE  GraphTypes'
  <1>1. PICK c : c = Last(proc[p].stack)
    OBVIOUS
  <1>2. CASE c = proc[p].stream
    BY <1>1, <1>2, IdleOK, QuietMoves DEF Search, Return
  <1>3. CASE c # proc[p].stream
    <2>1. PICK n : n = Expand(p, c)
      OBVIOUS
    <2>2. Set(p, n) /\ UNCHANGED <<setting, exists, row, calls>> /\ At(p, "search") /\ proc[p].stack # <<>>
      BY <1>1, <1>3, <2>1 DEF Search
    <2>4. PICK r \in Call : r = proc[p] /\ CallOK(r)
      BY DEF GraphTypes
    <2>3. /\ n \in Call /\ n.pc = r.pc /\ n.stream = r.stream /\ n.sources = r.sources /\ n.type = r.type
          /\ n.at = r.at
      <3>1. /\ At(p, "search") /\ proc[p].stack # <<>> /\ r = proc[p]
            /\ c = Last(r.stack) /\ n = Expand(p, c)
        BY <1>1, <2>1, <2>2, <2>4
      <3> QED BY <3>1, ExpandIs
    <2>6. CallOK(n)
      BY <2>3, <2>4 DEF CallOK
    <2> QED BY <2>2, <2>3, <2>6, QuietMoves
  <1> QED BY <1>2, <1>3

\* the search for the next source, or the step after the last one
NoneFound(r, n) ==
  /\ n.stream = r.stream /\ n.sources = r.sources /\ n.type = r.type /\ n.visited = {}
  /\ \/ /\ r.at < Len(r.sources) /\ n.pc = "search" /\ n.at = r.at + 1
        /\ n.stack = <<r.sources[r.at + 1]>> /\ r.sources[r.at + 1] \in Streams
     \/ /\ r.at = Len(r.sources) /\ n.pc = IF r.type = "merge" THEN "write" ELSE "read"

LEMMA NoCycleIs ==
  ASSUME GraphTypes, NEW p \in Procs, NoCycleFound(p), NEW r, r = proc[p]
  PROVE  /\ UNCHANGED <<setting, exists, row, calls>> /\ r.pc = "search" /\ r.stack = <<>>
         /\ r \in Call /\ CallOK(r)
         /\ \E n \in Call : Set(p, n) /\ CallOK(n) /\ NoneFound(r, n)
  <1>1. r \in Call /\ CallOK(r)
    BY DEF GraphTypes
  <1>2. UNCHANGED <<setting, exists, row, calls>> /\ r.pc = "search" /\ r.stack = <<>>
    BY DEF NoCycleFound, At
  <1>3. PICK k \in Seq(Streams) : k = r.sources
    BY <1>1 DEF Call
  <1>4. r.at \in 1 .. Len(k) /\ Len(k) \in Nat /\ k # <<>>
    BY <1>1, <1>2, <1>3 DEF CallOK
  <1>5. CASE r.at < Len(k)
    <2>1. PICK e \in Streams : e = k[r.at + 1]
      BY <1>4, <1>5
    <2>2. PICK n : n = [r EXCEPT !.at = r.at + 1, !.stack = <<e>>, !.visited = {}]
      OBVIOUS
    <2>3. Set(p, n)
      BY <1>3, <1>5, <2>1, <2>2 DEF NoCycleFound
    <2>4. <<e>> \in Seq(Streams) /\ r.at + 1 \in Nat
      BY <1>4
    <2>5. n \in Call
      BY <2>2, <2>4, <1>1 DEF Call
    <2>6. /\ n.pc = "search" /\ n.at = r.at + 1 /\ n.stack = <<e>> /\ n.stream = r.stream
          /\ n.sources = k /\ n.type = r.type /\ n.visited = {}
      BY <2>2, <1>1, <1>2, <1>3 DEF Call
    <2>7. r.at + 1 \in 1 .. Len(k)
      BY <1>4, <1>5
    <2>8. CallOK(n)
      BY <2>6, <2>7, <1>1, <1>2, <1>3, <1>4 DEF CallOK
    <2>9. NoneFound(r, n)
      BY <1>3, <1>5, <2>1, <2>6 DEF NoneFound
    <2> QED BY <1>1, <1>2, <2>3, <2>5, <2>8, <2>9
  <1>6. CASE r.at = Len(k)
    <2>1. PICK pc \in Pcs : pc = IF r.type = "merge" THEN "write" ELSE "read"
      BY DEF Pcs
    <2>2. PICK n : n = [r EXCEPT !.pc = pc, !.visited = {}]
      OBVIOUS
    <2>3. Set(p, n)
      BY <1>3, <1>6, <2>1, <2>2 DEF NoCycleFound
    <2>4. n \in Call
      BY <2>2, <1>1 DEF Call
    <2>5. /\ n.pc = pc /\ n.at = r.at /\ n.stream = r.stream
          /\ n.sources = k /\ n.type = r.type /\ n.visited = {}
      BY <2>2, <1>1, <1>3 DEF Call
    <2>6. CallOK(n)
      BY <2>1, <2>5, <1>1, <1>2, <1>3, <1>4 DEF CallOK
    <2>7. NoneFound(r, n)
      BY <1>3, <1>6, <2>1, <2>5 DEF NoneFound
    <2> QED BY <1>1, <1>2, <2>3, <2>4, <2>6, <2>7
  <1> QED BY <1>4, <1>5, <1>6

\* n is r with the list that was read
ListRead(r, n) ==
  /\ CallOK(n) /\ n.pc = "write" /\ n.stream = r.stream /\ n.type = r.type
  /\ n.sources = Append(row[r.stream].on, r.sources[1])

LEMMA ReadIs ==
  ASSUME GraphTypes, NEW p \in Procs, ReadList(p), NEW r, r = proc[p]
  PROVE  /\ UNCHANGED <<setting, exists, row, calls>> /\ r.pc = "read" /\ r \in Call /\ CallOK(r)
         /\ r.stream \in Streams /\ r.sources[1] \in Streams /\ Len(r.sources) = 1
         /\ Return(p) \/ \E n \in Call : Set(p, n) /\ ListRead(r, n)
  <1>1. r \in Call /\ CallOK(r)
    BY DEF GraphTypes
  <1>2. UNCHANGED <<setting, exists, row, calls>> /\ r.pc = "read"
    BY DEF ReadList, At
  <1>3. r.stream \in Here /\ r.stream \in Streams /\ r.type # "merge" /\ r.type \in Types
    BY <1>1, <1>2, HereIs DEF CallOK
  <1>4. PICK k \in Seq(Streams) : k = r.sources
    BY <1>1 DEF Call
  <1>5. Len(k) = 1
    BY <1>1, <1>2, <1>3, <1>4 DEF CallOK
  <1>6. PICK e \in Streams : e = k[1]
    <2>1. 1 \in 1 .. Len(k)
      BY <1>5
    <2> QED BY <2>1
  <1>7. PICK on \in Seq(Streams) : on = row[r.stream].on
    BY <1>3 DEF GraphTypes, Row
  <1>8. CASE Return(p)
    BY <1>1, <1>2, <1>3, <1>4, <1>5, <1>6, <1>8
  <1>9. CASE ~ Return(p)
    <2>1. PICK w \in Seq(Streams) : w = Append(on, e) /\ w # <<>>
      BY AppendProperties
    <2>2. PICK n : n = [r EXCEPT !.pc = "write", !.sources = w]
      OBVIOUS
    <2>3. Set(p, n)
      BY <1>4, <1>6, <1>7, <1>9, <2>1, <2>2 DEF ReadList
    <2>4. n \in Call /\ n.pc = "write" /\ n.stream = r.stream /\ n.sources = w /\ n.type = r.type
      BY <2>2, <1>1 DEF Call, Pcs
    <2>5. CallOK(n)
      BY <2>1, <2>4, <1>3 DEF CallOK
    <2>6. ListRead(r, n)
      BY <1>4, <1>6, <1>7, <2>1, <2>4, <2>5 DEF ListRead
    <2> QED BY <1>1, <1>2, <1>3, <1>4, <1>5, <1>6, <2>3, <2>4, <2>6
  <1> QED BY <1>8, <1>9

\* the two statements that write a row
LEMMA UpsertKeepsTypes ==
  ASSUME GraphTypes, NEW p \in Procs, Upsert(p)
  PROVE  GraphTypes'
  <1>1. PICK r \in Call : r = proc[p] /\ CallOK(r)
    BY DEF GraphTypes
  <1>2. r.pc = "write" /\ Return(p) /\ UNCHANGED <<setting, exists, calls>>
    BY <1>1 DEF Upsert, At
  <1>3. r.stream \in Streams /\ r.type \in Types /\ (r.sources = <<>> => r.type = "merge")
    BY <1>1, <1>2, HereIs DEF CallOK
  <1>4. PICK w : w = [on |-> r.sources, type |-> r.type]
    OBVIOUS
  <1>5. w \in Row /\ RowOK(w)
    BY <1>1, <1>3, <1>4 DEF Row, RowOK, Call
  <1>6. row' = [row EXCEPT ![r.stream] = w] \/ row' = row
    BY <1>1, <1>4 DEF Upsert
  <1>7. row' \in [Streams -> Row] /\ \A s \in Streams : row'[s] = row[s] \/ row'[s] = w
    BY <1>3, <1>5, <1>6 DEF GraphTypes
  <1>8. \A s \in Streams : RowOK(row'[s])
    BY <1>5, <1>7 DEF GraphTypes
  <1>9. calls' \in 0 .. setting.calls
    BY <1>2 DEF GraphTypes
  <1> QED BY <1>2, <1>7, <1>8, <1>9, IdleOK, CallMoves DEF Return

LEMMA RemoveWriteKeepsTypes ==
  ASSUME GraphTypes, NEW p \in Procs, RemoveWrite(p)
  PROVE  GraphTypes'
  <1>1. PICK r \in Call : r = proc[p] /\ CallOK(r)
    BY DEF GraphTypes
  <1>2. r.pc = "remove_write" /\ Return(p) /\ UNCHANGED <<setting, exists, calls>>
    BY <1>1 DEF RemoveWrite, At
  <1>3. r.stream \in Streams
    BY <1>1, <1>2, HereIs DEF CallOK
  <1>4. PICK v \in Row : v = row[r.stream] /\ RowOK(v)
    BY <1>3 DEF GraphTypes
  <1>5. PICK w : w = IF r.list = <<>> THEN NoRow ELSE IF v = NoRow THEN v ELSE [v EXCEPT !.on = r.list]
    OBVIOUS
  <1>6. NoRow \in Row /\ RowOK(NoRow)
    BY DEF Row, NoRow, RowOK
  <1>7. w \in Row /\ RowOK(w)
    <2>1. CASE r.list # <<>> /\ v # NoRow
      <3>1. w = [v EXCEPT !.on = r.list]
        BY <1>5, <2>1
      <3>2. w \in Row /\ w.on = r.list /\ w.type = v.type
        BY <3>1, <1>1, <1>4 DEF Row, Call
      <3> QED BY <3>2, <2>1, <1>4 DEF RowOK
    <2>2. CASE ~ (r.list # <<>> /\ v # NoRow)
      BY <2>2, <1>4, <1>5, <1>6
    <2> QED BY <2>1, <2>2
  <1>8. row' = [row EXCEPT ![r.stream] = w]
    <2>1. row = [row EXCEPT ![r.stream] = v]
      BY <1>4 DEF GraphTypes
    <2> QED BY <2>1, <1>1, <1>4, <1>5 DEF RemoveWrite
  <1>9. row' \in [Streams -> Row] /\ \A s \in Streams : row'[s] = row[s] \/ row'[s] = w
    BY <1>3, <1>7, <1>8 DEF GraphTypes
  <1>10. \A s \in Streams : RowOK(row'[s])
    BY <1>7, <1>9 DEF GraphTypes
  <1>11. calls' \in 0 .. setting.calls
    BY <1>2 DEF GraphTypes
  <1> QED BY <1>2, <1>9, <1>10, <1>11, IdleOK, CallMoves DEF Return

LEMMA RemoveIs ==
  ASSUME GraphTypes, NEW p \in Procs, NEW s \in Here, NEW d, RemoveDependency(p, s, d)
  PROVE  /\ UNCHANGED <<setting, exists, row>> /\ Free(p) /\ d \in Deps(s)
         /\ \E n \in Call : /\ Set(p, n) /\ CallOK(n) /\ n.pc = "remove_write" /\ n.stream = s
                            /\ n.list = RemoveFirst(row[s].on, d)
  <1>1. s \in Streams
    BY HereIs
  <1>2. row[s].on \in Seq(Streams) /\ d \in ToSet(row[s].on)
    BY <1>1 DEF GraphTypes, Row, RemoveDependency
  <1>3. PICK l \in Seq(Streams) : l = RemoveFirst(row[s].on, d)
    BY <1>2, RemoveFirstIs
  <1>4. PICK n : n = [Idle EXCEPT !.pc = "remove_write", !.stream = s, !.list = l]
    OBVIOUS
  <1>5. Set(p, n) /\ UNCHANGED <<setting, exists, row>> /\ Free(p)
    BY <1>3, <1>4 DEF RemoveDependency
  <1>6. n \in Call /\ n.pc = "remove_write" /\ n.stream = s /\ n.list = l
    BY <1>1, <1>4, IdleOK DEF Idle, Call, Pcs
  <1>7. CallOK(n)
    BY <1>6 DEF CallOK
  <1> QED BY <1>2, <1>3, <1>5, <1>6, <1>7 DEF Deps

\* every call of the graph
LEMMA GraphCallKeepsTypes ==
  ASSUME GraphTypes, NEW p \in Procs, Calls(p) \/ Step(p)
  PROVE  GraphTypes'
  <1>1. ASSUME NEW s \in Here, NEW d \in Here, NEW type \in {"rebase_onto", "fork"}, AddDependency(p, s, d, type)
        PROVE  GraphTypes'
    <2>1. <<d>> \in Seq(Streams) /\ Len(<<d>>) = 1 /\ type \in Types
      BY HereIs DEF Types
    <2> QED BY <2>1, <1>1, BeginKeepsTypes DEF AddDependency
  <1>2. ASSUME NEW s \in Here, NEW sources \in SourceLists, AddMergeDependency(p, s, sources)
        PROVE  GraphTypes'
    <2>1. sources \in Seq(Streams)
      BY SourcesAre, HereIs DEF GraphTypes
    <2> QED BY <2>1, <1>2, BeginKeepsTypes DEF AddMergeDependency, Types
  <1>3. ASSUME NEW s \in Here, NEW d \in Here, RemoveDependency(p, s, d) PROVE GraphTypes'
    <2>1. row' \in [Streams -> Row] /\ \A t \in Streams : RowOK(row'[t])
      BY <1>3, RemoveIs DEF GraphTypes
    <2>2. calls' \in 0 .. setting.calls
      BY <1>3, RemoveIs, FreeCalls
    <2>3. PICK n \in Call : Set(p, n) /\ CallOK(n)
      BY <1>3, RemoveIs
    <2> QED BY <2>1, <2>2, <2>3, <1>3, CallMoves DEF RemoveDependency
  <1>4. ASSUME NEW s \in Here, ArchiveStream(p, s) PROVE GraphTypes'
    <2>1. exists' \subseteq exists /\ UNCHANGED <<setting, row, proc>> /\ Free(p)
      BY <1>4 DEF ArchiveStream
    <2>2. calls' \in 0 .. setting.calls
      BY <2>1, FreeCalls
    <2>3. row' \in [Streams -> Row] /\ \A t \in Streams : RowOK(row'[t])
      BY <2>1 DEF GraphTypes
    <2>4. Set(p, proc[p])
      BY <2>1 DEF Set, GraphTypes
    <2> QED BY <2>1, <2>2, <2>3, <2>4, CallMoves DEF GraphTypes
  <1>5. CASE Search(p)
    BY <1>5, SearchKeepsTypes
  <1>6. CASE NoCycleFound(p)
    BY <1>6, NoCycleIs, QuietMoves
  <1>7. CASE ReadList(p)
    BY <1>7, ReadIs, QuietMoves, IdleOK DEF Return, ListRead
  <1>8. CASE Upsert(p) \/ RemoveWrite(p)
    BY <1>8, UpsertKeepsTypes, RemoveWriteKeepsTypes
  <1> QED BY <1>1, <1>2, <1>3, <1>4, <1>5, <1>6, <1>7, <1>8 DEF Calls, Step

-----------------------------------------------------------------------------
(* What a call knows when no other one is under way *)

\* a graph call, or a step that leaves the graph and its calls alone
LEMMA StepsOfTheGraph ==
  ASSUME GraphTypes, [Next]_vars
  PROVE  /\ UNCHANGED setting
         /\ \/ UNCHANGED depvars
            \/ \E p \in setting.procs : p \in Procs /\ (Calls(p) \/ Step(p))
  <1>1. setting.procs \subseteq Procs
    BY DependenciesAssumption DEF GraphTypes
  <1>2. ASSUME NEW p \in setting.procs, Calls(p) \/ Step(p) PROVE UNCHANGED setting
    BY <1>2 DEF Calls, Step, AddDependency, AddMergeDependency, Begin, RemoveDependency, ArchiveStream,
                Search, NoCycleFound, ReadList, Upsert, RemoveWrite
  <1>3. ASSUME NEW s \in Here, Visit(s) PROVE UNCHANGED <<setting, depvars>>
    BY <1>3 DEF Visit, SkipStream, DiamondThrows, WorktreeFails, NoTarget, RebaseThrows, RebaseSucceeds, RebaseFails
  <1>4. ASSUME NEW strategy, CascadeRebase(strategy) \/ ResumeCascade(strategy) PROVE UNCHANGED <<setting, depvars>>
    BY <1>4 DEF CascadeRebase, ResumeCascade
  <1>5. ASSUME NEW s, PauseStream(s) \/ ResumeStream(s) \/ ClearConflict(s) PROVE UNCHANGED <<setting, depvars>>
    BY <1>5 DEF PauseStream, ResumeStream, ClearConflict
  <1>6. CASE UNCHANGED vars
    BY <1>6 DEF vars
  <1> QED BY <1>1, <1>2, <1>3, <1>4, <1>5, <1>6 DEF Next, GraphCalls, GraphSteps

LEMMA GraphTypesStep ==
  ASSUME GraphTypes, [Next]_vars
  PROVE  GraphTypes'
  <1>1. CASE UNCHANGED <<setting, depvars>>
    BY <1>1 DEF GraphTypes, depvars, Here, CallOK, RowOK
  <1> QED BY <1>1, StepsOfTheGraph, GraphCallKeepsTypes DEF depvars

LEMMA EdgesAre ==
  ASSUME GraphTypes
  PROVE  /\ \A s \in Streams : Deps(s) \subseteq Streams
         /\ edges \in SUBSET (Streams \X Streams)
         /\ \A s, d : <<s, d>> \in edges <=> s \in Streams /\ d \in Deps(s)
         /\ \A e \in edges : e[1] \in Streams /\ e[2] \in Deps(e[1]) /\ e = <<e[1], e[2]>>
  <1>1. ASSUME NEW s \in Streams PROVE Deps(s) \subseteq Streams
    <2>1. row[s].on \in Seq(Streams)
      BY DEF GraphTypes, Row
    <2> QED BY <2>1, ToSetIs DEF Deps
  <1>2. \A e : e \in edges <=> \E s \in Streams : \E d \in Deps(s) : e = <<s, d>>
    BY DEF edges, Deps
  <1> HIDE DEF edges
  <1> QED BY <1>1, <1>2

\* what is reached reaches further
LEMMA ReachOn ==
  ASSUME GraphTypes, NEW x, NEW y \in Streams, Whole!Reaches(edges, x, y)
  PROVE  \A z \in Deps(y) : Whole!Reaches(edges, x, z)
  <1> TAKE z \in Deps(y)
  <1>1. <<y, z>> \in edges /\ <<y, z>>[1] = y /\ <<y, z>>[2] = z
    BY EdgesAre
  <1> HIDE DEF edges
  <1> QED BY <1>1 DEF Whole!Reaches, Whole!Closed

\* a set that holds the dependencies of its members is closed
LEMMA ClosedSet ==
  ASSUME GraphTypes, NEW C, \A v \in C : Deps(v) \subseteq C
  PROVE  Whole!Closed(edges, C)
  <1>1. \A e \in edges : e[2] \in Deps(e[1])
    BY EdgesAre
  <1> QED BY <1>1 DEF Whole!Closed

Apart(d, s) == ~ Whole!Reaches(edges, d, s)

Searching(r) ==
  LET seen == ToSet(r.stack) \cup r.visited IN
  /\ ToSet(r.sources) \subseteq exists
  /\ r.stream \notin r.visited
  /\ \A i \in 1 .. r.at - 1 : Apart(r.sources[i], r.stream)
  /\ r.sources[r.at] \in seen
  /\ \A v \in seen : Whole!Reaches(edges, r.sources[r.at], v)
  /\ \A v \in r.visited : Deps(v) \subseteq seen

Knows(r) ==
  /\ r.pc \in {"search", "read", "write"} => r.stream \in exists
  /\ r.pc = "search" => Searching(r)
  /\ r.pc = "read" => r.sources[1] \in exists /\ Apart(r.sources[1], r.stream)
  /\ r.pc = "write" =>
       \/ ToSet(r.sources) \subseteq exists /\ \A d \in ToSet(r.sources) : Apart(d, r.stream)
       \/ \E d \in exists : r.sources = Append(row[r.stream].on, d) /\ Apart(d, r.stream)
  /\ r.pc = "remove_write" =>
       r.stream \in Streams /\ \E d \in Deps(r.stream) : r.list = RemoveFirst(row[r.stream].on, d)

LEMMA IdleKnows ==
  ASSUME NEW r, r.pc = "idle"
  PROVE  Knows(r)
  BY DEF Knows

LEMMA KnowsStays ==
  ASSUME NEW r, Knows(r), UNCHANGED <<exists, row>>
  PROVE  Knows(r)'
  BY DEF Knows, Searching, Apart, edges, Deps, Whole!Reaches, Whole!Closed

\* a search that ends without meeting the stream
LEMMA NotFound ==
  ASSUME GraphTypes, NEW r \in Call, r.pc = "search", r.stack = <<>>, Knows(r)
  PROVE  Apart(r.sources[r.at], r.stream)
  <1>1. ToSet(r.stack) = {}
    BY DEF ToSet
  <1>2. /\ r.stream \notin r.visited /\ r.sources[r.at] \in r.visited
        /\ \A v \in r.visited : Deps(v) \subseteq r.visited
    BY <1>1 DEF Knows, Searching
  <1>3. Whole!Closed(edges, r.visited) /\ r.visited \in SUBSET Streams
    BY <1>2, ClosedSet DEF Call
  <1> QED BY <1>2, <1>3 DEF Apart, Whole!Reaches

LEMMA BeginKnows ==
  ASSUME GraphTypes, NEW p \in Procs, NEW s \in Here, NEW sources \in Seq(Streams), NEW type,
         Begin(p, s, sources, type)
  PROVE  UNCHANGED <<exists, row>> /\ Knows(proc'[p])
  <1>1. PICK r : r = [Idle EXCEPT !.pc = IF sources = <<>> THEN "write" ELSE "search",
                         !.stream = s, !.sources = sources, !.type = type,
                         !.stack = IF sources = <<>> THEN <<>> ELSE <<sources[1]>>]
    OBVIOUS
  <1>2. /\ proc'[p] = r /\ UNCHANGED <<exists, row>> /\ s \in exists /\ ToSet(sources) \subseteq exists
    BY <1>1 DEF Begin, Set, GraphTypes
  <1>3. /\ r.pc = (IF sources = <<>> THEN "write" ELSE "search") /\ r.stream = s /\ r.sources = sources
        /\ r.stack = (IF sources = <<>> THEN <<>> ELSE <<sources[1]>>) /\ r.visited = {} /\ r.at = 1
    BY <1>1 DEF Idle
  <1>4. CASE sources = <<>>
    <2>1. ToSet(r.sources) = {}
      BY <1>3, <1>4 DEF ToSet
    <2> QED BY <2>1, <1>2, <1>3, <1>4 DEF Knows
  <1>5. CASE sources # <<>>
    <2>1. PICK e \in Streams : e = sources[1]
      <3>1. 1 \in 1 .. Len(sources)
        BY <1>5
      <3> QED BY <3>1
    <2>2. ToSet(<<e>>) = {e}
      BY DEF ToSet
    <2>3. Whole!Reaches(edges, e, e)
      BY DEF Whole!Reaches
    <2>4. r.pc = "search" /\ r.stack = <<e>> /\ r.sources[1] = e
      BY <1>3, <1>5, <2>1
    <2>5. Searching(r)
      BY <1>2, <1>3, <2>2, <2>3, <2>4 DEF Searching
    <2> QED BY <1>2, <1>3, <1>5, <2>4, <2>5 DEF Knows
  <1> QED BY <1>2, <1>4, <1>5

LEMMA SearchKnows ==
  ASSUME GraphTypes, NEW p \in Procs, Knows(proc[p]), Search(p)
  PROVE  UNCHANGED <<exists, row>> /\ Knows(proc'[p])
  <1>1. PICK r \in Call : r = proc[p]
    BY DEF GraphTypes
  <1>2. PICK c : c = Last(r.stack)
    OBVIOUS
  <1>3. UNCHANGED <<exists, row>> /\ r.pc = "search" /\ r.stack # <<>> /\ At(p, "search")
    BY <1>1 DEF Search, At
  <1>4. CASE c = r.stream
    <2>1. proc'[p] = Idle
      BY <1>1, <1>2, <1>4 DEF Search, Return, Set, GraphTypes
    <2> QED BY <2>1, <1>3, IdleOK, IdleKnows
  <1>5. CASE c # r.stream
    <2>1. PICK n : n = Expand(p, c)
      OBVIOUS
    <2>2. proc'[p] = n
      BY <1>1, <1>2, <1>5, <2>1 DEF Search, Set, GraphTypes
    <2>3. r.stack # <<>> /\ r = proc[p] /\ proc[p].stack # <<>> /\ At(p, "search") /\ c = Last(r.stack)
      BY <1>1, <1>2, <1>3
    <2>4. /\ c \in Streams /\ c \in ToSet(r.stack)
          /\ n \in Call /\ n.pc = r.pc /\ n.stream = r.stream /\ n.sources = r.sources
          /\ n.at = r.at /\ n.visited = r.visited \cup {c}
      BY <2>1, <2>3, ExpandIs
    <2>5. \E F : /\ ToSet(r.stack) = F \cup {c}
                 /\ c \in r.visited => ToSet(n.stack) = F
                 /\ c \notin r.visited => ToSet(n.stack) = F \cup (Deps(c) \ (r.visited \cup {c}))
      <3>1. PICK f \in Seq(Streams) : Popped(r, n, c, f)
        BY <2>1, <2>3, ExpandIs
      <3>2. PICK F : F = ToSet(f)
        OBVIOUS
      <3> QED BY <3>1, <3>2 DEF Popped
    <2>6. Searching(r) /\ r.stream \in exists
      BY <1>1, <1>3 DEF Knows
    <2>7. \A z \in Deps(c) : Whole!Reaches(edges, r.sources[r.at], z)
      BY <2>4, <2>6, ReachOn DEF Searching
    <2>8. ToSet(n.stack) \cup n.visited \subseteq ToSet(r.stack) \cup r.visited \cup Deps(c)
      BY <2>4, <2>5
    <2>9. ToSet(r.stack) \cup r.visited \subseteq ToSet(n.stack) \cup n.visited
      BY <2>4, <2>5
    <2>10. Deps(c) \subseteq ToSet(n.stack) \cup n.visited
      <3>1. CASE c \in r.visited
        BY <3>1, <2>6, <2>9 DEF Searching
      <3>2. CASE c \notin r.visited
        BY <3>2, <2>4, <2>5
      <3> QED BY <3>1, <3>2
    <2>11. Searching(n)
      <3>1. PICK seen : seen = ToSet(r.stack) \cup r.visited
        OBVIOUS
      <3>2. PICK now : now = ToSet(n.stack) \cup n.visited
        OBVIOUS
      <3>3. /\ ToSet(r.sources) \subseteq exists /\ r.stream \notin r.visited
            /\ \A i \in 1 .. r.at - 1 : Apart(r.sources[i], r.stream)
            /\ r.sources[r.at] \in seen
            /\ \A v \in seen : Whole!Reaches(edges, r.sources[r.at], v)
            /\ \A v \in r.visited : Deps(v) \subseteq seen
        BY <2>6, <3>1 DEF Searching
      <3>4. seen \subseteq now /\ now \subseteq seen \cup Deps(c) /\ Deps(c) \subseteq now
        BY <2>8, <2>9, <2>10, <3>1, <3>2
      <3>5. \A v \in now : Whole!Reaches(edges, r.sources[r.at], v)
        BY <2>7, <3>3, <3>4
      <3>6. \A v \in n.visited : Deps(v) \subseteq now
        BY <2>4, <3>3, <3>4
      <3>7. n.stream \notin n.visited
        BY <1>5, <2>4, <3>3
      <3> QED BY <2>4, <3>2, <3>3, <3>4, <3>5, <3>6, <3>7 DEF Searching
    <2> QED BY <1>3, <2>2, <2>4, <2>6, <2>11 DEF Knows
  <1> QED BY <1>4, <1>5

LEMMA NoCycleKnows ==
  ASSUME GraphTypes, NEW p \in Procs, Knows(proc[p]), NoCycleFound(p)
  PROVE  UNCHANGED <<exists, row>> /\ Knows(proc'[p])
  <1>1. PICK r \in Call : r = proc[p] /\ CallOK(r)
    BY DEF GraphTypes
  <1>2. UNCHANGED <<exists, row>> /\ r.pc = "search" /\ r.stack = <<>>
    BY <1>1, NoCycleIs
  <1>3. PICK n \in Call : Set(p, n) /\ CallOK(n) /\ NoneFound(r, n)
    BY <1>1, NoCycleIs
  <1>4. proc'[p] = n
    BY <1>3 DEF Set, GraphTypes
  <1>5. Apart(r.sources[r.at], r.stream)
    BY <1>1, <1>2, NotFound
  <1>6. PICK k \in Seq(Streams) : k = r.sources
    BY <1>1 DEF Call
  <1>7. /\ r.at \in 1 .. Len(k) /\ Len(k) \in Nat /\ r.stream \in exists /\ ToSet(k) \subseteq exists
        /\ \A i \in 1 .. r.at - 1 : Apart(k[i], r.stream)
        /\ r.type # "merge" => Len(k) = 1
    BY <1>1, <1>2, <1>6 DEF CallOK, Knows, Searching
  <1>8. \A i \in 1 .. r.at : Apart(k[i], r.stream)
    <2> TAKE i \in 1 .. r.at
    <2>1. i = r.at \/ i \in 1 .. r.at - 1
      BY <1>7
    <2> QED BY <2>1, <1>5, <1>6, <1>7
  <1>9. CASE r.at < Len(k)
    <2>1. PICK e : e = k[r.at + 1]
      OBVIOUS
    <2>2. n.pc = "search" /\ n.at = r.at + 1 /\ n.stack = <<e>>
      BY <1>3, <1>6, <1>7, <1>9, <2>1 DEF NoneFound
    <2>3. ToSet(<<e>>) = {e} /\ Whole!Reaches(edges, e, e)
      BY DEF ToSet, Whole!Reaches
    <2>4. (r.at + 1) - 1 = r.at
      BY <1>7
    <2>5. Searching(n)
      BY <1>3, <1>6, <1>7, <1>8, <2>1, <2>2, <2>3, <2>4 DEF Searching, NoneFound
    <2> QED BY <1>2, <1>3, <1>4, <1>7, <2>2, <2>5 DEF Knows, NoneFound
  <1>10. CASE r.at = Len(k)
    <2>1. n.pc = IF r.type = "merge" THEN "write" ELSE "read"
      BY <1>3, <1>6, <1>7, <1>10 DEF NoneFound
    <2>2. \A d \in ToSet(k) : Apart(d, r.stream)
      BY <1>8, <1>10, ToSetIs
    <2>3. r.type # "merge" => k[1] \in ToSet(k)
      <3> HAVE r.type # "merge"
      <3>1. 1 \in 1 .. Len(k)
        BY <1>7
      <3> QED BY <3>1, ToSetIs
    <2> QED BY <1>2, <1>3, <1>4, <1>6, <1>7, <2>1, <2>2, <2>3 DEF Knows, NoneFound
  <1> QED BY <1>6, <1>7, <1>9, <1>10

LEMMA ReadKnows ==
  ASSUME GraphTypes, NEW p \in Procs, Knows(proc[p]), ReadList(p)
  PROVE  UNCHANGED <<exists, row>> /\ Knows(proc'[p])
  <1>1. PICK r \in Call : r = proc[p]
    BY DEF GraphTypes
  <1>2. UNCHANGED <<exists, row>> /\ r.pc = "read" /\ (Return(p) \/ \E n \in Call : Set(p, n) /\ ListRead(r, n))
    BY <1>1, ReadIs
  <1>3. CASE Return(p)
    <2>1. proc'[p] = Idle
      BY <1>3 DEF Return, Set, GraphTypes
    <2> QED BY <2>1, <1>2, IdleOK, IdleKnows
  <1>4. ASSUME NEW n \in Call, Set(p, n), ListRead(r, n)
        PROVE  Knows(proc'[p])
    <2>1. proc'[p] = n
      BY <1>4 DEF Set, GraphTypes
    <2>2. r.stream \in exists /\ r.sources[1] \in exists /\ Apart(r.sources[1], r.stream)
      BY <1>1, <1>2 DEF Knows
    <2> QED BY <2>1, <2>2, <1>4 DEF Knows, ListRead
  <1> QED BY <1>2, <1>3, <1>4

-----------------------------------------------------------------------------
(* Each call does to the graph what one step of the abstract graph does, or  *)
(* nothing.                                                                  *)

EdgesOf(rows) == UNION {{s} \X ToSet(rows[s].on) : s \in Streams}

LEMMA EdgesOfAre ==
  ASSUME NEW rows \in [Streams -> Row]
  PROVE  /\ EdgesOf(rows) \in SUBSET (Streams \X Streams)
         /\ \A x, y \in Streams : <<x, y>> \in EdgesOf(rows) <=> y \in ToSet(rows[x].on)
  <1>1. ASSUME NEW s \in Streams PROVE ToSet(rows[s].on) \subseteq Streams
    <2>1. rows[s].on \in Seq(Streams)
      BY DEF Row
    <2> QED BY <2>1, ToSetIs
  <1>2. \A e : e \in EdgesOf(rows) <=> \E s \in Streams : \E d \in ToSet(rows[s].on) : e = <<s, d>>
    BY DEF EdgesOf
  <1> QED BY <1>1, <1>2

LEMMA SamePairs ==
  ASSUME NEW E \in SUBSET (Streams \X Streams), NEW F \in SUBSET (Streams \X Streams),
         \A x, y \in Streams : <<x, y>> \in E <=> <<x, y>> \in F
  PROVE  E = F
  OBVIOUS

\* one row is written
LEMMA WrittenEdges ==
  ASSUME GraphTypes, GraphTypes', NEW s \in Streams, NEW D \in SUBSET Streams,
         ToSet(row'[s].on) = D, \A x \in Streams \ {s} : row'[x] = row[x]
  PROVE  /\ edges \in SUBSET (Streams \X Streams)
         /\ edges' = {e \in edges : e[1] # s} \cup ({s} \X D)
         /\ \A y \in Streams : <<s, y>> \in edges <=> y \in Deps(s)
  <1>1. row \in [Streams -> Row] /\ row' \in [Streams -> Row]
    BY DEF GraphTypes
  <1>2. edges = EdgesOf(row) /\ edges' = EdgesOf(row')
    BY DEF edges, EdgesOf
  <1>3. PICK E : E = EdgesOf(row)
    OBVIOUS
  <1>4. PICK N : N = EdgesOf(row')
    OBVIOUS
  <1>5. /\ E \in SUBSET (Streams \X Streams)
        /\ \A x, y \in Streams : <<x, y>> \in E <=> y \in ToSet(row[x].on)
    BY <1>1, <1>3, EdgesOfAre
  <1>6. /\ N \in SUBSET (Streams \X Streams)
        /\ \A x, y \in Streams : <<x, y>> \in N <=> y \in ToSet(row'[x].on)
    BY <1>1, <1>4, EdgesOfAre
  <1>7. N = {e \in E : e[1] # s} \cup ({s} \X D)
    <2> DEFINE M == {e \in E : e[1] # s} \cup ({s} \X D)
    <2>1. M \in SUBSET (Streams \X Streams)
      BY <1>5
    <2>2. ASSUME NEW x \in Streams, NEW y \in Streams PROVE <<x, y>> \in N <=> <<x, y>> \in M
      <3>1. CASE x = s
        BY <3>1, <1>6
      <3>2. CASE x # s
        <4>1. row'[x] = row[x]
          BY <3>2
        <4> QED BY <3>2, <4>1, <1>5, <1>6
      <3> QED BY <3>1, <3>2
    <2> HIDE DEF M
    <2>3. N = M
      BY <1>6, <2>1, <2>2, SamePairs
    <2> QED BY <2>3 DEF M
  <1>8. edges = E /\ edges' = N
    BY <1>2, <1>3, <1>4
  <1> HIDE DEF edges
  <1>9. \A y \in Streams : <<s, y>> \in E <=> y \in Deps(s)
    BY <1>5 DEF Deps
  <1> QED BY <1>5, <1>7, <1>8, <1>9

GraphStep == [Whole!GraphNext]_(Whole!gvars)

LEMMA UpsertIs ==
  ASSUME GraphTypes, GraphTypes', NEW p \in Procs, Knows(proc[p]), Upsert(p)
  PROVE  GraphStep /\ Knows(proc[p])'
  <1>1. PICK r \in Call : r = proc[p]
    BY DEF GraphTypes
  <1>2. /\ r.pc = "write" /\ Return(p) /\ UNCHANGED exists /\ r.stream \in exists
        /\ \/ ToSet(r.sources) \subseteq exists /\ \A d \in ToSet(r.sources) : Apart(d, r.stream)
           \/ \E d \in exists : r.sources = Append(row[r.stream].on, d) /\ Apart(d, r.stream)
    BY <1>1 DEF Upsert, At, Knows
  <1>3. PICK s \in Streams : s = r.stream
    BY <1>2, HereIs DEF GraphTypes
  <1>4. exists \subseteq Streams
    BY HereIs DEF GraphTypes
  <1>5. PICK D \in SUBSET Streams : D = ToSet(r.sources)
    <2>1. r.sources \in Seq(Streams)
      BY <1>1 DEF Call
    <2> QED BY <2>1, ToSetIs
  <1>6. ToSet(row'[s].on) = D /\ \A x \in Streams \ {s} : row'[x] = row[x]
    <2>1. row' = [row EXCEPT ![s] = [on |-> r.sources, type |-> r.type]]
      BY <1>1, <1>2, <1>3 DEF Upsert
    <2>2. row \in [Streams -> Row]
      BY DEF GraphTypes
    <2>3. row'[s].on = r.sources
      BY <2>1, <2>2
    <2> QED BY <2>1, <2>2, <2>3, <1>5
  <1>7. /\ edges \in SUBSET (Streams \X Streams)
        /\ edges' = {e \in edges : e[1] # s} \cup ({s} \X D)
        /\ \A y \in Streams : <<s, y>> \in edges <=> y \in Deps(s)
    BY <1>6, WrittenEdges
  <1>8. Knows(proc[p])'
    <2>1. proc'[p] = Idle
      BY <1>2 DEF Return, Set, GraphTypes
    <2> QED BY <2>1, IdleOK DEF Knows
  <1> HIDE DEF edges
  <1>9. CASE D \subseteq exists /\ \A d \in D : Apart(d, s)
    <2>1. Whole!AddMergeDependency(s, D)
      BY <1>2, <1>3, <1>7, <1>9 DEF Whole!AddMergeDependency, Whole!WouldCreateCycle, Apart
    <2> QED BY <1>8, <2>1 DEF GraphStep, Whole!GraphNext
  <1>10. ASSUME NEW d \in exists, r.sources = Append(row[s].on, d), Apart(d, s)
         PROVE  GraphStep
    <2>1. d \in Streams
      BY <1>4
    <2>2. D = Deps(s) \cup {d}
      <3>1. row[s].on \in Seq(Streams)
        BY DEF GraphTypes, Row
      <3> QED BY <3>1, <2>1, <1>5, <1>10, AppendIs DEF Deps
    <2>3. edges' = edges \cup {<<s, d>>}
      <3> DEFINE N == edges \cup {<<s, d>>}
      <3>1. N \in SUBSET (Streams \X Streams) /\ edges' \in SUBSET (Streams \X Streams)
        BY <1>7, <2>1
      <3>2. ASSUME NEW x \in Streams, NEW y \in Streams PROVE <<x, y>> \in edges' <=> <<x, y>> \in N
        <4>1. CASE x = s
          BY <4>1, <2>2, <1>7
        <4>2. CASE x # s
          BY <4>2, <1>7
        <4> QED BY <4>1, <4>2
      <3>3. PICK M : M = edges'
        OBVIOUS
      <3> HIDE DEF N
      <3>4. M = N
        BY <3>1, <3>2, <3>3, SamePairs
      <3> QED BY <3>3, <3>4 DEF N
    <2>4. Whole!AddDependency(s, d)
      BY <1>2, <1>3, <1>10, <2>3 DEF Whole!AddDependency, Whole!WouldCreateCycle, Apart
    <2> QED BY <2>1, <2>4 DEF GraphStep, Whole!GraphNext
  <1> QED BY <1>2, <1>3, <1>5, <1>8, <1>9, <1>10

LEMMA RemoveWriteIs ==
  ASSUME GraphTypes, GraphTypes', NEW p \in Procs, Knows(proc[p]), RemoveWrite(p)
  PROVE  GraphStep /\ Knows(proc[p])'
  <1>1. PICK r \in Call : r = proc[p]
    BY DEF GraphTypes
  <1>2. /\ r.pc = "remove_write" /\ Return(p) /\ UNCHANGED exists /\ r.stream \in Streams
    BY <1>1 DEF RemoveWrite, At, Knows
  <1>3. PICK s \in Streams : s = r.stream
    BY <1>2
  <1>4. PICK d \in Deps(s) : r.list = RemoveFirst(row[s].on, d)
    BY <1>1, <1>2, <1>3 DEF Knows
  <1>5. row[s].on \in Seq(Streams) /\ row \in [Streams -> Row]
    BY DEF GraphTypes, Row
  <1>6. d \in Streams /\ Deps(s) \subseteq Streams
    BY <1>5, ToSetIs DEF Deps
  <1>7. PICK D : D = ToSet(r.list)
    OBVIOUS
  <1>8. D \subseteq Deps(s) /\ Deps(s) \subseteq D \cup {d}
    BY <1>4, <1>5, <1>7, RemoveFirstIs DEF Deps
  <1>9. ToSet(row'[s].on) = D /\ \A x \in Streams \ {s} : row'[x] = row[x]
    <2>1. CASE r.list = <<>>
      <3>1. row' = [row EXCEPT ![s] = NoRow]
        BY <2>1, <1>1, <1>3 DEF RemoveWrite
      <3>2. row'[s].on = r.list
        BY <3>1, <2>1, <1>5 DEF NoRow
      <3> QED BY <3>1, <3>2, <1>5, <1>7
    <2>2. CASE r.list # <<>>
      <3>1. row[s] # NoRow
        <4> SUFFICES ASSUME row[s] = NoRow PROVE FALSE
          OBVIOUS
        <4>1. row[s].on = <<>>
          BY DEF NoRow
        <4>2. Deps(s) = {}
          BY <4>1 DEF Deps, ToSet
        <4> QED BY <4>2, <1>4
      <3>2. row' = [row EXCEPT ![s].on = r.list]
        BY <2>2, <3>1, <1>1, <1>3 DEF RemoveWrite
      <3>3. row'[s].on = r.list
        BY <3>2, <1>5 DEF Row
      <3> QED BY <3>2, <3>3, <1>5, <1>7
    <2> QED BY <2>1, <2>2
  <1>10. D \in SUBSET Streams
    BY <1>6, <1>8
  <1>11. /\ edges \in SUBSET (Streams \X Streams)
         /\ edges' = {e \in edges : e[1] # s} \cup ({s} \X D)
         /\ \A y \in Streams : <<s, y>> \in edges <=> y \in Deps(s)
    BY <1>9, <1>10, WrittenEdges
  <1>12. Knows(proc[p])'
    <2>1. proc'[p] = Idle
      BY <1>2 DEF Return, Set, GraphTypes
    <2> QED BY <2>1, IdleOK DEF Knows
  <1> HIDE DEF edges
  <1>13. edges' = edges \/ edges' = edges \ {<<s, d>>}
    <2> DEFINE N == IF d \in D THEN edges ELSE edges \ {<<s, d>>}
    <2>1. N \in SUBSET (Streams \X Streams) /\ edges' \in SUBSET (Streams \X Streams)
      BY <1>10, <1>11
    <2>2. ASSUME NEW x \in Streams, NEW y \in Streams PROVE <<x, y>> \in edges' <=> <<x, y>> \in N
      <3>1. CASE x = s
        <4>1. <<x, y>> \in edges' <=> y \in D
          BY <3>1, <1>11
        <4>2. <<x, y>> \in edges <=> y \in Deps(s)
          BY <3>1, <1>11
        <4>3. <<x, y>> = <<s, d>> <=> y = d
          BY <3>1
        <4> QED BY <4>1, <4>2, <4>3, <1>8
      <3>2. CASE x # s
        BY <3>2, <1>11
      <3> QED BY <3>1, <3>2
    <2>3. PICK M : M = edges'
      OBVIOUS
    <2> HIDE DEF N
    <2>4. M = N
      BY <2>1, <2>2, <2>3, SamePairs
    <2> QED BY <2>3, <2>4 DEF N
  <1>14. GraphStep
    <2>1. Whole!RemoveDependency(s, d) \/ UNCHANGED Whole!gvars
      BY <1>2, <1>13 DEF Whole!RemoveDependency, Whole!gvars
    <2> QED BY <2>1, <1>6 DEF GraphStep, Whole!GraphNext
  <1> QED BY <1>12, <1>14

LEMMA QuietGraph ==
  ASSUME UNCHANGED <<exists, row>>
  PROVE  GraphStep
  BY DEF GraphStep, Whole!gvars, edges

LEMMA ArchiveIs ==
  ASSUME GraphTypes, NEW p \in Procs, NEW s \in Here, ArchiveStream(p, s)
  PROVE  GraphStep /\ proc'[p].pc = "idle"
  <1>1. s \in Streams /\ exists' = exists \ {s} /\ UNCHANGED row /\ row[s] = NoRow
    BY HereIs DEF ArchiveStream
  <1>2. Deps(s) = {}
    BY <1>1 DEF Deps, ToSet, NoRow
  <1>3. \A e \in edges : e[1] # s
    BY <1>2, EdgesAre
  <1>4. edges' = edges
    BY <1>1 DEF edges
  <1>5. Whole!ArchiveStream(s)
    BY <1>1, <1>3, <1>4 DEF Whole!ArchiveStream
  <1> QED BY <1>1, <1>5 DEF GraphStep, Whole!GraphNext, ArchiveStream, Free

LEMMA CallIsGraphStep ==
  ASSUME GraphTypes, GraphTypes', NEW p \in Procs, Knows(proc[p]), Calls(p) \/ Step(p)
  PROVE  GraphStep /\ Knows(proc[p])'
  <1>1. ASSUME UNCHANGED <<exists, row>>, Knows(proc'[p]) PROVE GraphStep /\ Knows(proc[p])'
    <2>1. PICK n : n = proc'[p]
      OBVIOUS
    <2>2. Knows(n)'
      BY <1>1, <2>1, KnowsStays
    <2> QED BY <1>1, <2>1, <2>2, QuietGraph
  <1>2. ASSUME NEW s \in Here, NEW d \in Here, NEW type, AddDependency(p, s, d, type)
        PROVE  GraphStep /\ Knows(proc[p])'
    <2>1. <<d>> \in Seq(Streams)
      BY HereIs
    <2> QED BY <2>1, <1>1, <1>2, BeginKnows DEF AddDependency
  <1>3. ASSUME NEW s \in Here, NEW sources \in SourceLists, AddMergeDependency(p, s, sources)
        PROVE  GraphStep /\ Knows(proc[p])'
    <2>1. sources \in Seq(Streams)
      BY SourcesAre, HereIs DEF GraphTypes
    <2> QED BY <2>1, <1>1, <1>3, BeginKnows DEF AddMergeDependency
  <1>4. ASSUME NEW s \in Here, NEW d \in Here, RemoveDependency(p, s, d)
        PROVE  GraphStep /\ Knows(proc[p])'
    <2>1. PICK n \in Call : /\ Set(p, n) /\ n.pc = "remove_write" /\ n.stream = s
                            /\ n.list = RemoveFirst(row[s].on, d)
      BY <1>4, RemoveIs
    <2>2. UNCHANGED <<exists, row>> /\ d \in Deps(s)
      BY <1>4, RemoveIs
    <2>3. proc'[p] = n
      BY <2>1 DEF Set, GraphTypes
    <2>4. Knows(proc'[p])
      BY <2>1, <2>2, <2>3, HereIs DEF Knows
    <2> QED BY <1>1, <2>2, <2>4
  <1>5. ASSUME NEW s \in Here, ArchiveStream(p, s) PROVE GraphStep /\ Knows(proc[p])'
    <2>1. GraphStep /\ proc'[p].pc = "idle"
      BY <1>5, ArchiveIs
    <2> QED BY <2>1 DEF Knows
  <1>6. CASE Search(p)
    BY <1>1, <1>6, SearchKnows
  <1>7. CASE NoCycleFound(p)
    BY <1>1, <1>7, NoCycleKnows
  <1>8. CASE ReadList(p)
    BY <1>1, <1>8, ReadKnows
  <1>9. CASE Upsert(p)
    BY <1>9, UpsertIs
  <1>10. CASE RemoveWrite(p)
    BY <1>10, RemoveWriteIs
  <1> QED BY <1>2, <1>3, <1>4, <1>5, <1>6, <1>7, <1>8, <1>9, <1>10 DEF Calls, Step

-----------------------------------------------------------------------------
(* The invariant of the graph *)

\* Calls that do not overlap keep the graph free of cycles, and each knows what it
\* has searched.
GraphKnown ==
  /\ GraphTypes
  /\ \A p \in Procs \ setting.procs : proc[p].pc = "idle"
  /\ ~ Interleaved => Whole!Acyclic /\ \A p \in Procs : Knows(proc[p])
  /\ Alone => edges \subseteq Built \X Built

LEMMA OthersStay ==
  ASSUME GraphTypes, NEW p \in Procs, Calls(p) \/ Step(p)
  PROVE  \A q \in Procs \ {p} : proc'[q] = proc[q]
  <1>1. ASSUME NEW r, Set(p, r) PROVE \A q \in Procs \ {p} : proc'[q] = proc[q]
    BY <1>1 DEF Set, GraphTypes
  <1>2. \/ \E r : Set(p, r)
        \/ UNCHANGED proc
    BY DEF Calls, Step, AddDependency, AddMergeDependency, Begin, RemoveDependency, ArchiveStream,
           Search, NoCycleFound, ReadList, Upsert, RemoveWrite, Return
  <1> QED BY <1>1, <1>2

LEMMA GraphStepTypes ==
  ASSUME GraphTypes, Whole!Acyclic, GraphStep
  PROVE  Whole!Acyclic'
  <1>1. Whole!GraphTypeOK
    BY EdgesAre, HereIs DEF GraphTypes, Whole!GraphTypeOK
  <1> QED BY <1>1, GraphSoundStep DEF GraphStep, GraphSound

LEMMA GraphStepWithin ==
  ASSUME GraphTypes, Alone, edges \subseteq Built \X Built, GraphStep
  PROVE  edges' \subseteq Built \X Built
  <1>1. exists \subseteq Built
    BY DEF GraphTypes, Here, Alone
  <1> HIDE DEF edges
  <1> QED BY <1>1 DEF GraphStep, Whole!GraphNext, Whole!gvars, Whole!AddDependency, Whole!AddMergeDependency,
             Whole!RemoveDependency, Whole!ArchiveStream

LEMMA GraphKnownStep ==
  ASSUME GraphKnown, [Next]_vars
  PROVE  GraphKnown' /\ (~ Interleaved => GraphStep)
  <1>1. GraphTypes /\ GraphTypes' /\ UNCHANGED setting
    BY GraphTypesStep, StepsOfTheGraph DEF GraphKnown
  <1>2. (Interleaved' <=> Interleaved) /\ (Alone' <=> Alone) /\ (Alone => ~ Interleaved)
    BY <1>1 DEF Interleaved, Alone
  <1>3. CASE UNCHANGED depvars
    <2>1. UNCHANGED <<exists, row, proc>>
      BY <1>3 DEF depvars
    <2>2. UNCHANGED edges
      BY <2>1 DEF edges
    <2>3. \A p \in Procs : Knows(proc[p]) => Knows(proc[p])'
      <3> SUFFICES ASSUME NEW p \in Procs, Knows(proc[p]) PROVE Knows(proc[p])'
        OBVIOUS
      <3>1. PICK n : n = proc[p]
        OBVIOUS
      <3>2. Knows(n)'
        BY <2>1, <3>1, KnowsStays
      <3> QED BY <2>1, <3>1, <3>2
    <2>4. GraphStep
      BY <2>1, QuietGraph
    <2>5. Whole!Acyclic => Whole!Acyclic'
      BY <1>1, <2>4, GraphStepTypes
    <2> HIDE DEF edges
    <2> QED BY <1>1, <1>2, <2>1, <2>2, <2>3, <2>4, <2>5 DEF GraphKnown
  <1>4. ASSUME NEW p \in setting.procs, p \in Procs, Calls(p) \/ Step(p)
        PROVE  GraphKnown' /\ (~ Interleaved => GraphStep)
    <2>1. \A q \in Procs \ {p} : proc'[q] = proc[q]
      BY <1>1, <1>4, OthersStay
    <2>2. \A q \in Procs \ setting'.procs : proc'[q].pc = "idle"
      BY <1>1, <1>4, <2>1 DEF GraphKnown
    <2>3. CASE Interleaved
      BY <1>1, <1>2, <2>2, <2>3 DEF GraphKnown
    <2>4. CASE ~ Interleaved
      <3>1. Knows(proc[p]) /\ Whole!Acyclic
        BY <2>4, <1>4 DEF GraphKnown
      <3>2. GraphStep /\ Knows(proc[p])'
        BY <1>1, <1>4, <3>1, CallIsGraphStep
      <3>3. ASSUME NEW q \in Procs \ {p} PROVE Knows(proc[q])'
        <4>1. q \notin setting.procs
          BY <2>4, <1>4 DEF Interleaved
        <4>2. proc'[q].pc = "idle"
          BY <4>1, <1>1, <2>2
        <4> QED BY <4>2 DEF Knows
      <3>4. \A q \in Procs : Knows(proc[q])'
        BY <3>2, <3>3
      <3>5. Whole!Acyclic'
        BY <1>1, <3>1, <3>2, GraphStepTypes
      <3>6. Alone => edges' \subseteq Built \X Built
        BY <1>1, <3>2, GraphStepWithin DEF GraphKnown
      <3> HIDE DEF edges
      <3> QED BY <1>1, <1>2, <2>2, <3>2, <3>4, <3>5, <3>6 DEF GraphKnown
    <2> QED BY <2>3, <2>4
  <1> QED BY <1>1, <1>3, <1>4, StepsOfTheGraph

\* the streams before s in Order
LEMMA BeforeIs ==
  ASSUME NEW s \in Streams
  PROVE  /\ Before(s) \in SUBSET Streams /\ s \notin Before(s)
         /\ \A t \in Before(s) : Before(t) \subseteq Before(s)
  <1>1. /\ Order \in Seq(Streams) /\ DOMAIN Order = 1 .. Len(Order)
        /\ \A x : x \in Streams => \E i \in 1 .. Len(Order) : Order[i] = x
        /\ \A i, j \in 1 .. Len(Order) : Order[i] = Order[j] => i = j
    <2>1. Order \in Seq(Streams) /\ ToSet(Order) = Streams /\ IsInjective(Order)
      BY DependenciesAssumption
    <2>2. DOMAIN Order = 1 .. Len(Order)
      BY <2>1
    <2>3. \A i, j \in 1 .. Len(Order) : Order[i] = Order[j] => i = j
      BY <2>1, <2>2 DEF IsInjective
    <2>4. \A x : x \in Streams => \E i \in 1 .. Len(Order) : Order[i] = x
      BY <2>1, ToSetIs
    <2> QED BY <2>1, <2>2, <2>3, <2>4
  <1> DEFINE At0(x) == SelectInSeq(Order, LAMBDA t : t = x)
  <1>2. ASSUME NEW x \in Streams
        PROVE  /\ At0(x) \in 1 .. Len(Order) /\ Order[At0(x)] = x
               /\ Before(x) = {Order[i] : i \in 1 .. At0(x) - 1}
    <2>1. \E i \in 1 .. Len(Order) : Order[i] = x
      BY <1>1
    <2>2. At0(x) \in 1 .. Len(Order) /\ Order[At0(x)] = x
      BY <1>1, <2>1, SelectIs
    <2>3. Before(x) = {Order[i] : i \in 1 .. At0(x) - 1}
      BY DEF Before
    <2> QED BY <2>2, <2>3
  <1> HIDE DEF At0
  <1>3. ASSUME NEW x \in Streams, NEW t \in Before(x) PROVE t \in Streams /\ At0(t) < At0(x)
    <2>1. PICK i \in 1 .. At0(x) - 1 : t = Order[i]
      BY <1>2, <1>3
    <2>2. i \in 1 .. Len(Order) /\ t \in Streams
      BY <1>1, <1>2, <2>1
    <2>3. At0(t) = i
      BY <1>1, <1>2, <2>1, <2>2
    <2> QED BY <1>2, <2>1, <2>2, <2>3
  <1>4. s \notin Before(s)
    <2>1. At0(s) \in Nat
      BY <1>2
    <2> QED BY <1>3, <2>1
  <1>5. ASSUME NEW t \in Before(s) PROVE Before(t) \subseteq Before(s)
    <2>1. t \in Streams /\ At0(t) \in Nat /\ At0(s) \in Nat /\ At0(t) < At0(s)
      BY <1>2, <1>3, <1>5
    <2>2. 1 .. At0(t) - 1 \subseteq 1 .. At0(s) - 1
      BY <2>1
    <2> QED BY <1>2, <2>1, <2>2
  <1> QED BY <1>3, <1>4, <1>5

LEMMA GivenRowsAre ==
  ASSUME NEW rows \in GivenRows
  PROVE  /\ rows \in [Streams -> Row] /\ \A s \in Streams : RowOK(rows[s])
         /\ \A s \in Streams : ToSet(rows[s].on) \subseteq Before(s)
  <1> DEFINE Pairs == {e \in Streams \X Streams : e[1] # e[2]}
             Rows == {NoRow} \cup {[on |-> <<d>>, type |-> type] : d \in Streams, type \in {"fork", "merge"}}
                      \cup {[on |-> <<d[1], d[2]>>, type |-> "merge"] : d \in Pairs}
  <1>1. rows \in [Streams -> Rows] /\ \A s \in Streams : ToSet(rows[s].on) \subseteq Before(s)
    BY DEF GivenRows
  <1>2. ASSUME NEW w \in Rows PROVE w \in Row /\ RowOK(w)
    <2>1. CASE w = NoRow
      BY <2>1 DEF NoRow, Row, RowOK
    <2>2. ASSUME NEW d \in Streams, NEW type \in {"fork", "merge"}, w = [on |-> <<d>>, type |-> type]
          PROVE  w \in Row /\ RowOK(w)
      <3> HIDE DEF Rows, Pairs
      <3>1. <<d>> \in Seq(Streams) /\ <<d>> # <<>>
        OBVIOUS
      <3>2. w.on = <<d>> /\ w.type = type
        BY <2>2
      <3>3. PICK k : k = <<d>>
        OBVIOUS
      <3>4. w = [on |-> k, type |-> type]
        BY <2>2, <3>3
      <3>5. w \in Row
        BY <3>1, <3>3, <3>4 DEF Row, Types
      <3> QED BY <3>1, <3>2, <3>5 DEF RowOK, Types
    <2>3. ASSUME NEW d \in Pairs, w = [on |-> <<d[1], d[2]>>, type |-> "merge"]
          PROVE  w \in Row /\ RowOK(w)
      <3>1. PICK k : k = <<d[1], d[2]>>
        OBVIOUS
      <3>2. k \in Seq(Streams)
        BY <3>1
      <3>3. w = [on |-> k, type |-> "merge"]
        BY <2>3, <3>1
      <3>4. w \in Row /\ w.type = "merge"
        BY <3>2, <3>3 DEF Row, Types
      <3> QED BY <3>4 DEF RowOK, Types
    <2> QED BY <2>1, <2>2, <2>3
  <1> HIDE DEF Rows
  <1> QED BY <1>1, <1>2

\* In an order of the streams that puts dependencies first there is no cycle.
LEMMA OrderedIsAcyclic ==
  ASSUME GraphTypes, \A s \in Streams : Deps(s) \subseteq Before(s)
  PROVE  Whole!Acyclic
  <1>1. edges \in SUBSET (Streams \X Streams) /\ \A e \in edges : e[1] \in Streams /\ e[2] \in Deps(e[1])
    BY EdgesAre
  <1>2. ASSUME NEW s \in Streams
        PROVE  \E C \in SUBSET Streams :
                 /\ Whole!Closed(edges, C)
                 /\ \A e \in edges : e[1] = s => e[2] \in C
                 /\ s \notin C
    <2>1. PICK C \in SUBSET Streams : C = Before(s)
      BY BeforeIs
    <2>2. \A t \in C : Deps(t) \subseteq C
      BY <2>1, BeforeIs
    <2>3. Whole!Closed(edges, C)
      BY <2>2, ClosedSet
    <2>4. s \notin C
      BY <2>1, BeforeIs
    <2>5. \A e \in edges : e[1] = s => e[2] \in C
      BY <1>1, <2>1
    <2> QED BY <2>3, <2>4, <2>5
  <1> HIDE DEF edges
  <1>3. PICK E : E = edges
    OBVIOUS
  <1>4. \A e \in E : ~ Whole!Reaches(E, e[2], e[1])
    BY <1>1, <1>2, <1>3, AcyclicFromSets
  <1> QED BY <1>3, <1>4 DEF Whole!Acyclic

LEMMA GraphKnownInit ==
  ASSUME Init
  PROVE  GraphKnown
  <1>1. /\ setting \in Settings /\ exists = Here /\ calls = 0 /\ proc = [p \in Procs |-> Idle]
        /\ row \in GivenRows \/ (~ setting.given /\ row = [s \in Streams |-> NoRow])
    BY DEF Init, DependenciesInit
  <1>2. NoRow \in Row /\ RowOK(NoRow) /\ ToSet(NoRow.on) = {}
    BY DEF Row, RowOK, NoRow, ToSet
  <1>3. /\ row \in [Streams -> Row] /\ \A s \in Streams : RowOK(row[s])
        /\ \A s \in Streams : Deps(s) \subseteq Before(s)
    <2>1. CASE row \in GivenRows
      BY <2>1, GivenRowsAre DEF Deps
    <2>2. CASE row = [s \in Streams |-> NoRow]
      BY <2>2, <1>2 DEF Deps
    <2> QED BY <1>1, <2>1, <2>2
  <1>4. calls \in 0 .. setting.calls
    BY <1>1, DependenciesAssumption
  <1>5. GraphTypes
    BY <1>1, <1>3, <1>4, IdleOK DEF GraphTypes
  <1>6. \A p \in Procs : proc[p].pc = "idle" /\ Knows(proc[p])
    BY <1>1, IdleOK, IdleKnows
  <1>7. Whole!Acyclic
    BY <1>3, <1>5, OrderedIsAcyclic
  <1>8. Alone => edges \subseteq Built \X Built
    <2> HAVE Alone
    <2>1. row = [s \in Streams |-> NoRow]
      BY <1>1 DEF Alone, Init, DependenciesInit
    <2>2. \A s \in Streams : Deps(s) = {}
      BY <2>1, <1>2 DEF Deps
    <2>3. \A e \in edges : FALSE
      BY <1>5, <2>2, EdgesAre
    <2> QED BY <2>3
  <1> QED BY <1>5, <1>6, <1>7, <1>8 DEF GraphKnown

\* Whatever calls and walks do, the graph has its types; calls that do not overlap
\* keep it free of cycles and each knows what it has searched so far.
THEOREM GraphStaysKnown == Spec => []GraphKnown
  <1>1. GraphKnown /\ [Next]_vars => GraphKnown'
    BY GraphKnownStep
  <1> QED BY <1>1, GraphKnownInit, PTL DEF Spec

-----------------------------------------------------------------------------
(* The abstract graph over the streams there are when calls build it *)

\* A set of the streams there are, or of all: it makes no difference to what is reached.
LEMMA SameReach ==
  ASSUME NEW E, E \subseteq Built \X Built, NEW x \in Built, NEW y
  PROVE  Graph!Reaches(E, x, y) <=> Whole!Reaches(E, x, y)
  <1>1. Built \subseteq Streams
    BY DependenciesAssumption
  <1>2. \A C : Graph!Closed(E, C) <=> Whole!Closed(E, C)
    BY DEF Graph!Closed, Whole!Closed
  <1>3. ASSUME Graph!Reaches(E, x, y), NEW C \in SUBSET Streams, x \in C, Whole!Closed(E, C) PROVE y \in C
    <2>1. Graph!Closed(E, C \cap Built)
      BY <1>3 DEF Graph!Closed, Whole!Closed
    <2> QED BY <2>1, <1>3 DEF Graph!Reaches
  <1>4. ASSUME Whole!Reaches(E, x, y), NEW C \in SUBSET Built, x \in C, Graph!Closed(E, C) PROVE y \in C
    BY <1>4, <1>1, <1>2 DEF Whole!Reaches
  <1> QED BY <1>3, <1>4 DEF Graph!Reaches, Whole!Reaches

LEMMA GraphKeptStep ==
  ASSUME GraphKnown, [Next]_vars
  PROVE  [Graph!GraphNext]_(Graph!gvars)
  <1>1. GraphTypes /\ UNCHANGED setting /\ (~ Interleaved => GraphStep)
    BY GraphKnownStep, StepsOfTheGraph DEF GraphKnown
  <1>2. (Alone' <=> Alone) /\ (Alone => ~ Interleaved)
    BY <1>1 DEF Alone, Interleaved
  <1>3. CASE ~ Alone
    <2>1. UNCHANGED Graph!gvars
      BY <1>2, <1>3 DEF Graph!gvars
    <2> QED BY <2>1
  <1>4. CASE Alone
    <2>1. exists \subseteq Built /\ edges \subseteq Built \X Built
      BY <1>1, <1>4 DEF GraphKnown, GraphTypes, Here, Alone
    <2>2. GraphStep
      BY <1>1, <1>2, <1>4
    <2>3. PICK E : E = edges
      OBVIOUS
    <2> HIDE DEF edges
    <2>4. ASSUME UNCHANGED <<exists, edges>> PROVE UNCHANGED Graph!gvars
      BY <2>4, <1>2, <1>4 DEF Graph!gvars
    <2>5. ASSUME NEW s \in Streams, NEW d \in Streams, Whole!AddDependency(s, d) PROVE Graph!GraphNext
      <3>1. {s, d} \subseteq exists /\ ~ Whole!Reaches(E, d, s) /\ edges' = E \cup {<<s, d>>} /\ UNCHANGED exists
        BY <2>3, <2>5 DEF Whole!AddDependency, Whole!WouldCreateCycle
      <3>2. s \in Built /\ d \in Built /\ ~ Graph!Reaches(E, d, s)
        BY <2>1, <2>3, <3>1, SameReach
      <3>3. Graph!AddDependency(s, d)
        BY <1>2, <1>4, <2>3, <3>1, <3>2 DEF Graph!AddDependency, Graph!WouldCreateCycle
      <3> QED BY <3>2, <3>3 DEF Graph!GraphNext
    <2>6. ASSUME NEW s \in Streams, NEW d \in Streams, Whole!RemoveDependency(s, d)
          PROVE  Graph!GraphNext \/ UNCHANGED Graph!gvars
      <3>1. edges' = E \ {<<s, d>>} /\ UNCHANGED exists
        BY <2>3, <2>6 DEF Whole!RemoveDependency
      <3>2. CASE s \in Built /\ d \in Built
        <4>1. Graph!RemoveDependency(s, d)
          BY <1>2, <1>4, <2>3, <3>1 DEF Graph!RemoveDependency
        <4> QED BY <4>1, <3>2 DEF Graph!GraphNext
      <3>3. CASE ~ (s \in Built /\ d \in Built)
        <4>1. edges' = edges
          BY <2>1, <2>3, <3>1, <3>3
        <4> QED BY <2>4, <3>1, <4>1
      <3> QED BY <3>2, <3>3
    <2>7. ASSUME NEW s \in Streams, NEW D \in SUBSET Streams, Whole!AddMergeDependency(s, D) PROVE Graph!GraphNext
      <3>1. /\ D \cup {s} \subseteq exists /\ \A d \in D : ~ Whole!Reaches(E, d, s)
            /\ edges' = {e \in E : e[1] # s} \cup ({s} \X D) /\ UNCHANGED exists
        BY <2>3, <2>7 DEF Whole!AddMergeDependency, Whole!WouldCreateCycle
      <3>2. s \in Built /\ D \in SUBSET Built /\ \A d \in D : ~ Graph!Reaches(E, d, s)
        BY <2>1, <2>3, <3>1, SameReach
      <3>3. Graph!AddMergeDependency(s, D)
        BY <1>2, <1>4, <2>3, <3>1, <3>2 DEF Graph!AddMergeDependency, Graph!WouldCreateCycle
      <3> QED BY <3>2, <3>3 DEF Graph!GraphNext
    <2>8. ASSUME NEW s \in Streams, Whole!ArchiveStream(s) PROVE Graph!GraphNext \/ UNCHANGED Graph!gvars
      <3>1. (\A e \in edges : e[1] # s) /\ exists' = exists \ {s} /\ UNCHANGED edges
        BY <2>8 DEF Whole!ArchiveStream
      <3>2. CASE s \in Built
        <4>1. Graph!ArchiveStream(s)
          BY <1>2, <1>4, <3>1 DEF Graph!ArchiveStream
        <4> QED BY <4>1, <3>2 DEF Graph!GraphNext
      <3>3. CASE s \notin Built
        <4>1. exists' = exists
          BY <2>1, <3>1, <3>3
        <4> QED BY <2>4, <3>1, <4>1
      <3> QED BY <3>2, <3>3
    <2>9. CASE UNCHANGED Whole!gvars
      BY <2>4, <2>9 DEF Whole!gvars
    <2> QED BY <2>2, <2>5, <2>6, <2>7, <2>8, <2>9 DEF GraphStep, Whole!GraphNext
  <1> QED BY <1>3, <1>4

LEMMA GraphKeptInit ==
  ASSUME Init
  PROVE  Graph!GraphInit
  <1>1. ASSUME Alone PROVE exists = Built /\ edges = {}
    <2>1. exists = Built /\ row = [s \in Streams |-> NoRow]
      BY <1>1 DEF Init, DependenciesInit, Here, Alone
    <2>2. \A s \in Streams : ToSet(row[s].on) = {}
      BY <2>1 DEF NoRow, ToSet
    <2>3. \A e \in edges : FALSE
      BY <2>2 DEF edges
    <2> QED BY <2>1, <2>3
  <1> HIDE DEF edges
  <1> QED BY <1>1 DEF Graph!GraphInit

\* addDependency, addForkDependency, addMergeDependency, removeDependency and
\* archiveStream, each a search and a write in steps of their own, do to the
\* dependencies what the abstract graph does in one step, for any streams, when
\* one process calls them.
THEOREM GraphRefined == Spec => GraphKept
  <1>1. GraphKnown /\ [Next]_vars => [Graph!GraphNext]_(Graph!gvars)
    BY GraphKeptStep
  <1> QED BY <1>1, GraphKeptInit, GraphStaysKnown, PTL DEF Spec, GraphKept, Graph!GraphSpec

-----------------------------------------------------------------------------
(* What a search finds, and what the sort gives *)

LEMMA TypesAreRight ==
  ASSUME GraphKnown
  PROVE  DependenciesTypeOK
  <1>1. GraphTypes
    BY DEF GraphKnown
  <1>2. exists \subseteq Streams /\ calls \in 0 .. setting.calls
    BY <1>1, HereIs DEF GraphTypes
  <1>3. ASSUME NEW s \in Streams
        PROVE  /\ row[s] = NoRow \/ row[s].type \in Types
               /\ row[s].on \in Seq(Streams)
               /\ row[s].on = <<>> => row[s].type \in {"none", "merge"}
    <2>1. row[s] \in Row /\ RowOK(row[s])
      BY <1>1 DEF GraphTypes
    <2> QED BY <2>1 DEF Row, RowOK
  <1>4. ASSUME NEW p \in Procs
        PROVE  /\ proc[p].pc \in Pcs
               /\ proc[p].pc # "idle" => proc[p].stream \in Streams
               /\ proc[p].visited \subseteq Streams
               /\ ToSet(proc[p].stack) \subseteq Streams
               /\ proc[p].pc = "search" => proc[p].at \in 1 .. Len(proc[p].sources)
    <2>1. PICK r \in Call : r = proc[p] /\ CallOK(r)
      BY <1>1 DEF GraphTypes
    <2>2. r.stack \in Seq(Streams)
      BY <2>1 DEF Call
    <2>3. ToSet(r.stack) \subseteq Streams
      BY <2>2, ToSetIs
    <2> QED BY <2>1, <2>3, HereIs DEF Call, CallOK
  <1> QED BY <1>2, <1>3, <1>4 DEF DependenciesTypeOK

LEMMA SearchIsRight ==
  ASSUME GraphKnown
  PROVE  SearchComplete /\ SearchSound
  <1>1. GraphTypes
    BY DEF GraphKnown
  <1> SUFFICES ASSUME NEW p \in Procs, Alone, At(p, "search")
      PROVE  /\ proc[p].stack = <<>> => ~ Graph!Reaches(edges, proc[p].sources[proc[p].at], proc[p].stream)
             /\ \A i \in 1 .. Len(proc[p].stack) :
                  Graph!Reaches(edges, proc[p].sources[proc[p].at], proc[p].stack[i])
    BY DEF SearchComplete, SearchSound
  <1>2. PICK r \in Call : r = proc[p] /\ CallOK(r) /\ r.pc = "search"
    BY <1>1 DEF GraphTypes, At
  <1>3. Knows(r) /\ edges \subseteq Built \X Built /\ exists \subseteq Built
    BY <1>1, <1>2 DEF GraphKnown, GraphTypes, Alone, Interleaved, Here
  <1> HIDE DEF edges
  <1>4. PICK E : E = edges
    OBVIOUS
  <1>5. PICK k \in Seq(Streams) : k = r.sources
    BY <1>2 DEF Call
  <1>6. PICK l \in Seq(Streams) : l = r.stack
    BY <1>2 DEF Call
  <1>7. PICK x : x = k[r.at]
    OBVIOUS
  <1>8. x \in Built
    <2>1. r.at \in 1 .. Len(k) /\ ToSet(k) \subseteq exists
      BY <1>2, <1>3, <1>5 DEF CallOK, Knows, Searching
    <2>2. x \in ToSet(k)
      BY <2>1, <1>7, ToSetIs
    <2> QED BY <2>1, <2>2, <1>3
  <1>9. l = <<>> => ~ Graph!Reaches(E, x, r.stream)
    <2> HAVE l = <<>>
    <2>1. ~ Whole!Reaches(E, x, r.stream)
      BY <1>1, <1>2, <1>3, <1>4, <1>5, <1>6, <1>7, NotFound DEF Apart
    <2> QED BY <2>1, <1>3, <1>4, <1>8, SameReach
  <1>10. \A i \in 1 .. Len(l) : Graph!Reaches(E, x, l[i])
    <2> TAKE i \in 1 .. Len(l)
    <2>1. PICK y : y = l[i]
      OBVIOUS
    <2>2. y \in ToSet(l)
      BY <2>1, ToSetIs
    <2>3. Whole!Reaches(E, x, y)
      BY <2>2, <1>2, <1>3, <1>4, <1>5, <1>6, <1>7 DEF Knows, Searching
    <2>4. Graph!Reaches(E, x, y)
      BY <2>3, <1>3, <1>4, <1>8, SameReach
    <2> QED BY <2>1, <2>4
  <1> QED BY <1>2, <1>4, <1>5, <1>6, <1>7, <1>9, <1>10

LEMMA ArrangementsAre ==
  ASSUME NEW S \in SUBSET Streams, NEW ids \in Arrangements[S]
  PROVE  ids \in Seq(S) /\ IsInjective(ids)
  <1>1. PICK s \in SUBSET S : ids \in SetToSeqs(s)
    BY DEF Arrangements, SetToAllKPermutations
  <1>2. PICK n : n = Cardinality(s)
    OBVIOUS
  <1>3. n \in Nat
    <2>1. IsFiniteSet(s)
      BY StreamsFinite, FS_Subset
    <2> QED BY <2>1, <1>2, FS_CardinalityType
  <1>4. ids \in [1 .. n -> s] /\ \A i, j \in 1 .. n : i # j => ids[i] # ids[j]
    BY <1>1, <1>2 DEF SetToSeqs
  <1>5. ids \in Seq(S) /\ DOMAIN ids = 1 .. n
    BY <1>3, <1>4
  <1> QED BY <1>4, <1>5 DEF IsInjective

LEMMA SortIsRight ==
  ASSUME GraphKnown
  PROVE  SortInv
  <1>1. GraphTypes
    BY DEF GraphKnown
  <1>2. PICK on : on = On
    OBVIOUS
  <1>3. \A s \in Streams : on[s] \in Seq(Streams)
    BY <1>1, <1>2 DEF On, GraphTypes, Row
  <1>4. ASSUME NEW ids \in Arrangements[Here]
        PROVE  /\ DependenciesFirst(Sorted(ids, on), ids, on)
               /\ ThrowsOnCycles(ids, on, {C \in SUBSET Here : Knot(C, on)})
    <2>1. ids \in Seq(Here) /\ IsInjective(ids)
      BY HereIs, ArrangementsAre
    <2>2. ids \in Seq(Streams) /\ ToSet(ids) \subseteq Here
      BY <2>1, HereIs, ToSetIs
    <2>3. PICK r : r = Sorted(ids, on)
      OBVIOUS
    <2>4. /\ \A i \in 1 .. Len(r) : \A d \in ToSet(on[r[i]]) \cap ToSet(ids) :
               \E j \in 1 .. i - 1 : r[j] = d
          /\ Len(r) # Len(ids) => \E C \in SUBSET ToSet(ids) : Knot(C, on)
      BY <1>3, <2>1, <2>2, <2>3, SortedIs
    <2>5. \A C \in SUBSET ToSet(ids) : Knot(C, on) => Len(r) # Len(ids)
      BY <1>3, <2>1, <2>2, <2>3, KnotsStop
    <2>6. Throws(ids, on) <=> Len(r) # Len(ids)
      BY <2>3 DEF Throws
    <2>7. Len(r) # Len(ids) <=> \E C \in {D \in SUBSET Here : Knot(D, on)} : C \subseteq ToSet(ids)
      BY <2>2, <2>4, <2>5
    <2> QED BY <2>3, <2>4, <2>6, <2>7 DEF DependenciesFirst, ThrowsOnCycles
  <1> QED BY <1>2, <1>4 DEF SortInv

\* A graph call that searches is refused just when its dependency would close a
\* cycle, and topologicalSort puts dependencies first, or throws just when there
\* is a cycle, for any streams and any graph that calls can make.
THEOREM GraphIsSearchedAndSorted == Spec => []GraphInv
  <1>1. GraphKnown => GraphInv
    BY TypesAreRight, SearchIsRight, SortIsRight DEF GraphInv, SearchInv
  <1> QED BY <1>1, GraphStaysKnown, PTL

LEMMA CallsReturnStep ==
  ASSUME GraphTypes, NEW p \in Procs, Calls(p) \/ Step(p), proc[p].pc # "idle", proc'[p] # proc[p]
  PROVE  Nearer(proc[p], proc'[p])
  <1>1. PICK r \in Call : r = proc[p] /\ CallOK(r) /\ r.pc # "idle"
    BY DEF GraphTypes
  <1>2. ~ Calls(p)
    BY <1>1 DEF Calls, AddDependency, AddMergeDependency, Begin, RemoveDependency, ArchiveStream, Free
  <1>3. ASSUME Return(p) PROVE Nearer(proc[p], proc'[p])
    <2>1. proc'[p] = Idle
      BY <1>3 DEF Return, Set, GraphTypes
    <2> QED BY <2>1, IdleOK DEF Nearer
  <1>4. CASE Search(p)
    <2>1. PICK c : c = Last(r.stack)
      OBVIOUS
    <2>2. CASE c = r.stream
      BY <2>1, <2>2, <1>1, <1>3, <1>4 DEF Search
    <2>3. CASE c # r.stream
      <3>1. PICK n : n = Expand(p, c)
        OBVIOUS
      <3>2. proc'[p] = n
        BY <1>1, <1>4, <2>1, <2>3, <3>1 DEF Search, Set, GraphTypes
      <3>3. r = proc[p] /\ At(p, "search") /\ proc[p].stack # <<>> /\ c = Last(r.stack) /\ r.pc = "search"
        BY <1>1, <1>4, <2>1 DEF Search, At
      <3>4. n \in Call /\ n.pc = r.pc /\ n.at = r.at /\ n.visited = r.visited \cup {c}
        BY <3>1, <3>3, ExpandIs
      <3>5. PICK f \in Seq(Streams) : Popped(r, n, c, f)
        BY <3>1, <3>3, ExpandIs
      <3>6. CASE c \in r.visited
        <4>1. n.visited = r.visited
          BY <3>4, <3>6
        <4>2. n.stack = f /\ Len(r.stack) = Len(f) + 1 /\ Len(f) \in Nat
          BY <3>5, <3>6 DEF Popped
        <4>3. Len(n.stack) < Len(r.stack)
          BY <4>2
        <4> QED BY <3>2, <3>3, <3>4, <4>1, <4>3 DEF Nearer
      <3>7. CASE c \notin r.visited
        BY <3>2, <3>3, <3>4, <3>7 DEF Nearer
      <3> QED BY <3>6, <3>7
    <2> QED BY <2>2, <2>3
  <1>5. CASE NoCycleFound(p)
    <2>1. PICK n \in Call : Set(p, n) /\ NoneFound(r, n)
      BY <1>1, <1>5, NoCycleIs
    <2>2. proc'[p] = n /\ r.pc = "search" /\ r.at \in Nat
      BY <2>1, <1>1, <1>5 DEF Set, GraphTypes, NoCycleFound, At, Call
    <2>3. (n.pc = "search" /\ n.at = r.at + 1) \/ n.pc = "read" \/ n.pc = "write"
      BY <2>1 DEF NoneFound
    <2> QED BY <1>1, <2>2, <2>3 DEF Nearer, Phase
  <1>6. CASE ReadList(p)
    <2>1. Return(p) \/ \E n \in Call : Set(p, n) /\ n.pc = "write"
      <3>1. Return(p) \/ \E n \in Call : Set(p, n) /\ ListRead(r, n)
        BY <1>1, <1>6, ReadIs
      <3> QED BY <3>1 DEF ListRead
    <2>2. r.pc = "read"
      BY <1>1, <1>6 DEF ReadList, At
    <2>3. ASSUME NEW n \in Call, Set(p, n), n.pc = "write" PROVE Nearer(proc[p], proc'[p])
      <3>1. proc'[p] = n
        BY <2>3 DEF Set, GraphTypes
      <3> QED BY <1>1, <2>2, <2>3, <3>1 DEF Nearer, Phase
    <2> QED BY <1>3, <2>1, <2>3
  <1>7. CASE Upsert(p) \/ RemoveWrite(p)
    BY <1>3, <1>7 DEF Upsert, RemoveWrite
  <1> QED BY <1>2, <1>4, <1>5, <1>6, <1>7 DEF Step

\* Every step of a call on the graph brings it nearer to its return, for any
\* number of processes and whatever they do to the graph meanwhile.
THEOREM CallsDoReturn == Spec => CallsReturn
  <1>1. GraphKnown /\ [Next]_vars =>
          [\A p \in Procs : proc[p].pc # "idle" /\ proc'[p] # proc[p] => Nearer(proc[p], proc'[p])]_proc
    <2> SUFFICES ASSUME GraphKnown, [Next]_vars
        PROVE  \A p \in Procs : proc[p].pc # "idle" /\ proc'[p] # proc[p] => Nearer(proc[p], proc'[p])
      OBVIOUS
    <2>1. GraphTypes
      BY DEF GraphKnown
    <2>2. CASE UNCHANGED depvars
      BY <2>2 DEF depvars
    <2>3. ASSUME NEW q \in Procs, Calls(q) \/ Step(q)
          PROVE  \A p \in Procs : proc[p].pc # "idle" /\ proc'[p] # proc[p] => Nearer(proc[p], proc'[p])
      <3> TAKE p \in Procs
      <3> HAVE proc[p].pc # "idle" /\ proc'[p] # proc[p]
      <3>1. p = q
        BY <2>1, <2>3, OthersStay
      <3> QED BY <2>1, <2>3, <3>1, CallsReturnStep
    <2> QED BY <2>1, <2>2, <2>3, StepsOfTheGraph
  <1> QED BY <1>1, GraphStaysKnown, PTL DEF Spec, CallsReturn

-----------------------------------------------------------------------------
(* The invariant of a walk.  Each part says of r, the call that runs or ran *)
(* last, what the next stream needs.                                        *)

Going(r) == r.mode \in {"cascade", "resume"}
Handled(r) == r.updated \cup r.failed \cup r.skipped \cup r.deferred
Stopping(r) == r.strategy = "stop_on_conflict"

\* the streams to come: each once, and none that has been dealt with
Coming(r) ==
  /\ IsInjective(r.left) /\ ToSet(r.left) \subseteq r.dependents
  /\ ToSet(r.left) \cap (Handled(r) \cup r.resolved \cup r.still) = {}
  /\ r.mode = "returned" => r.left = <<>>
  /\ r.mode = "cascade" => ~ r.resumed
  /\ r.mode = "resume" => r.resumed

\* every stream of the call is to come or has one result
Reported(r) ==
  /\ Going(r) \/ (r.mode = "returned" /\ (Stopping(r) => r.failed = {})) =>
       r.dependents \subseteq ToSet(r.left) \cup Handled(r)
  /\ ~ r.resumed =>
       /\ r.resolved = {} /\ r.still = {} /\ Handled(r) \subseteq r.dependents
       /\ r.updated \cap (r.failed \cup r.skipped \cup r.deferred) = {}
       /\ r.skipped \cap (r.failed \cup r.deferred) = {}

\* a call that is to stop at the first failure has met none, or has stopped
Stopped(r) ==
  Stopping(r) =>
    /\ ~ r.resumed => r.skipped = {} /\ r.deferred = {}
    /\ r.same \/ ~ r.resumed => r.failed = {} \/ (~ Going(r) /\ \E s \in Streams : r.failed = {s})

\* a stream to come depends on none that comes after it
Ordered(r) ==
  r.same => \A i, j \in 1 .. Len(r.left) : r.left[j] \in Deps(r.left[i]) => j < i

\* what was rebased depends on nothing that is to come, or that has failed
HeldBack(r) ==
  r.same => \A s \in r.updated \ r.resolved :
    Deps(s) \cap (r.failed \cup (r.deferred \ r.updated) \cup r.still \cup ToSet(r.left)) = {}

\* a stream to come has a dependency that the call is about
Bases(r) == r.dependents \cup (IF r.mode = "cascade" THEN {Root} ELSE r.resolved \cup r.still)
Based(r) == r.same /\ Going(r) => \A s \in ToSet(r.left) : Deps(s) \cap Bases(r) # {}

\* while nothing has gone wrong, what was rebased has the root's new commits
Current(r) ==
  r.same /\ r.failed = {} /\ r.skipped = {} /\ r.deferred = {} => r.updated \cup r.resolved \subseteq fresh

\* a deferred stream that is not conflicted any more was rebased by hand
ByHand(r) == setting.byHand => \A s \in r.deferred \cup r.still : status[s] = "conflicted" \/ s \in fresh

WalkKnown ==
  /\ Coming(walk) /\ Reported(walk) /\ Stopped(walk)
  /\ Ordered(walk) /\ HeldBack(walk) /\ Based(walk)
  /\ Root \in fresh /\ ByHand(walk)
  /\ (setting.resumes => setting.byHand) => Current(walk)
  /\ TypeOK /\ CycleOnlyByRace

-----------------------------------------------------------------------------
(* What a new call finds *)

\* A dependent of some streams depends on one of them or on another dependent.
LEMMA DependentsHaveBase ==
  ASSUME NEW S, NEW s \in DependentsOf(S)
  PROVE  s \in Streams /\ Deps(s) \cap (S \cup DependentsOf(S)) # {}
  <1> DEFINE D == DependentsOf(S)  C == D \ {s}
  <1>1. D \subseteq Streams /\ s \in D
    BY DEF DependentsOf
  <1>2. ASSUME NEW t \in Streams, Deps(t) \cap (S \cup D) # {} PROVE t \in D
    <2> SUFFICES ASSUME NEW B \in SUBSET Streams, \A u \in Streams : Deps(u) \cap (S \cup B) # {} => u \in B
        PROVE  t \in B
      BY DEF DependentsOf
    <2>1. D \subseteq B
      BY DEF DependentsOf
    <2> QED BY <2>1, <1>2
  <1>3. SUFFICES ASSUME Deps(s) \cap (S \cup D) = {} PROVE FALSE
    BY <1>1
  <1>4. \A t \in Streams : Deps(t) \cap (S \cup C) # {} => t \in C
    BY <1>2, <1>3
  <1>5. C \in SUBSET Streams
    BY <1>1
  <1>6. s \in C
    <2> HIDE DEF C
    <2> QED BY <1>4, <1>5 DEF DependentsOf
  <1> QED BY <1>6

\* In a graph without cycles no set of streams depends on itself: its stream that
\* reaches least would reach as much as one it depends on.
LEMMA NoKnot ==
  ASSUME GraphTypes, Whole!Acyclic, NEW C \in SUBSET Streams, Knot(C, On)
  PROVE  FALSE
  <1> DEFINE Reached(s) == {y \in Streams : Whole!Reaches(edges, s, y)}
             Sets == {Reached(s) : s \in C}
  <1>1. \A s \in C : \E d \in C : d \in Deps(s)
    BY DEF Knot, On, Deps
  <1>2. Sets \subseteq FiniteSubsetsOf(Streams) /\ Sets # {}
    <2>1. \A s \in C : Reached(s) \in SUBSET Streams
      OBVIOUS
    <2>2. \A s \in C : IsFiniteSet(Reached(s))
      BY <2>1, StreamsFinite, FS_Subset
    <2>3. C # {}
      BY DEF Knot
    <2> QED BY <2>1, <2>2, <2>3 DEF FiniteSubsetsOf
  <1>3. PICK M \in Sets : \A N \in Sets : ~ (<<N, M>> \in StrictSubsetOrdering(Streams))
    <2> HIDE DEF Sets
    <2> QED BY <1>2, FS_StrictSubsetOrderingWellFounded, WFMin
  <1>4. PICK s \in C : M = Reached(s)
    OBVIOUS
  <1>5. PICK d \in C : d \in Deps(s)
    BY <1>1
  <1>6. <<s, d>> \in edges
    BY <1>5, EdgesAre
  <1>7. PICK N : N = Reached(d)
    OBVIOUS
  <1>8. N \in Sets
    BY <1>7
  <1>9. PICK E : E = edges
    OBVIOUS
  <1> HIDE DEF edges, Sets
  <1>10. N \subseteq M
    <2> SUFFICES ASSUME NEW y \in N PROVE y \in M
      OBVIOUS
    <2>1. y \in Streams /\ Whole!Reaches(E, d, y)
      BY <1>7, <1>9
    <2>2. <<s, d>>[1] = s /\ <<s, d>>[2] = d
      OBVIOUS
    <2>3. Whole!Reaches(E, s, y)
      BY <2>1, <2>2, <1>6, <1>9 DEF Whole!Reaches, Whole!Closed
    <2> QED BY <2>1, <2>3, <1>4, <1>9
  <1>11. s \in M
    BY <1>4 DEF Whole!Reaches
  <1>12. s \notin N
    <2> SUFFICES ASSUME s \in N PROVE FALSE
      OBVIOUS
    <2>1. Whole!Reaches(edges, d, s)
      BY <1>7
    <2>2. <<s, d>>[1] = s /\ <<s, d>>[2] = d
      OBVIOUS
    <2> QED BY <2>1, <2>2, <1>6 DEF Whole!Acyclic
  <1>13. M \in SUBSET Streams /\ N \in SUBSET Streams
    BY <1>4, <1>7
  <1>14. <<N, M>> \in StrictSubsetOrdering(Streams)
    BY <1>10, <1>11, <1>12, <1>13 DEF StrictSubsetOrdering
  <1> QED BY <1>3, <1>8, <1>14

LEMMA FirstInIs ==
  ASSUME NEW T, NEW list \in Seq(T), NEW S, ToSet(list) \cap S # {}
  PROVE  FirstIn(list, S) \in ToSet(list) \cap S
  <1> DEFINE I == {i \in 1 .. Len(list) : list[i] \in S}
  <1>1. I \in SUBSET Nat /\ I # {}
    BY ToSetIs
  <1>2. PICK k \in I : \A j \in I : k <= j
    <2> HIDE DEF I
    <2> QED BY <1>1, LeastOf
  <1>3. k \in 1 .. Len(list) /\ list[k] \in S /\ \A j \in 1 .. k - 1 : list[j] \notin S
    BY <1>2
  <1> DEFINE c == CHOOSE i \in 1 .. Len(list) : list[i] \in S /\ \A j \in 1 .. i - 1 : list[j] \notin S
  <1>4. c \in 1 .. Len(list) /\ list[c] \in S
    BY <1>3
  <1>5. FirstIn(list, S) = list[c]
    BY DEF FirstIn
  <1> HIDE DEF c
  <1> QED BY <1>4, <1>5, ToSetIs

\* The record of a new call
NewCall(w, mode, strategy, ids) ==
  /\ (w.mode = "threw" /\ w.why = "cycle" /\ ids # <<>> /\ \E C \in SUBSET Streams : Knot(C, On))
     \/ (w.why = "none" /\ ToSet(w.left) = ToSet(ids)
         /\ (ids # <<>> => w.mode = mode) /\ (ids = <<>> => w.mode = "returned" /\ w.left = <<>>))
  /\ w.resumed = (mode = "resume") /\ w.strategy = strategy /\ w.dependents = ToSet(ids)
  /\ IsInjective(w.left) /\ ToSet(w.left) \subseteq ToSet(ids)
  /\ w.same = TRUE /\ w.resolved = {} /\ w.still = {}
  /\ w.updated = {} /\ w.failed = {} /\ w.skipped = {} /\ w.deferred = {}
  /\ \A i, j \in 1 .. Len(w.left) : w.left[j] \in Deps(w.left[i]) => j < i

LEMMA NewWalkIs ==
  ASSUME GraphTypes, NEW mode \in Modes, mode \in {"idle", "cascade", "resume"},
         NEW strategy \in setting.strategies \cup {"none"},
         NEW ids \in Seq(Streams), IsInjective(ids), NEW w, w = NewWalk(mode, strategy, ids)
  PROVE  w \in Walk /\ NewCall(w, mode, strategy, ids)
  <1>1. PICK on : on = On
    OBVIOUS
  <1>2. \A s \in Streams : on[s] \in Seq(Streams) /\ ToSet(on[s]) = Deps(s)
    BY <1>1 DEF On, GraphTypes, Row, Deps
  <1>3. PICK l : l = Sorted(ids, on)
    OBVIOUS
  <1>4. /\ l \in Seq(ToSet(ids)) /\ IsInjective(l)
        /\ \A i \in 1 .. Len(l) : \A d \in ToSet(on[l[i]]) \cap ToSet(ids) :
             \E j \in 1 .. i - 1 : l[j] = d
        /\ Len(l) = Len(ids) => ToSet(l) = ToSet(ids)
        /\ Len(l) # Len(ids) => \E C \in SUBSET ToSet(ids) : Knot(C, on)
    BY <1>2, <1>3, SortedIs
  <1>5. PICK I \in SUBSET Streams : I = ToSet(ids)
    BY ToSetIs
  <1>6. l \in Seq(I) /\ l \in Seq(Streams) /\ ToSet(l) \subseteq I
    BY <1>4, <1>5, ToSetIs
  <1>7. PICK cyclic \in BOOLEAN : cyclic = (Len(l) # Len(ids))
    OBVIOUS
  <1>8. PICK m : m = IF ids = <<>> THEN "returned" ELSE IF cyclic THEN "threw" ELSE mode
    OBVIOUS
  <1>9. PICK why : why = IF cyclic THEN "cycle" ELSE "none"
    OBVIOUS
  <1>10. w = [mode |-> m, why |-> why, resumed |-> mode = "resume",
              strategy |-> strategy, dependents |-> I, left |-> l,
              resolved |-> {}, still |-> {}, same |-> TRUE,
              updated |-> {}, failed |-> {}, skipped |-> {}, deferred |-> {}]
    BY <1>1, <1>3, <1>5, <1>7, <1>8, <1>9 DEF NewWalk
  <1>11. m \in Modes /\ why \in {"none", "cycle", "status", "diamond", "git"}
    BY <1>8, <1>9 DEF Modes
  <1>12. w \in Walk
    BY <1>6, <1>10, <1>11 DEF Walk
  <1>13. /\ w.mode = m /\ w.why = why /\ w.left = l
         /\ w.resumed = (mode = "resume") /\ w.strategy = strategy /\ w.dependents = I
         /\ w.same = TRUE /\ w.resolved = {} /\ w.still = {}
         /\ w.updated = {} /\ w.failed = {} /\ w.skipped = {} /\ w.deferred = {}
    BY <1>10
  <1>14. cyclic => I # {} /\ \E C \in SUBSET Streams : Knot(C, On)
    BY <1>1, <1>4, <1>5, <1>7 DEF Knot
  <1>15. ids = <<>> => I = {} /\ l = <<>>
    <2> HAVE ids = <<>>
    <2>1. I = {}
      BY <1>5 DEF ToSet
    <2>2. Len(l) = 0
      BY <2>1, <1>7, <1>14
    <2> QED BY <2>1, <2>2, <1>6
  <1>16. ASSUME NEW i \in 1 .. Len(l), NEW j \in 1 .. Len(l), l[j] \in Deps(l[i]) PROVE j < i
    <2>1. l[i] \in Streams /\ l[j] \in I /\ Len(l) \in Nat
      BY <1>6, ToSetIs
    <2>2. l[j] \in ToSet(on[l[i]]) \cap ToSet(ids)
      BY <2>1, <1>2, <1>5, <1>16
    <2>3. PICK k \in 1 .. i - 1 : l[k] = l[j]
      BY <2>2, <1>4
    <2>4. k \in 1 .. Len(l) /\ DOMAIN l = 1 .. Len(l)
      BY <2>1, <2>3, <1>6, ToSetIs
    <2>5. k = j
      BY <2>3, <2>4, <1>4 DEF IsInjective
    <2> QED BY <2>3, <2>5
  <1>17. IF cyclic THEN m = "threw" /\ why = "cycle" /\ ids # <<>>
         ELSE why = "none" /\ ToSet(l) = I /\ m = IF ids = <<>> THEN "returned" ELSE mode
    BY <1>4, <1>5, <1>7, <1>8, <1>9, <1>14, <1>15
  <1> QED BY <1>4, <1>5, <1>6, <1>12, <1>13, <1>14, <1>15, <1>16, <1>17 DEF NewCall

-----------------------------------------------------------------------------
(* Steps of the walk *)

Statuses == {"active", "paused", "conflicted"}

LEMMA WalkMoves ==
  ASSUME UNCHANGED <<setting, row>>, NEW n, n = walk', n \in Walk, n.mode = "threw" <=> n.why # "none",
         n.why = "cycle" => Interleaved,
         Coming(n), Reported(n), Stopped(n), Ordered(n), HeldBack(n), Based(n),
         fresh' \subseteq Streams, Root \in fresh', status' \in [Streams -> Statuses],
         turns' \in 0 .. setting.turns, ByHand(n)', (setting.resumes => setting.byHand) => Current(n)'
  PROVE  WalkKnown'
  <1>1. TypeOK'
    <2>1. walk' \in Walk'
      BY DEF Walk
    <2> QED BY <2>1 DEF TypeOK, Statuses
  <1>2. Coming(walk)' /\ Reported(walk)' /\ Stopped(walk)'
    <2>1. Coming(walk)'
      BY DEF Coming, Handled
    <2>2. Reported(walk)'
      BY DEF Reported, Handled, Going, Stopping
    <2>3. Stopped(walk)'
      BY DEF Stopped, Going, Stopping
    <2> QED BY <2>1, <2>2, <2>3
  <1>3. Ordered(walk)' /\ HeldBack(walk)' /\ Based(walk)'
    <2>1. Ordered(walk)'
      BY DEF Ordered, Deps
    <2>2. HeldBack(walk)'
      BY DEF HeldBack, Deps
    <2>3. Based(walk)'
      BY DEF Based, Bases, Going, Deps
    <2> QED BY <2>1, <2>2, <2>3
  <1>4. ByHand(walk)' /\ ((setting.resumes => setting.byHand)' => Current(walk)')
    BY DEF ByHand, Current
  <1>5. CycleOnlyByRace'
    BY DEF CycleOnlyByRace, Interleaved
  <1> QED BY <1>1, <1>2, <1>3, <1>4, <1>5 DEF WalkKnown

\* a new call, before what is resolved is added
LEMMA SequencesAre ==
  ASSUME NEW S \in SUBSET Streams, NEW ids \in Sequences(S)
  PROVE  ids \in Seq(Streams) /\ IsInjective(ids) /\ ToSet(ids) = S
  <1>1. ids \in Arrangements[S] /\ ToSet(ids) = S
    BY DEF Sequences
  <1>2. ids \in Seq(S) /\ IsInjective(ids)
    BY <1>1, ArrangementsAre
  <1> QED BY <1>1, <1>2

LEMMA KnotsAreRaces ==
  ASSUME GraphKnown, NEW C \in SUBSET Streams, Knot(C, On)
  PROVE  Interleaved
  BY NoKnot DEF GraphKnown

LEMMA CascadeStarts ==
  ASSUME GraphKnown, WalkKnown, NEW strategy \in setting.strategies, CascadeRebase(strategy)
  PROVE  WalkKnown'
  <1>1. PICK D : D = DependentsOf({Root})
    OBVIOUS
  <1>2. D \in SUBSET Streams
    BY <1>1 DEF DependentsOf
  <1>3. PICK ids \in Sequences(D) : walk' = NewWalk("cascade", strategy, ids)
    BY <1>1 DEF CascadeRebase
  <1>4. ids \in Seq(Streams) /\ IsInjective(ids) /\ ToSet(ids) = D
    BY <1>2, <1>3, SequencesAre
  <1>5. PICK n : n = walk'
    OBVIOUS
  <1>6. GraphTypes /\ UNCHANGED <<setting, row, fresh, status>>
    BY DEF GraphKnown, CascadeRebase, depvars
  <1>7. n \in Walk /\ NewCall(n, "cascade", strategy, ids)
    <2>1. "cascade" \in Modes /\ "cascade" \in {"idle", "cascade", "resume"} /\ strategy \in setting.strategies \cup {"none"}
      BY DEF Modes
    <2> QED BY <1>3, <1>4, <1>5, <1>6, <2>1, NewWalkIs
  <1>8. /\ n.mode \in {"threw", "cascade", "returned"} /\ (n.mode = "threw" <=> n.why # "none")
        /\ n.why = "cycle" => Interleaved
        /\ n.mode = "returned" => n.left = <<>>
        /\ n.mode # "threw" => ToSet(n.left) = D
    BY <1>4, <1>7, KnotsAreRaces DEF NewCall
  <1>9. Coming(n) /\ Reported(n) /\ Stopped(n)
    BY <1>4, <1>7, <1>8 DEF NewCall, Coming, Reported, Stopped, Handled, Going, Stopping
  <1>10. Ordered(n) /\ HeldBack(n)
    BY <1>7 DEF NewCall, Ordered, HeldBack
  <1>11. Based(n)
    <2> SUFFICES ASSUME Going(n), NEW s \in ToSet(n.left) PROVE Deps(s) \cap Bases(n) # {}
      BY DEF Based
    <2>1. s \in D /\ n.mode = "cascade"
      BY <1>4, <1>7, <1>8 DEF NewCall, Going
    <2>2. Deps(s) \cap ({Root} \cup D) # {}
      BY <1>1, <2>1, DependentsHaveBase
    <2>3. Bases(n) = {Root} \cup D
      BY <1>4, <1>7, <2>1 DEF NewCall, Bases
    <2> QED BY <2>2, <2>3
  <1>12. Current(n)' /\ ByHand(n)'
    BY <1>7 DEF NewCall, Current, ByHand
  <1>13. /\ fresh' \subseteq Streams /\ Root \in fresh' /\ status' \in [Streams -> Statuses]
         /\ turns' \in 0 .. setting.turns
    <2>1. turns \in 0 .. setting.turns /\ turns < setting.turns /\ turns' = turns + 1 /\ setting.turns \in Nat
      BY <1>6, CascadeAssumption DEF WalkKnown, TypeOK, CascadeRebase, GraphTypes
    <2>2. turns' \in 0 .. setting.turns
      BY <2>1
    <2> QED BY <1>6, <2>2 DEF WalkKnown, TypeOK, Statuses
  <1> QED BY <1>5, <1>6, <1>7, <1>8, <1>9, <1>10, <1>11, <1>12, <1>13, WalkMoves

LEMMA ResumeStarts ==
  ASSUME GraphKnown, WalkKnown, NEW strategy \in setting.strategies, ResumeCascade(strategy)
  PROVE  WalkKnown'
  <1>1. GraphTypes /\ UNCHANGED <<setting, row, fresh, status>> /\ walk \in Walk /\ setting.resumes
    BY DEF GraphKnown, ResumeCascade, depvars, WalkKnown, TypeOK
  <1>2. PICK R : R = {s \in walk.deferred : status[s] # "conflicted"}
    OBVIOUS
  <1>3. PICK K : K = walk.deferred \ R
    OBVIOUS
  <1>4. PICK L : L = DependentsOf(R) \ (K \cup R)
    OBVIOUS
  <1>5. R \in SUBSET Streams /\ K \in SUBSET Streams /\ L \in SUBSET Streams
    BY <1>1, <1>2, <1>3, <1>4 DEF Walk, DependentsOf
  <1>6. PICK ids \in Sequences(L) :
          walk' = [NewWalk("resume", strategy, ids) EXCEPT
                     !.resolved = R, !.still = K, !.updated = R, !.deferred = IF L = {} THEN K ELSE {}]
    BY <1>2, <1>3, <1>4 DEF ResumeCascade
  <1>7. ids \in Seq(Streams) /\ IsInjective(ids) /\ ToSet(ids) = L
    BY <1>5, <1>6, SequencesAre
  <1>8. PICK w : w = NewWalk("resume", strategy, ids)
    OBVIOUS
  <1>9. w \in Walk /\ NewCall(w, "resume", strategy, ids)
    <2>1. "resume" \in Modes /\ "resume" \in {"idle", "cascade", "resume"} /\ strategy \in setting.strategies \cup {"none"}
      BY DEF Modes
    <2> QED BY <1>1, <1>7, <1>8, <2>1, NewWalkIs
  <1>10. PICK d : d = IF L = {} THEN K ELSE {}
    OBVIOUS
  <1>11. d \in SUBSET Streams /\ d \subseteq K
    BY <1>5, <1>10
  <1>12. PICK n : n = walk'
    OBVIOUS
  <1>13. n = [w EXCEPT !.resolved = R, !.still = K, !.updated = R, !.deferred = d]
    BY <1>6, <1>8, <1>10, <1>12
  <1>14. n \in Walk
    BY <1>5, <1>9, <1>11, <1>13 DEF Walk
  <1>15. /\ n.mode = w.mode /\ n.why = w.why /\ n.resumed = TRUE /\ n.strategy = strategy
         /\ n.dependents = L /\ n.left = w.left /\ n.same = TRUE /\ n.resolved = R /\ n.still = K
         /\ n.updated = R /\ n.failed = {} /\ n.skipped = {} /\ n.deferred = d
    BY <1>7, <1>9, <1>13 DEF Walk, NewCall
  <1>16. PICK l : l = n.left
    OBVIOUS
  <1>17. /\ n.mode \in {"threw", "resume", "returned"} /\ (n.mode = "threw" <=> n.why # "none")
         /\ n.why = "cycle" => Interleaved
         /\ n.mode = "returned" => l = <<>>
         /\ n.mode # "threw" => ToSet(l) = L
         /\ IsInjective(l) /\ ToSet(l) \subseteq L
         /\ \A i, j \in 1 .. Len(l) : l[j] \in Deps(l[i]) => j < i
    <2>1. ids = <<>> => L = {}
      BY <1>7 DEF ToSet
    <2> QED BY <1>7, <1>9, <1>15, <1>16, <2>1, KnotsAreRaces DEF NewCall
  <1>18. L \cap (R \cup K) = {}
    BY <1>4
  <1>19. Coming(n)
    BY <1>11, <1>15, <1>16, <1>17, <1>18 DEF Coming, Handled
  <1>20. Reported(n) /\ Stopped(n)
    BY <1>15, <1>16, <1>17 DEF Reported, Stopped, Handled, Going, Stopping
  <1>21. Ordered(n) /\ HeldBack(n)
    BY <1>15, <1>16, <1>17 DEF Ordered, HeldBack
  <1>22. Based(n)
    <2> SUFFICES ASSUME Going(n), NEW s \in ToSet(n.left) PROVE Deps(s) \cap Bases(n) # {}
      BY DEF Based
    <2>1. s \in L /\ n.mode = "resume"
      BY <1>16, <1>17 DEF Going
    <2>2. Deps(s) \cap (R \cup DependentsOf(R)) # {}
      BY <1>4, <2>1, DependentsHaveBase
    <2>3. Bases(n) = L \cup R \cup K
      BY <1>15, <2>1 DEF Bases
    <2>4. R \cup DependentsOf(R) \subseteq L \cup R \cup K
      BY <1>4
    <2> QED BY <2>2, <2>3, <2>4
  <1>23. ByHand(n)'
    <2>1. setting.byHand => \A s \in walk.deferred : status[s] = "conflicted" \/ s \in fresh
      BY DEF WalkKnown, ByHand
    <2> QED BY <1>1, <1>3, <1>11, <1>15, <2>1 DEF ByHand
  <1>24. (setting.resumes => setting.byHand) => Current(n)'
    <2>1. (setting.resumes => setting.byHand) => R \subseteq fresh
      BY <1>1, <1>2 DEF WalkKnown, ByHand
    <2> QED BY <1>1, <1>15, <2>1 DEF Current
  <1>25. /\ fresh' \subseteq Streams /\ Root \in fresh' /\ status' \in [Streams -> Statuses]
         /\ turns' \in 0 .. setting.turns
    <2>1. turns \in 0 .. setting.turns /\ turns < setting.turns /\ turns' = turns + 1 /\ setting.turns \in Nat
      BY <1>1, CascadeAssumption DEF WalkKnown, TypeOK, ResumeCascade, GraphTypes
    <2>2. turns' \in 0 .. setting.turns
      BY <2>1
    <2> QED BY <1>1, <2>2 DEF WalkKnown, TypeOK, Statuses
  <1> QED BY <1>1, <1>12, <1>14, <1>17, <1>19, <1>20, <1>21, <1>22, <1>23, <1>24, <1>25, WalkMoves

\* r is w with a result for s
SameCall(w, r) ==
  /\ r.why = w.why /\ r.resumed = w.resumed /\ r.strategy = w.strategy /\ r.dependents = w.dependents
  /\ r.resolved = w.resolved /\ r.still = w.still /\ r.same = w.same

Result(w, r, s) ==
  /\ SameCall(w, r) /\ r.mode = w.mode /\ r.left = w.left
  /\ \/ /\ r.updated = w.updated \cup {s}
        /\ r.failed = w.failed /\ r.skipped = w.skipped /\ r.deferred = w.deferred
     \/ /\ r.failed = w.failed \cup {s}
        /\ r.updated = w.updated /\ r.skipped = w.skipped /\ r.deferred = w.deferred
     \/ /\ r.skipped = w.skipped \cup {s}
        /\ r.updated = w.updated /\ r.failed = w.failed /\ r.deferred = w.deferred
     \/ /\ r.deferred = w.deferred \cup {s}
        /\ r.updated = w.updated /\ r.failed = w.failed /\ r.skipped = w.skipped

\* n is r when the walk goes on, or is over
Settled(r, n, over) ==
  /\ SameCall(r, n) /\ n.updated = r.updated /\ n.failed = r.failed /\ n.skipped = r.skipped
  /\ IF over THEN n.mode = "returned" /\ n.left = <<>> /\ n.deferred = r.deferred \cup r.still
     ELSE n.mode = r.mode /\ n.left = Tail(r.left) /\ n.deferred = r.deferred

LEMMA RecordIs ==
  ASSUME walk \in Walk, NEW r \in Walk, r.left = walk.left, walk.left # <<>>, NEW s, NEW breaks \in BOOLEAN,
         Record(r, s, breaks), NEW n, n = walk'
  PROVE  n \in Walk /\ Settled(r, n, breaks \/ Len(walk.left) = 1)
  <1>1. PICK over \in BOOLEAN : over = (breaks \/ Len(walk.left) = 1)
    OBVIOUS
  <1>2. PICK l \in Seq(Streams) : l = r.left
    BY DEF Walk
  <1>3. PICK tail \in Seq(Streams) : tail = Tail(l)
    <2>1. l # <<>>
      BY <1>2
    <2> QED BY <2>1, TailIs
  <1>4. PICK d \in SUBSET Streams : d = r.deferred \cup r.still
    BY DEF Walk
  <1>5. n = IF over THEN [r EXCEPT !.mode = "returned", !.left = <<>>, !.deferred = d] ELSE [r EXCEPT !.left = tail]
    <2>1. PICK settled : settled = [r EXCEPT !.left = tail]
      OBVIOUS
    <2>2. settled = [r EXCEPT !.left = Tail(@)]
      BY <1>2, <1>3, <2>1
    <2>3. n = IF over THEN [settled EXCEPT !.mode = "returned", !.left = <<>>, !.deferred = @ \cup r.still] ELSE settled
      BY <1>1, <2>2 DEF Record
    <2>4. settled.deferred = r.deferred
      BY <2>1 DEF Walk
    <2>5. [settled EXCEPT !.mode = "returned", !.left = <<>>, !.deferred = @ \cup r.still]
           = [r EXCEPT !.mode = "returned", !.left = <<>>, !.deferred = d]
      BY <1>4, <2>1, <2>4 DEF Walk
    <2> QED BY <2>1, <2>3, <2>5
  <1>6. CASE over
    <2>1. PICK m \in Modes : m = "returned"
      BY DEF Modes
    <2>2. PICK e \in Seq(Streams) : e = <<>>
      <3>1. <<>> \in Seq(Streams)
        OBVIOUS
      <3> WITNESS <<>> \in Seq(Streams)
      <3> QED OBVIOUS
    <2>3. n = [r EXCEPT !.mode = m, !.left = e, !.deferred = d]
      BY <1>5, <1>6, <2>1, <2>2
    <2>4. n \in Walk
      <3>1. PICK a : a = [r EXCEPT !.mode = m]
        OBVIOUS
      <3>2. a \in Walk
        BY <3>1 DEF Walk
      <3>3. PICK b : b = [a EXCEPT !.left = e]
        OBVIOUS
      <3>4. b \in Walk
        BY <3>2, <3>3 DEF Walk
      <3>5. n = [b EXCEPT !.deferred = d]
        BY <2>3, <3>1, <3>3 DEF Walk
      <3> QED BY <3>4, <3>5 DEF Walk
    <2>5. Settled(r, n, over)
      BY <1>4, <1>6, <2>1, <2>2, <2>3 DEF Settled, SameCall, Walk
    <2> QED BY <1>1, <2>4, <2>5
  <1>7. CASE ~ over
    <2>1. n = [r EXCEPT !.left = tail]
      BY <1>5, <1>7
    <2>2. n \in Walk
      BY <2>1 DEF Walk
    <2>3. Settled(r, n, over)
      BY <1>2, <1>3, <1>7, <2>1 DEF Settled, SameCall, Walk
    <2> QED BY <1>1, <2>2, <2>3
  <1> QED BY <1>6, <1>7

\* the stream in turn
LEMMA TurnIs ==
  ASSUME GraphTypes, WalkKnown, Running, NEW s, InTurn(s), NEW w, w = walk
  PROVE  /\ w \in Walk /\ w.left \in Seq(Streams) /\ w.left # <<>> /\ Tail(w.left) \in Seq(Streams)
         /\ s \in Streams /\ s \in w.dependents
         /\ s \notin Handled(w) \cup w.resolved \cup w.still
         /\ ToSet(w.left) = ToSet(Tail(w.left)) \cup {s} /\ IsInjective(Tail(w.left)) /\ s \notin ToSet(Tail(w.left))
         /\ Len(w.left) = 1 => ToSet(Tail(w.left)) = {}
         /\ w.same => Deps(s) \cap ToSet(w.left) = {}
         /\ w.same => \A i, j \in 1 .. Len(Tail(w.left)) :
                        Tail(w.left)[j] \in Deps(Tail(w.left)[i]) => j < i
         /\ Going(w) /\ (w.mode = "cascade" <=> ~ w.resumed)
  <1>1. w \in Walk /\ Coming(w) /\ Ordered(w)
    BY DEF WalkKnown, TypeOK
  <1>2. PICK l \in Seq(Streams) : l = w.left
    BY <1>1 DEF Walk
  <1>3. l # <<>> /\ s = Head(l)
    BY <1>2 DEF InTurn
  <1>4. PICK q : q = Tail(l)
    OBVIOUS
  <1>5. IsInjective(l) /\ ToSet(l) \subseteq w.dependents /\ ToSet(l) \cap (Handled(w) \cup w.resolved \cup w.still) = {}
    BY <1>1, <1>2 DEF Coming
  <1>6. /\ q \in Seq(Streams) /\ s \in Streams /\ ToSet(l) = ToSet(q) \cup {s}
        /\ IsInjective(q) /\ s \notin ToSet(q)
    BY <1>3, <1>4, <1>5, TailIs
  <1>7. Len(q) = Len(l) - 1 /\ \A i \in 1 .. Len(q) : q[i] = l[i + 1] /\ i + 1 \in 1 .. Len(l)
    BY <1>3, <1>4
  <1>8. Len(l) = 1 => ToSet(q) = {}
    <2> HAVE Len(l) = 1
    <2>1. Len(q) = 0
      BY <1>7
    <2>2. \A x \in ToSet(q) : \E i \in 1 .. Len(q) : q[i] = x
      BY <1>6, ToSetIs
    <2> QED BY <2>1, <2>2
  <1>9. ASSUME w.same
        PROVE  /\ Deps(s) \cap ToSet(l) = {}
               /\ \A i, j \in 1 .. Len(q) : q[j] \in Deps(q[i]) => j < i
    <2>1. \A i, j \in 1 .. Len(l) : l[j] \in Deps(l[i]) => j < i
      BY <1>1, <1>2, <1>9 DEF Ordered
    <2>2. Deps(s) \cap ToSet(l) = {}
      <3> SUFFICES ASSUME NEW x \in ToSet(l), x \in Deps(s) PROVE FALSE
        OBVIOUS
      <3>1. PICK j \in 1 .. Len(l) : l[j] = x
        BY ToSetIs
      <3>2. 1 \in 1 .. Len(l) /\ l[1] = s
        BY <1>3
      <3>3. j < 1
        BY <2>1, <3>1, <3>2
      <3> QED BY <3>1, <3>3
    <2>3. ASSUME NEW i \in 1 .. Len(q), NEW j \in 1 .. Len(q), q[j] \in Deps(q[i]) PROVE j < i
      <3>1. j + 1 < i + 1
        BY <1>7, <2>1, <2>3
      <3> QED BY <3>1
    <2> QED BY <2>2, <2>3
  <1>10. Going(w) /\ (w.mode = "cascade" <=> ~ w.resumed)
    BY <1>1 DEF Going, Running, Coming
  <1> QED BY <1>1, <1>2, <1>3, <1>4, <1>5, <1>6, <1>8, <1>9, <1>10

LEMMA SettledKeeps ==
  ASSUME GraphTypes, WalkKnown, Running, NEW s, InTurn(s), NEW w, w = walk,
         NEW r, Result(w, r, s), NEW n, NEW breaks \in BOOLEAN, Settled(r, n, breaks \/ Len(w.left) = 1),
         breaks => Stopping(w) /\ s \in r.failed,
         s \in r.deferred => ~ Stopping(w),
         s \in r.updated => ~ Obstructed(s),
         s \in r.skipped => Obstructed(s),
         s \in r.failed /\ Stopping(w) /\ (w.same \/ ~ w.resumed) => breaks
  PROVE  Coming(n) /\ Reported(n) /\ Stopped(n) /\ Ordered(n) /\ HeldBack(n) /\ Based(n)
  <1>1. /\ w \in Walk /\ s \in Streams /\ s \in w.dependents
        /\ s \notin Handled(w) \cup w.resolved \cup w.still
        /\ Going(w) /\ (w.mode = "cascade" <=> ~ w.resumed)
    BY TurnIs
  <1>2. PICK over \in BOOLEAN : over = (breaks \/ Len(w.left) = 1)
    OBVIOUS
  <1>3. PICK q : q = Tail(w.left)
    OBVIOUS
  <1>4. PICK Q : Q = ToSet(q)
    OBVIOUS
  <1>5. /\ ToSet(w.left) = Q \cup {s} /\ IsInjective(q) /\ s \notin Q /\ q \in Seq(Streams)
        /\ Len(w.left) = 1 => Q = {}
        /\ w.same => Deps(s) \cap (Q \cup {s}) = {}
        /\ w.same => \A i, j \in 1 .. Len(q) : q[j] \in Deps(q[i]) => j < i
    BY <1>3, <1>4, TurnIs
  <1>6. Coming(w) /\ Reported(w) /\ Stopped(w) /\ HeldBack(w) /\ Based(w)
    BY DEF WalkKnown
  <1>7. PICK N : N = ToSet(n.left)
    OBVIOUS
  <1>8. /\ SameCall(w, n) /\ n.updated = r.updated /\ n.failed = r.failed /\ n.skipped = r.skipped
        /\ IF over THEN n.mode = "returned" /\ n.left = <<>> /\ n.deferred = r.deferred \cup w.still /\ N = {}
           ELSE n.mode = w.mode /\ n.left = q /\ n.deferred = r.deferred /\ N = Q
    <2>1. ToSet(<<>>) = {}
      BY DEF ToSet
    <2> QED BY <2>1, <1>2, <1>3, <1>4, <1>7 DEF Settled, Result, SameCall
  <1>9. N \subseteq Q /\ IsInjective(n.left)
    <2>1. IsInjective(<<>>)
      BY DEF IsInjective
    <2> QED BY <2>1, <1>5, <1>8
  <1>10. Handled(r) = Handled(w) \cup {s}
    BY DEF Result, Handled
  <1>11. Handled(n) \subseteq Handled(r) \cup w.still /\ Handled(r) \subseteq Handled(n)
    BY <1>8 DEF Handled
  <1>12. Coming(n)
    <2>1. Q \cap (Handled(w) \cup w.resolved \cup w.still) = {} /\ Q \subseteq w.dependents
      BY <1>5, <1>6 DEF Coming
    <2>2. N \cap (Handled(n) \cup w.resolved \cup w.still) = {} /\ N \subseteq w.dependents
      BY <2>1, <1>5, <1>9, <1>10, <1>11
    <2>3. /\ n.mode = "returned" => n.left = <<>>
          /\ n.mode = "cascade" => ~ n.resumed
          /\ n.mode = "resume" => n.resumed
      BY <1>1, <1>8 DEF SameCall, Going
    <2> QED BY <1>7, <1>8, <1>9, <2>2, <2>3 DEF Coming, SameCall
  <1>13. Stopping(w) => (Stopping(n) /\ (breaks => n.failed # {}))
    BY <1>8 DEF Stopping, SameCall
  <1>14. Reported(n)
    <2>1. w.dependents \subseteq Q \cup {s} \cup Handled(w)
      BY <1>1, <1>5, <1>6 DEF Reported
    <2>2. over /\ ~ breaks => Q = {}
      BY <1>2, <1>5
    <2>3. Going(n) \/ (n.mode = "returned" /\ (Stopping(n) => n.failed = {})) =>
            n.dependents \subseteq N \cup Handled(n)
      <3>1. CASE over /\ breaks
        BY <3>1, <1>8, <1>13 DEF Going
      <3>2. CASE over /\ ~ breaks
        BY <3>2, <2>1, <2>2, <1>8, <1>10, <1>11 DEF SameCall
      <3>3. CASE ~ over
        BY <3>3, <2>1, <1>8, <1>10, <1>11 DEF SameCall
      <3> QED BY <3>1, <3>2, <3>3
    <2>4. ASSUME ~ w.resumed
          PROVE  /\ w.resolved = {} /\ w.still = {} /\ Handled(n) \subseteq w.dependents
                 /\ n.updated \cap (n.failed \cup n.skipped \cup n.deferred) = {}
                 /\ n.skipped \cap (n.failed \cup n.deferred) = {}
      <3>1. /\ w.resolved = {} /\ w.still = {} /\ Handled(w) \subseteq w.dependents
            /\ w.updated \cap (w.failed \cup w.skipped \cup w.deferred) = {}
            /\ w.skipped \cap (w.failed \cup w.deferred) = {}
        BY <2>4, <1>6 DEF Reported
      <3>2. s \notin w.updated /\ s \notin w.failed /\ s \notin w.skipped /\ s \notin w.deferred
        BY <1>1 DEF Handled
      <3>3. n.deferred = r.deferred
        BY <3>1, <1>8
      <3>4. Handled(n) \subseteq w.dependents
        BY <3>1, <1>1, <1>10, <1>11
      <3> QED BY <3>1, <3>2, <3>3, <3>4, <1>8 DEF Result
    <2> QED BY <2>3, <2>4, <1>7, <1>8 DEF Reported, SameCall
  <1>15. Stopped(n)
    <2> SUFFICES ASSUME Stopping(w)
        PROVE  /\ ~ w.resumed => n.skipped = {} /\ n.deferred = {}
               /\ w.same \/ ~ w.resumed => n.failed = {} \/ (~ Going(n) /\ \E t \in Streams : n.failed = {t})
      BY <1>8 DEF Stopped, Stopping, SameCall
    <2>1. ~ w.resumed => w.skipped = {} /\ w.deferred = {} /\ w.still = {}
      BY <1>6 DEF Stopped, Reported
    <2>2. w.same \/ ~ w.resumed => w.failed = {}
      BY <1>1, <1>6 DEF Stopped
    <2>3. r.deferred = w.deferred
      BY <1>1 DEF Result
    <2>4. ASSUME ~ w.resumed PROVE n.skipped = {} /\ n.deferred = {}
      <3>1. ~ Obstructed(s)
        BY <2>1, <2>2, <2>4 DEF Obstructed
      <3> QED BY <3>1, <2>1, <2>3, <2>4, <1>8 DEF Result
    <2>5. ASSUME w.same \/ ~ w.resumed
          PROVE  n.failed = {} \/ (~ Going(n) /\ \E t \in Streams : n.failed = {t})
      <3>1. CASE s \in r.failed
        <4>1. breaks
          BY <3>1, <2>5
        <4>2. n.mode = "returned"
          BY <4>1, <1>2, <1>8
        <4>3. r.failed = {s}
          BY <2>2, <2>5, <3>1 DEF Result
        <4> QED BY <4>2, <4>3, <1>1, <1>8 DEF Going
      <3>2. CASE s \notin r.failed
        BY <3>2, <2>2, <2>5, <1>8 DEF Result
      <3> QED BY <3>1, <3>2
    <2> QED BY <2>4, <2>5
  <1>16. Ordered(n)
    BY <1>5, <1>8 DEF Ordered, SameCall
  <1>17. HeldBack(n)
    <2> SUFFICES ASSUME w.same, NEW t \in n.updated \ w.resolved
        PROVE  Deps(t) \cap (n.failed \cup (n.deferred \ n.updated) \cup w.still \cup N) = {}
      BY <1>7, <1>8 DEF HeldBack, SameCall
    <2>1. CASE t = s
      <3>1. s \in r.updated
        BY <2>1, <1>8
      <3>2. Deps(s) \cap (w.failed \cup w.deferred \cup w.still) = {}
        BY <3>1 DEF Obstructed
      <3>3. n.failed = w.failed /\ n.deferred \subseteq w.deferred \cup w.still
        BY <3>1, <1>1, <1>8 DEF Result, Handled
      <3> QED BY <2>1, <3>2, <3>3, <1>5, <1>9
    <2>2. CASE t # s
      <3>1. t \in w.updated \ w.resolved
        BY <2>2, <1>8 DEF Result
      <3>2. Deps(t) \cap (w.failed \cup (w.deferred \ w.updated) \cup w.still \cup Q \cup {s}) = {}
        BY <3>1, <1>5, <1>6 DEF HeldBack
      <3>3. n.failed \subseteq w.failed \cup {s}
        BY <1>8 DEF Result
      <3>4. n.deferred \ n.updated \subseteq (w.deferred \ w.updated) \cup {s} \cup w.still
        BY <1>8 DEF Result
      <3> QED BY <3>2, <3>3, <3>4, <1>9
    <2> QED BY <2>1, <2>2
  <1>18. Based(n)
    <2> SUFFICES ASSUME w.same, Going(n), NEW t \in N PROVE Deps(t) \cap Bases(n) # {}
      BY <1>7, <1>8 DEF Based, SameCall
    <2>1. ~ over
      BY <1>8 DEF Going
    <2>2. Bases(n) = Bases(w)
      BY <2>1, <1>8 DEF Bases, SameCall
    <2> QED BY <2>2, <1>1, <1>5, <1>6, <1>9 DEF Based
  <1> QED BY <1>12, <1>14, <1>15, <1>16, <1>17, <1>18

\* A stream gets its result, and the walk goes on or is over.
LEMMA ResultKeeps ==
  ASSUME GraphTypes, WalkKnown, Running, NEW s, InTurn(s), NEW w, w = walk,
         NEW r \in Walk, Result(w, r, s), NEW breaks \in BOOLEAN, Record(r, s, breaks),
         breaks => Stopping(w) /\ s \in r.failed,
         s \in r.deferred => ~ Stopping(w),
         s \in r.updated => ~ Obstructed(s),
         s \in r.skipped => Obstructed(s),
         s \in r.failed /\ Stopping(w) /\ (w.same \/ ~ w.resumed) => breaks,
         UNCHANGED <<setting, row, turns>>,
         fresh' \subseteq Streams, Root \in fresh', status' \in [Streams -> Statuses],
         setting.byHand => \A x \in r.deferred \cup w.still : status'[x] = "conflicted" \/ x \in fresh',
         (setting.resumes => setting.byHand) =>
           (w.same /\ r.failed = {} /\ r.skipped = {} /\ r.deferred = {} => r.updated \cup w.resolved \subseteq fresh')
  PROVE  WalkKnown'
  <1>1. PICK n : n = walk'
    OBVIOUS
  <1>2. w \in Walk /\ w.left # <<>> /\ Going(w)
    BY TurnIs
  <1>3. walk \in Walk /\ r.left = walk.left /\ walk.left # <<>>
    BY <1>2 DEF Result
  <1>4. n \in Walk /\ Settled(r, n, breaks \/ Len(w.left) = 1)
    BY <1>1, <1>3, RecordIs
  <1>5. Coming(n) /\ Reported(n) /\ Stopped(n) /\ Ordered(n) /\ HeldBack(n) /\ Based(n)
    BY <1>4, SettledKeeps
  <1>6. /\ n.failed = r.failed /\ n.skipped = r.skipped /\ n.updated = r.updated
        /\ r.deferred \subseteq n.deferred /\ n.deferred \subseteq r.deferred \cup w.still
        /\ n.still = w.still /\ n.resolved = w.resolved /\ n.same = w.same /\ n.why = w.why
        /\ n.mode = "returned" \/ n.mode = w.mode
    BY <1>4 DEF Settled, SameCall, Result
  <1>7. n.why = "none" /\ n.mode # "threw"
    BY <1>2, <1>6 DEF WalkKnown, TypeOK, Going
  <1>8. ByHand(n)'
    BY <1>6 DEF ByHand
  <1>9. (setting.resumes => setting.byHand) => Current(n)'
    BY <1>6 DEF Current
  <1>10. turns' \in 0 .. setting.turns
    BY DEF WalkKnown, TypeOK
  <1> QED BY <1>1, <1>4, <1>5, <1>7, <1>8, <1>9, <1>10, WalkMoves

\* What is known of the streams while a walk is under way
LEMMA StreamsKnown ==
  ASSUME WalkKnown
  PROVE  /\ fresh \subseteq Streams /\ Root \in fresh /\ Root \in Streams /\ status \in [Streams -> Statuses]
         /\ setting.byHand => \A x \in walk.deferred \cup walk.still : status[x] = "conflicted" \/ x \in fresh
         /\ (setting.resumes => setting.byHand) =>
              (walk.same /\ walk.failed = {} /\ walk.skipped = {} /\ walk.deferred = {} =>
                 walk.updated \cup walk.resolved \subseteq fresh)
  BY CascadeAssumption DEF WalkKnown, TypeOK, Statuses, ByHand, Current

LEMMA SkipKeeps ==
  ASSUME GraphTypes, WalkKnown, NEW s, SkipStream(s)
  PROVE  WalkKnown'
  <1>1. PICK w : w = walk
    OBVIOUS
  <1>2. Running /\ InTurn(s) /\ Obstructed(s) /\ UNCHANGED <<setting, row, turns, fresh, status>>
    BY DEF SkipStream, depvars
  <1>3. w \in Walk /\ s \in Streams /\ s \notin Handled(w)
    BY <1>1, <1>2, TurnIs
  <1>4. PICK r : r = [w EXCEPT !.skipped = @ \cup {s}]
    OBVIOUS
  <1>5. r \in Walk
    BY <1>3, <1>4 DEF Walk
  <1>6. Result(w, r, s) /\ r.skipped = w.skipped \cup {s} /\ r.deferred = w.deferred /\ r.failed = w.failed
        /\ r.updated = w.updated
    BY <1>3, <1>4 DEF Walk, Result, SameCall
  <1>7. Record(r, s, FALSE)
    BY <1>1, <1>4 DEF SkipStream
  <1>8. s \notin r.deferred /\ s \notin r.failed /\ s \notin r.updated /\ r.skipped # {}
    BY <1>3, <1>6 DEF Handled
  <1> QED BY <1>1, <1>2, <1>5, <1>6, <1>7, <1>8, StreamsKnown, ResultKeeps

LEMMA WorktreeKeeps ==
  ASSUME GraphTypes, WalkKnown, NEW s, WorktreeFails(s)
  PROVE  WalkKnown'
  <1>1. PICK w : w = walk
    OBVIOUS
  <1>2. Running /\ InTurn(s) /\ ~ Obstructed(s) /\ UNCHANGED <<setting, row, turns, fresh, status>>
    BY DEF WorktreeFails, depvars
  <1>3. w \in Walk /\ s \in Streams /\ s \notin Handled(w)
    BY <1>1, <1>2, TurnIs
  <1>4. PICK r : r = [w EXCEPT !.failed = @ \cup {s}]
    OBVIOUS
  <1>5. r \in Walk
    BY <1>3, <1>4 DEF Walk
  <1>6. Result(w, r, s) /\ r.failed = w.failed \cup {s} /\ r.deferred = w.deferred /\ r.skipped = w.skipped
        /\ r.updated = w.updated
    BY <1>3, <1>4 DEF Walk, Result, SameCall
  <1>7. PICK breaks \in BOOLEAN : breaks = Stopping(w)
    BY DEF Stopping
  <1>8. Record(r, s, breaks)
    BY <1>1, <1>4, <1>7 DEF WorktreeFails, Breaks, Stopping
  <1>9. s \notin r.deferred /\ s \notin r.skipped /\ s \notin r.updated /\ r.failed # {} /\ s \in r.failed
    BY <1>3, <1>6 DEF Handled
  <1> QED BY <1>1, <1>2, <1>5, <1>6, <1>7, <1>8, <1>9, StreamsKnown, ResultKeeps

\* The target of a stream that nothing obstructs is a stream, and holds the root's
\* new commits as long as nothing has gone wrong.
LEMMA TargetIs ==
  ASSUME GraphTypes, WalkKnown, Running, NEW s, InTurn(s), NEW w, w = walk, ~ Obstructed(s),
         w.same \/ ~ w.resumed, NEW t, t = RebaseTarget(s)
  PROVE  /\ t \in Streams
         /\ (setting.resumes => setting.byHand) =>
              (w.same /\ w.failed = {} /\ w.skipped = {} /\ w.deferred = {} => t \in fresh)
  <1>1. /\ w \in Walk /\ s \in Streams /\ Going(w) /\ (w.mode = "cascade" <=> ~ w.resumed)
        /\ w.same => Deps(s) \cap ToSet(w.left) = {}
    BY TurnIs
  <1>2. PICK l \in Seq(Streams) : l = row[s].on /\ Deps(s) = ToSet(l)
    BY <1>1 DEF GraphTypes, Row, Deps
  <1>3. ToSet(l) \subseteq Streams /\ Root \in Streams /\ Root \in fresh
    BY ToSetIs, StreamsKnown
  <1>4. w.dependents \subseteq ToSet(w.left) \cup Handled(w)
    BY <1>1 DEF WalkKnown, Reported
  <1>5. Deps(s) \cap (w.failed \cup w.deferred \cup w.still) = {}
    BY DEF Obstructed
  <1>6. PICK K : K = IF w.mode = "cascade" THEN {Root} \cup w.dependents ELSE w.resolved \cup w.updated
    OBVIOUS
  <1>7. t = IF Deps(s) \cap K # {} THEN FirstIn(l, K)
            ELSE IF w.mode = "cascade" THEN Root ELSE IF l # <<>> THEN Head(l) ELSE NoStream
    BY <1>2, <1>6 DEF RebaseTarget
  <1>8. Deps(s) \cap K # {} => t \in Deps(s) \cap K
    <2> HAVE Deps(s) \cap K # {}
    <2>1. ToSet(l) \cap K # {}
      BY <1>2
    <2>2. FirstIn(l, K) \in ToSet(l) \cap K
      BY <2>1, FirstInIs
    <2> QED BY <2>2, <1>2, <1>7
  <1>9. ASSUME setting.resumes => setting.byHand,
               w.same, w.failed = {}, w.skipped = {}, w.deferred = {}
        PROVE  /\ w.updated \cup w.resolved \subseteq fresh
               /\ Deps(s) \cap (w.dependents \cup w.resolved) \subseteq w.updated \cup w.resolved
    <2>1. w.updated \cup w.resolved \subseteq fresh
      BY <1>9, StreamsKnown
    <2>2. Handled(w) = w.updated
      BY <1>9 DEF Handled
    <2> QED BY <2>1, <2>2, <1>1, <1>4, <1>9
  <1>10. CASE w.mode = "cascade"
    <2>1. t \in Deps(s) \cap ({Root} \cup w.dependents) \/ t = Root
      BY <1>6, <1>7, <1>8, <1>10
    <2> QED BY <2>1, <1>2, <1>3, <1>9
  <1>11. CASE w.mode # "cascade"
    <2>1. w.same
      BY <1>1, <1>11
    <2>2. w.mode = "resume"
      BY <1>1, <1>11 DEF Going
    <2>3. Deps(s) \cap (w.dependents \cup w.resolved \cup w.still) # {}
      <3>1. s \in ToSet(w.left)
        BY TurnIs
      <3> QED BY <3>1, <2>1, <2>2, <1>1 DEF WalkKnown, Based, Bases
    <2>4. Deps(s) \cap (w.dependents \cup w.resolved) # {}
      BY <2>3, <1>5
    <2>5. t \in Streams
      <3>1. CASE Deps(s) \cap K # {}
        BY <3>1, <1>2, <1>3, <1>8
      <3>2. CASE Deps(s) \cap K = {}
        <4>1. l # <<>>
          <5> SUFFICES ASSUME l = <<>> PROVE FALSE
            OBVIOUS
          <5>1. ToSet(<<>>) = {}
            BY DEF ToSet
          <5> QED BY <5>1, <2>4, <1>2
        <4>2. Head(l) \in Streams
          BY <4>1, TailIs
        <4> QED BY <3>2, <4>1, <4>2, <1>7, <1>11
      <3> QED BY <3>1, <3>2
    <2>6. ASSUME setting.resumes => setting.byHand, w.failed = {}, w.skipped = {}, w.deferred = {}
          PROVE  t \in fresh
      <3>1. K = w.resolved \cup w.updated
        BY <1>6, <1>11
      <3>2. Deps(s) \cap K # {} /\ K \subseteq fresh
        BY <3>1, <2>1, <2>4, <2>6, <1>9
      <3> QED BY <3>2, <1>8
    <2> QED BY <2>5, <2>6
  <1> QED BY <1>10, <1>11

LEMMA NoTargetKeeps ==
  ASSUME GraphTypes, WalkKnown, NEW s, NoTarget(s)
  PROVE  WalkKnown'
  <1>1. PICK w : w = walk
    OBVIOUS
  <1>2. Running /\ InTurn(s) /\ ~ Obstructed(s) /\ UNCHANGED <<setting, row, turns, fresh, status>>
    BY DEF NoTarget, depvars
  <1>3. w \in Walk /\ s \in Streams /\ s \notin Handled(w)
    BY <1>1, <1>2, TurnIs
  <1>4. PICK r : r = [w EXCEPT !.failed = @ \cup {s}]
    OBVIOUS
  <1>5. r \in Walk
    BY <1>3, <1>4 DEF Walk
  <1>6. Result(w, r, s) /\ r.failed = w.failed \cup {s} /\ r.deferred = w.deferred /\ r.skipped = w.skipped
        /\ r.updated = w.updated
    BY <1>3, <1>4 DEF Walk, Result, SameCall
  <1>7. Record(r, s, FALSE)
    BY <1>1, <1>4 DEF NoTarget
  <1>8. s \notin r.deferred /\ s \notin r.skipped /\ s \notin r.updated /\ r.failed # {}
    BY <1>3, <1>6 DEF Handled
  <1>9. ~ (w.same \/ ~ w.resumed)
    <2> SUFFICES ASSUME w.same \/ ~ w.resumed PROVE FALSE
      OBVIOUS
    <2>1. PICK t : t = RebaseTarget(s)
      OBVIOUS
    <2>2. t \in Streams
      BY <2>1, <1>1, <1>2, TargetIs
    <2> QED BY <2>1, <2>2, DependenciesAssumption DEF NoTarget
  <1> QED BY <1>1, <1>2, <1>5, <1>6, <1>7, <1>8, <1>9, StreamsKnown, ResultKeeps

LEMMA SuccessKeeps ==
  ASSUME GraphTypes, WalkKnown, NEW s, RebaseSucceeds(s)
  PROVE  WalkKnown'
  <1>1. PICK w : w = walk
    OBVIOUS
  <1>2. Running /\ InTurn(s) /\ ~ Obstructed(s) /\ UNCHANGED <<setting, row, turns, status>>
    BY DEF RebaseSucceeds, Rebases, depvars
  <1>3. w \in Walk /\ s \in Streams /\ s \notin Handled(w) \cup w.resolved \cup w.still
    BY <1>1, <1>2, TurnIs
  <1>4. PICK r : r = [w EXCEPT !.updated = @ \cup {s}]
    OBVIOUS
  <1>5. r \in Walk
    BY <1>3, <1>4 DEF Walk
  <1>6. Result(w, r, s) /\ r.failed = w.failed /\ r.deferred = w.deferred /\ r.skipped = w.skipped
        /\ r.updated = w.updated \cup {s}
    BY <1>3, <1>4 DEF Walk, Result, SameCall
  <1>7. Record(r, s, FALSE)
    BY <1>1, <1>4 DEF RebaseSucceeds
  <1>8. s \notin r.deferred /\ s \notin r.skipped /\ s \notin r.failed /\ s \notin w.still
    BY <1>3, <1>6 DEF Handled
  <1>9. PICK t : t = RebaseTarget(s)
    OBVIOUS
  <1>10. fresh' = IF s = Root \/ t \in fresh THEN fresh \cup {s} ELSE fresh \ {s}
    BY <1>9 DEF RebaseSucceeds
  <1>11. fresh' \subseteq Streams /\ Root \in fresh' /\ status' \in [Streams -> Statuses]
    BY <1>2, <1>3, <1>10, StreamsKnown
  <1>12. setting.byHand => \A x \in r.deferred \cup w.still : status'[x] = "conflicted" \/ x \in fresh'
    BY <1>1, <1>2, <1>6, <1>8, <1>10, StreamsKnown
  <1>13. ASSUME setting.resumes => setting.byHand,
                w.same, r.failed = {}, r.skipped = {}, r.deferred = {}
         PROVE  r.updated \cup w.resolved \subseteq fresh'
    <2>1. t \in fresh
      BY <1>1, <1>2, <1>6, <1>9, <1>13, TargetIs
    <2>2. w.updated \cup w.resolved \subseteq fresh
      BY <1>1, <1>6, <1>13, StreamsKnown
    <2> QED BY <2>1, <2>2, <1>6, <1>10
  <1> QED BY <1>1, <1>2, <1>5, <1>6, <1>7, <1>8, <1>11, <1>12, <1>13, ResultKeeps

LEMMA FailureKeeps ==
  ASSUME GraphTypes, WalkKnown, NEW s, RebaseFails(s)
  PROVE  WalkKnown'
  <1>1. PICK w : w = walk
    OBVIOUS
  <1>2. Running /\ InTurn(s) /\ ~ Obstructed(s) /\ UNCHANGED <<setting, row, turns, fresh>>
    BY DEF RebaseFails, Rebases, depvars
  <1>3. w \in Walk /\ s \in Streams /\ s \notin Handled(w) \cup w.resolved \cup w.still
    BY <1>1, <1>2, TurnIs
  <1>4. status' \in [Streams -> Statuses] /\ status'[s] = "conflicted" /\ \A x : x # s => status'[x] = status[x]
    <2>1. status' = [status EXCEPT ![s] = "conflicted"] /\ status \in [Streams -> Statuses]
      BY StreamsKnown DEF RebaseFails, SetStreamConflicted
    <2>2. status' \in [Streams -> Statuses] /\ status'[s] = "conflicted" /\ \A x \in Streams \ {s} : status'[x] = status[x]
      BY <2>1, <1>3 DEF Statuses
    <2>3. \A x : x # s => status'[x] = status[x]
      BY <2>1
    <2> QED BY <2>2, <2>3
  <1>5. CASE w.strategy = "defer_conflicts" /\ Record([walk EXCEPT !.deferred = @ \cup {s}], s, FALSE)
    <2>1. PICK r : r = [w EXCEPT !.deferred = @ \cup {s}]
      OBVIOUS
    <2>2. r \in Walk
      BY <1>3, <2>1 DEF Walk
    <2>3. Result(w, r, s) /\ r.failed = w.failed /\ r.deferred = w.deferred \cup {s} /\ r.skipped = w.skipped
          /\ r.updated = w.updated
      BY <1>3, <2>1 DEF Walk, Result, SameCall
    <2>4. Record(r, s, FALSE)
      BY <1>1, <1>5, <2>1
    <2>5. s \notin r.failed /\ s \notin r.skipped /\ s \notin r.updated /\ r.deferred # {} /\ ~ Stopping(w)
      BY <1>3, <1>5, <2>3 DEF Handled, Stopping
    <2>6. setting.byHand => \A x \in r.deferred \cup w.still : status'[x] = "conflicted" \/ x \in fresh'
      BY <1>1, <1>2, <1>4, <2>3, StreamsKnown
    <2> QED BY <1>1, <1>2, <1>4, <2>2, <2>3, <2>4, <2>5, <2>6, StreamsKnown, ResultKeeps
  <1>6. CASE Record([walk EXCEPT !.failed = @ \cup {s}], s, Breaks)
    <2>1. PICK r : r = [w EXCEPT !.failed = @ \cup {s}]
      OBVIOUS
    <2>2. r \in Walk
      BY <1>3, <2>1 DEF Walk
    <2>3. Result(w, r, s) /\ r.failed = w.failed \cup {s} /\ r.deferred = w.deferred /\ r.skipped = w.skipped
          /\ r.updated = w.updated
      BY <1>3, <2>1 DEF Walk, Result, SameCall
    <2>4. PICK breaks \in BOOLEAN : breaks = Stopping(w)
      BY DEF Stopping
    <2>5. Record(r, s, breaks)
      BY <1>1, <1>6, <2>1, <2>4 DEF Breaks, Stopping
    <2>6. s \notin r.deferred /\ s \notin r.skipped /\ s \notin r.updated /\ r.failed # {} /\ s \in r.failed
      BY <1>3, <2>3 DEF Handled
    <2>7. setting.byHand => \A x \in r.deferred \cup w.still : status'[x] = "conflicted" \/ x \in fresh'
      BY <1>1, <1>2, <1>4, <2>3, StreamsKnown
    <2> QED BY <1>1, <1>2, <1>4, <2>2, <2>3, <2>4, <2>5, <2>6, <2>7, StreamsKnown, ResultKeeps
  <1> QED BY <1>1, <1>5, <1>6 DEF RebaseFails

LEMMA ThrowKeeps ==
  ASSUME GraphTypes, WalkKnown, NEW s, DiamondThrows(s) \/ RebaseThrows(s)
  PROVE  WalkKnown'
  <1>1. PICK w : w = walk
    OBVIOUS
  <1>2. Running /\ InTurn(s) /\ UNCHANGED <<setting, row, turns, fresh, status>>
    BY DEF DiamondThrows, RebaseThrows, Rebases, depvars
  <1>3. w \in Walk /\ Going(w)
    BY <1>1, <1>2, TurnIs
  <1>4. PICK why \in {"diamond", "status", "git"} : Throw(why)
    BY DEF DiamondThrows, RebaseThrows
  <1>5. PICK n : n = walk'
    OBVIOUS
  <1>6. n = [w EXCEPT !.mode = "threw", !.why = why]
    BY <1>1, <1>4, <1>5 DEF Throw
  <1>7. n \in Walk
    BY <1>3, <1>6 DEF Walk, Modes
  <1>8. /\ n.mode = "threw" /\ n.why = why /\ n.left = w.left /\ n.resumed = w.resumed /\ n.strategy = w.strategy
        /\ n.dependents = w.dependents /\ n.resolved = w.resolved /\ n.still = w.still /\ n.same = w.same
        /\ n.updated = w.updated /\ n.failed = w.failed /\ n.skipped = w.skipped /\ n.deferred = w.deferred
    BY <1>3, <1>6 DEF Walk
  <1>9. Handled(n) = Handled(w) /\ (Stopping(n) <=> Stopping(w)) /\ ~ Going(n)
    BY <1>8 DEF Handled, Stopping, Going
  <1>10. Coming(n)
    BY <1>1, <1>8, <1>9 DEF WalkKnown, Coming
  <1>11. Reported(n)
    BY <1>1, <1>8, <1>9 DEF WalkKnown, Reported
  <1>12. Stopped(n)
    BY <1>1, <1>3, <1>8, <1>9 DEF WalkKnown, Stopped
  <1>13. Ordered(n) /\ HeldBack(n) /\ Based(n)
    BY <1>1, <1>8, <1>9 DEF WalkKnown, Ordered, HeldBack, Based
  <1>14. ByHand(n)' /\ ((setting.resumes => setting.byHand) => Current(n)')
    BY <1>1, <1>2, <1>8 DEF WalkKnown, ByHand, Current
  <1>15. turns' \in 0 .. setting.turns
    BY <1>2 DEF WalkKnown, TypeOK
  <1> QED BY <1>2, <1>5, <1>7, <1>8, <1>10, <1>11, <1>12, <1>13, <1>14, <1>15, StreamsKnown, WalkMoves

\* Steps of others, or none, while the graph stays as it is
LEMMA OthersKeep ==
  ASSUME WalkKnown, UNCHANGED <<setting, row, walk, turns>>,
         fresh \subseteq fresh', fresh' \subseteq Streams, status' \in [Streams -> Statuses],
         setting.byHand =>
           \A x \in Streams : status[x] = "conflicted" => status'[x] = "conflicted" \/ x \in fresh'
  PROVE  WalkKnown'
  <1>1. PICK n : n = walk
    OBVIOUS
  <1>2. /\ n = walk' /\ n \in Walk /\ (n.mode = "threw" <=> n.why # "none") /\ (n.why = "cycle" => Interleaved)
        /\ Coming(n) /\ Reported(n) /\ Stopped(n) /\ Ordered(n) /\ HeldBack(n) /\ Based(n)
        /\ Root \in fresh' /\ turns' \in 0 .. setting.turns
    BY <1>1 DEF WalkKnown, TypeOK, CycleOnlyByRace
  <1>3. (setting.resumes => setting.byHand) => Current(n)'
    BY <1>1 DEF WalkKnown, Current
  <1>4. ByHand(n)'
    <2>1. n.deferred \cup n.still \subseteq Streams
      BY <1>2 DEF Walk
    <2>2. setting.byHand => \A x \in n.deferred \cup n.still : status[x] = "conflicted" \/ x \in fresh
      BY <1>1, StreamsKnown
    <2> QED BY <2>1, <2>2 DEF ByHand
  <1> QED BY <1>2, <1>3, <1>4, WalkMoves

\* The graph is changed under the walk.
LEMMA GraphMoves ==
  ASSUME WalkKnown, UNCHANGED <<setting, fresh, status, turns>>, walk' = [walk EXCEPT !.same = FALSE]
  PROVE  WalkKnown'
  <1>1. PICK w : w = walk
    OBVIOUS
  <1>2. PICK n : n = [w EXCEPT !.same = FALSE]
    OBVIOUS
  <1>3. w \in Walk /\ n = walk'
    BY <1>1, <1>2 DEF WalkKnown, TypeOK
  <1>4. n \in Walk
    BY <1>2, <1>3 DEF Walk
  <1>5. /\ n.mode = w.mode /\ n.why = w.why /\ n.left = w.left /\ n.resumed = w.resumed /\ n.strategy = w.strategy
        /\ n.dependents = w.dependents /\ n.resolved = w.resolved /\ n.still = w.still /\ n.same = FALSE
        /\ n.updated = w.updated /\ n.failed = w.failed /\ n.skipped = w.skipped /\ n.deferred = w.deferred
    BY <1>2, <1>3 DEF Walk
  <1>6. Handled(n) = Handled(w) /\ (Stopping(n) <=> Stopping(w)) /\ (Going(n) <=> Going(w))
    BY <1>5 DEF Handled, Stopping, Going
  <1>7. Coming(n)
    BY <1>1, <1>5, <1>6 DEF WalkKnown, Coming
  <1>8. Reported(n)
    BY <1>1, <1>5, <1>6 DEF WalkKnown, Reported
  <1>9. Stopped(n)
    BY <1>1, <1>5, <1>6 DEF WalkKnown, Stopped
  <1>10. Coming(walk)' /\ Reported(walk)' /\ Stopped(walk)'
    <2>1. Coming(walk)'
      BY <1>3, <1>7 DEF Coming, Handled
    <2>2. Reported(walk)'
      BY <1>3, <1>8 DEF Reported, Handled, Going, Stopping
    <2>3. Stopped(walk)'
      BY <1>3, <1>9 DEF Stopped, Going, Stopping
    <2> QED BY <2>1, <2>2, <2>3
  <1>11. Ordered(walk)' /\ HeldBack(walk)' /\ Based(walk)' /\ Current(walk)'
    BY <1>3, <1>5 DEF Ordered, HeldBack, Based, Current
  <1>12. ByHand(walk)'
    BY <1>1, <1>3, <1>5 DEF WalkKnown, ByHand
  <1>13. TypeOK' /\ CycleOnlyByRace' /\ (Root \in fresh)'
    <2>1. walk' \in Walk'
      BY <1>3, <1>4 DEF Walk
    <2>2. walk'.mode = "threw" <=> walk'.why # "none"
      BY <1>1, <1>3, <1>5 DEF WalkKnown, TypeOK
    <2>3. TypeOK'
      BY <2>1, <2>2 DEF WalkKnown, TypeOK
    <2>4. CycleOnlyByRace'
      BY <1>1, <1>3, <1>5 DEF WalkKnown, CycleOnlyByRace, Interleaved
    <2> QED BY <2>3, <2>4 DEF WalkKnown
  <1> QED BY <1>10, <1>11, <1>12, <1>13 DEF WalkKnown

LEMMA WalkKnownInit ==
  ASSUME Init
  PROVE  WalkKnown
  <1>1. GraphTypes
    BY GraphKnownInit DEF GraphKnown
  <1>2. PICK w : w = NewWalk("idle", "none", <<>>)
    OBVIOUS
  <1>3. w \in Walk /\ NewCall(w, "idle", "none", <<>>)
    <2>1. "idle" \in Modes /\ "idle" \in {"idle", "cascade", "resume"} /\ "none" \in setting.strategies \cup {"none"}
      BY DEF Modes
    <2>2. <<>> \in Seq(Streams)
      OBVIOUS
    <2>3. IsInjective(<<>>)
      BY DEF IsInjective
    <2> QED BY <2>1, <2>2, <2>3, <1>1, <1>2, NewWalkIs
  <1>4. walk = [w EXCEPT !.mode = "idle"] /\ fresh = {Root} /\ status = [s \in Streams |-> "active"] /\ turns = 0
        /\ setting \in Settings
    BY <1>2 DEF Init, DependenciesInit
  <1>5. ToSet(<<>>) = {}
    BY DEF ToSet
  <1>6. walk \in Walk
    BY <1>3, <1>4 DEF Walk, Modes
  <1>7. /\ walk.mode = "idle" /\ walk.why = "none" /\ walk.left = <<>> /\ ~ walk.resumed
        /\ walk.strategy = "none" /\ walk.dependents = {} /\ walk.resolved = {} /\ walk.still = {}
        /\ walk.updated = {} /\ walk.failed = {} /\ walk.skipped = {} /\ walk.deferred = {}
    BY <1>3, <1>4, <1>5 DEF Walk, NewCall
  <1>8. IsInjective(walk.left) /\ ToSet(walk.left) = {} /\ Len(walk.left) = 0
    BY <1>5, <1>7 DEF IsInjective
  <1>9. Coming(walk) /\ Reported(walk) /\ Stopped(walk)
    BY <1>7, <1>8 DEF Coming, Reported, Stopped, Handled, Going, Stopping
  <1>10. Ordered(walk) /\ HeldBack(walk) /\ Based(walk) /\ Current(walk) /\ ByHand(walk)
    BY <1>7, <1>8 DEF Ordered, HeldBack, Based, Current, ByHand
  <1>11. TypeOK
    <2>1. turns \in 0 .. setting.turns
      BY <1>4, CascadeAssumption
    <2> QED BY <2>1, <1>4, <1>6, <1>7, CascadeAssumption DEF TypeOK
  <1> QED BY <1>4, <1>7, <1>9, <1>10, <1>11 DEF WalkKnown, CycleOnlyByRace

LEMMA WalkKnownStep ==
  ASSUME GraphKnown, WalkKnown, [Next]_vars
  PROVE  WalkKnown'
  <1>1. GraphTypes
    BY DEF GraphKnown
  <1>2. CASE UNCHANGED vars
    <2>1. UNCHANGED <<setting, row, walk, turns, fresh, status>>
      BY <1>2 DEF vars, depvars, walkvars
    <2> QED BY <2>1, StreamsKnown, OthersKeep
  <1>3. ASSUME NEW strategy \in setting.strategies, CascadeRebase(strategy) \/ ResumeCascade(strategy)
        PROVE  WalkKnown'
    BY <1>3, CascadeStarts, ResumeStarts
  <1>4. ASSUME NEW s \in Here, Visit(s) PROVE WalkKnown'
    BY <1>1, <1>4, SkipKeeps, WorktreeKeeps, NoTargetKeeps, SuccessKeeps, FailureKeeps, ThrowKeeps DEF Visit
  <1>5. ASSUME NEW s \in Here \ {Root}, PauseStream(s) \/ ResumeStream(s) \/ ClearConflict(s)
        PROVE  WalkKnown'
    <2>1. s \in Streams /\ UNCHANGED <<setting, row, walk, turns>> /\ status \in [Streams -> Statuses]
          /\ fresh \subseteq Streams
      BY <1>5, HereIs, StreamsKnown DEF PauseStream, ResumeStream, ClearConflict, depvars
    <2>2. PICK v \in {"active", "paused"} : status' = [status EXCEPT ![s] = v]
      BY <1>5 DEF PauseStream, ResumeStream, ClearConflict
    <2>3. status' \in [Streams -> Statuses] /\ \A x \in Streams \ {s} : status'[x] = status[x]
      BY <2>1, <2>2 DEF Statuses
    <2>4. fresh \subseteq fresh' /\ fresh' \subseteq Streams
      BY <1>5, <2>1 DEF PauseStream, ResumeStream, ClearConflict
    <2>5. setting.byHand /\ status[s] = "conflicted" => s \in fresh'
      BY <1>5 DEF PauseStream, ResumeStream, ClearConflict
    <2> QED BY <2>1, <2>3, <2>4, <2>5, OthersKeep
  <1>6. ASSUME NEW p \in setting.procs, GraphCalls(p) PROVE WalkKnown'
    <2>1. UNCHANGED <<setting, row, walk, turns, fresh, status>>
      BY <1>6 DEF GraphCalls, Calls, walkvars, AddDependency, AddMergeDependency, Begin, RemoveDependency, ArchiveStream
    <2> QED BY <2>1, StreamsKnown, OthersKeep
  <1>7. ASSUME NEW p \in setting.procs, GraphSteps(p) PROVE WalkKnown'
    <2>1. UNCHANGED <<setting, turns, fresh, status>>
      BY <1>7 DEF GraphSteps, Step, Search, NoCycleFound, ReadList, Upsert, RemoveWrite
    <2>2. CASE row' = row
      <3>1. PICK w \in Walk : w = walk
        BY DEF WalkKnown, TypeOK
      <3>2. [w EXCEPT !.same = @] = w
        BY <3>1 DEF Walk
      <3>3. w.same \in BOOLEAN
        BY <3>1 DEF Walk
      <3>4. walk' = walk
        BY <1>7, <2>2, <3>1, <3>2, <3>3 DEF GraphSteps
      <3> QED BY <2>1, <2>2, <3>4, StreamsKnown, OthersKeep
    <2>3. CASE row' # row
      <3>1. walk' = [walk EXCEPT !.same = FALSE]
        BY <1>7, <2>3 DEF GraphSteps
      <3> QED BY <2>1, <3>1, GraphMoves
    <2> QED BY <2>2, <2>3
  <1> QED BY <1>2, <1>3, <1>4, <1>5, <1>6, <1>7 DEF Next

\* A walk knows at each stream what the next ones need, whatever other processes do
\* to the graph and to the streams in between.
THEOREM WalkStaysKnown == Spec => []WalkKnown
  <1>1. GraphKnown /\ WalkKnown /\ [Next]_vars => WalkKnown'
    BY WalkKnownStep
  <1> QED BY <1>1, WalkKnownInit, GraphStaysKnown, PTL DEF Spec

\* A cascade that is to stop at the first failure stops; one that goes on reports on
\* every dependent once; what was not brought up to date holds its direct dependents
\* back; and a cycle is met only where processes race: for any streams and graph.
THEOREM ReportIsTrue == Spec => []ReportInv
  <1>1. WalkKnown => ReportInv
    <2> SUFFICES ASSUME WalkKnown PROVE ReportInv
      OBVIOUS
    <2>1. TypeOK /\ CycleOnlyByRace
      BY DEF WalkKnown
    <2>2. StopsAtFirst
      BY DEF WalkKnown, Stopped, Stopping, StopsAtFirst, Going, Running
    <2>3. EachReported
      <3>1. Returned => ToSet(walk.left) = {}
        BY DEF WalkKnown, Coming, Returned, ToSet
      <3> QED BY <3>1 DEF WalkKnown, Reported, Handled, Stopping, EachReported, Returned
    <2>4. DependentsHeldBack
      BY DEF WalkKnown, HeldBack, DependentsHeldBack
    <2> QED BY <2>1, <2>2, <2>3, <2>4 DEF ReportInv
  <1> QED BY <1>1, WalkStaysKnown, PTL

\* A call that reports success has brought every stream it was about up to date with
\* the root, for any streams and any graph, in whatever order the walk takes them;
\* where calls are resumed, if conflicts are cleared only after a rebase by hand.
THEOREM SuccessIsCurrent == Spec => []((setting.resumes => setting.byHand) => SuccessMeansCurrent)
  <1>1. WalkKnown => ((setting.resumes => setting.byHand) => SuccessMeansCurrent)
    <2> SUFFICES ASSUME WalkKnown, setting.resumes => setting.byHand, Success, walk.same
        PROVE  walk.resolved \cup walk.dependents \subseteq fresh
      BY DEF SuccessMeansCurrent
    <2>1. walk.mode = "returned" /\ walk.failed = {} /\ walk.skipped = {} /\ walk.deferred = {}
      BY DEF Success, Returned
    <2>2. walk.updated \cup walk.resolved \subseteq fresh
      BY <2>1, StreamsKnown
    <2>3. ToSet(walk.left) = {}
      BY <2>1 DEF WalkKnown, Coming, ToSet
    <2>4. walk.dependents \subseteq walk.updated
      BY <2>1, <2>3 DEF WalkKnown, Reported, Handled
    <2> QED BY <2>2, <2>4
  <1> QED BY <1>1, WalkStaysKnown, PTL

=============================================================================
