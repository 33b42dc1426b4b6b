-------------------------- MODULE DiffStacksProofs --------------------------
(***************************************************************************)
(* Theorems about the diff stacks, for every set of stacks, checkpoints    *)
(* and processes and all settings, crashes included.                       *)
(***************************************************************************)
EXTENDS DiffStacks, FiniteSetTheorems, TLAPS

\* A finite set of numbers has a greatest one.
LEMMA Greatest ==
  ASSUME NEW S \in SUBSET Nat, IsFiniteSet(S), S # {}
  PROVE  \E m \in S : \A n \in S : n <= m
  <1> DEFINE Above(n) == {m \in S : n < m}
             T == {Above(n) : n \in S}
  <1>1. T \subseteq FiniteSubsetsOf(S) /\ T # {}
    <2>1. T \subseteq SUBSET S /\ T # {}
      OBVIOUS
    <2>2. FiniteSubsetsOf(S) = SUBSET S
      BY FS_FiniteSubsetsOfFinite
    <2> HIDE DEF T
    <2>3. QED
      BY <2>1, <2>2
  <1>2. PICK x \in T : \A y \in T : <<y, x>> \notin StrictSubsetOrdering(S)
    <2> HIDE DEF T
    <2>1. IsWellFoundedOn(StrictSubsetOrdering(S), FiniteSubsetsOf(S))
      BY FS_StrictSubsetOrderingWellFounded
    <2>2. QED
      BY <1>1, <2>1, WFMin
  <1>3. PICK m \in S : x = Above(m)
    OBVIOUS
  <1>4. ASSUME NEW n \in S, m < n PROVE FALSE
    <2>1. Above(n) \subseteq Above(m) /\ n \in Above(m) /\ n \notin Above(n)
      <3>1. n \in Nat /\ m \in Nat /\ ~ (n < n) /\ \A o \in S : n < o => m < o
        BY <1>4
      <3>2. QED
        BY <3>1, <1>4
    <2>2. Above(n) \in SUBSET S /\ Above(m) \in SUBSET S /\ Above(n) \in T
      OBVIOUS
    <2> HIDE DEF Above, T
    <2>3. <<Above(n), Above(m)>> \in StrictSubsetOrdering(S)
      BY <2>1, <2>2 DEF StrictSubsetOrdering
    <2>4. QED
      BY <2>2, <2>3, <1>2, <1>3
  <1>5. QED
    BY <1>4

-----------------------------------------------------------------------------
(* What a stack was marked merged by has landed: the inductive invariant *)

EditOps == {"room", "insert", "delete", "close", "move"}
QueueOps == {"shift", "set", "compact"}

LandType ==
  /\ setting \in Setting
  /\ review \in [Stacks -> Statuses \cup {"none"}]
  /\ queue \in [Stacks -> Nat \cup {Null}]
  /\ place \in [Stacks -> [Checkpoints -> Nat \cup {Null}]]
  /\ exists \subseteq Checkpoints /\ landed \subseteq Checkpoints
  /\ picked \in [Stacks -> SUBSET Checkpoints]
  /\ DOMAIN call = Procs

\* A stack that is not there has neither a position nor entries.
NoTraces == \A k \in Stacks : review[k] = "none" =>
  queue[k] = Null /\ \A c \in Checkpoints : place[k][c] = Null

\* As long as stacks are built, one call is under way at most.
OneCall == ~ setting.built =>
  \A p, q \in Procs : p # q => call[p] = <<>> \/ call[q] = <<>>

IsSeq(s) == \E T : s \in Seq(T)

StatementOK(x) ==
  /\ x.stack \in Stacks /\ x.checkpoint \in Checkpoints \cup {None}
  /\ x.op = "pick" => x.checkpoint \in Checkpoints
  /\ x.op \in {"shift", "compact"} => x.value \in Nat
  /\ x.op = "set" => x.value \in Nat \cup {Null}
  /\ x.op \in EditOps => x.checkpoint \in Checkpoints
  /\ x.op \in EditOps \ {"delete"} => x.value \in Nat
  /\ x.op = "review" => x.value \in Statuses
  /\ x.op = "merged" => x.value \subseteq Checkpoints

\* A call edits a stack, or changes the queue, or writes statuses.
Pure(p) == \A i, j \in DOMAIN call[p] :
  /\ call[p][i].op \in EditOps => call[p][j].op \in EditOps
  /\ call[p][i].op \in QueueOps => call[p][j].op \in QueueOps

\* Before a call marks a stack merged it picks what has not landed of what it read.
Backed(p) == \A i \in DOMAIN call[p] : call[p][i].op = "merged" =>
  \A c \in call[p][i].value :
    c \in landed \/ \E j \in 1 .. i - 1 : call[p][j].op = "pick" /\ call[p][j].checkpoint = c

CallOK(p) ==
  /\ IsSeq(call[p])
  /\ \A i \in DOMAIN call[p] : StatementOK(call[p][i])
  /\ Pure(p)
  /\ Backed(p)

LandInv == LandType /\ NoTraces /\ OneCall /\ MergedHasLanded /\ \A p \in Procs : CallOK(p)

-----------------------------------------------------------------------------
(* Nothing is taken off the target, and what a step does not mark merged it *)
(* leaves so.                                                               *)

Lasting == setting' = setting /\ landed \subseteq landed'
Harmless == Lasting /\ picked' = picked

LEMMA TailFacts ==
  ASSUME NEW s, IsSeq(s), s # <<>>
  PROVE  /\ IsSeq(Tail(s)) /\ Head(s) = s[1]
         /\ Len(s) \in Nat /\ Len(s) > 0 /\ DOMAIN s = 1 .. Len(s)
         /\ DOMAIN Tail(s) = 1 .. Len(s) - 1
         /\ \A i \in 1 .. Len(s) - 1 : Tail(s)[i] = s[i + 1]
  BY DEF IsSeq

LEMMA OthersKeep ==
  ASSUME Lasting, NEW p \in Procs, CallOK(p), call'[p] = call[p]
  PROVE  CallOK(p)'
  BY DEF Lasting, CallOK, Pure, Backed

\* The first statement is done; what it picked has landed.
LEMMA NextStatement ==
  ASSUME Lasting, NEW p \in Procs, CallOK(p), call[p] # <<>>,
         Head(call[p]).op = "pick" => Head(call[p]).checkpoint \in landed',
         call'[p] = Tail(call[p])
  PROVE  CallOK(p)'
  <1>a. PICK s : s = call[p]
    OBVIOUS
  <1>b. PICK t : t = call'[p]
    OBVIOUS
  <1>c. PICK n \in Nat : /\ n = Len(s) /\ n > 0 /\ DOMAIN s = 1 .. n /\ Head(call[p]) = s[1]
                         /\ IsSeq(t) /\ DOMAIN t = 1 .. n - 1
                         /\ \A i \in 1 .. n - 1 : t[i] = s[i + 1]
    BY <1>a, <1>b, TailFacts DEF CallOK
  <1>1. /\ IsSeq(t) /\ DOMAIN t = 1 .. n - 1 /\ DOMAIN s = 1 .. n /\ n > 0
        /\ \A i \in 1 .. n - 1 : t[i] = s[i + 1]
    BY <1>c
  <1>2. /\ \A i \in 1 .. n - 1 : StatementOK(s[i + 1])
        /\ \A i, j \in 1 .. n : /\ s[i].op \in EditOps => s[j].op \in EditOps
                                /\ s[i].op \in QueueOps => s[j].op \in QueueOps
        /\ s[1].op = "pick" => s[1].checkpoint \in landed'
    <2>1. \A i \in 1 .. n : StatementOK(s[i])
      BY <1>a, <1>c DEF CallOK
    <2>2. \A i, j \in 1 .. n : /\ s[i].op \in EditOps => s[j].op \in EditOps
                               /\ s[i].op \in QueueOps => s[j].op \in QueueOps
      BY <1>a, <1>c DEF CallOK, Pure
    <2>3. \A i \in 1 .. n - 1 : i + 1 \in 1 .. n
      OBVIOUS
    <2>4. QED
      BY <2>1, <2>2, <2>3, <1>a, <1>c
  <1>3. (\A i \in DOMAIN call[p] : StatementOK(call[p][i]))'
    <2> SUFFICES ASSUME NEW i \in 1 .. n - 1, NEW x, x = s[i + 1] PROVE StatementOK(x)'
      BY <1>b, <1>1 DEF StatementOK
    <2>1. StatementOK(x)
      BY <1>2
    <2>2. QED
      BY <2>1
  <1>4. Pure(p)'
    <2>1. \A i \in 1 .. n - 1 : t[i] = s[i + 1] /\ i + 1 \in 1 .. n
      BY <1>1
    <2>2. \A i, j \in 1 .. n - 1 : /\ t[i].op \in EditOps => t[j].op \in EditOps
                                   /\ t[i].op \in QueueOps => t[j].op \in QueueOps
      BY <2>1, <1>2
    <2>3. QED
      BY <2>2, <1>b, <1>1 DEF Pure
  <1>5. ASSUME NEW i \in 1 .. n - 1, s[i + 1].op = "merged",
               NEW c \in s[i + 1].value
        PROVE  c \in landed' \/ \E j \in 1 .. i - 1 : t[j].op = "pick" /\ t[j].checkpoint = c
    <2>1. i + 1 \in 1 .. n
      OBVIOUS
    <2>2. CASE c \in landed
      BY <2>2 DEF Lasting
    <2>3. CASE c \notin landed
      <3>a. \A m \in 1 .. n : s[m].op = "merged" => \A d \in s[m].value :
              d \in landed \/ \E j \in 1 .. m - 1 : s[j].op = "pick" /\ s[j].checkpoint = d
        <4>1. Backed(p) /\ DOMAIN s = 1 .. n
          BY <1>1 DEF CallOK
        <4>2. \A m \in DOMAIN s : s[m].op = "merged" => \A d \in s[m].value :
                d \in landed \/ \E j \in 1 .. m - 1 : s[j].op = "pick" /\ s[j].checkpoint = d
          BY <4>1, <1>a DEF Backed
        <4>3. QED
          BY <4>1, <4>2
      <3>b. i + 1 - 1 = i
        OBVIOUS
      <3>1. PICK j \in 1 .. i : s[j].op = "pick" /\ s[j].checkpoint = c
        BY <2>1, <2>3, <1>5, <3>a, <3>b
      <3>2. CASE j = 1
        BY <3>1, <3>2, <1>2
      <3>3. CASE j # 1
        <4>1. j - 1 \in 1 .. i - 1 /\ j - 1 \in 1 .. n - 1 /\ j - 1 + 1 = j
          BY <3>3, <1>1
        <4>2. t[j - 1] = s[j]
          BY <4>1, <1>1
        <4>3. QED
          BY <3>1, <4>1, <4>2
      <3>4. QED
        BY <3>2, <3>3
    <2>4. QED
      BY <2>2, <2>3
  <1>6. Backed(p)'
    <2> SUFFICES ASSUME NEW i \in DOMAIN call'[p], call'[p][i].op = "merged",
                        NEW c \in call'[p][i].value
                 PROVE  c \in landed' \/ \E j \in 1 .. i - 1 : /\ call'[p][j].op = "pick"
                                                               /\ call'[p][j].checkpoint = c
      BY DEF Backed
    <2>1. i \in 1 .. n - 1 /\ call'[p][i] = s[i + 1]
      BY <1>b, <1>1
    <2>2. c \in landed' \/ \E j \in 1 .. i - 1 : t[j].op = "pick" /\ t[j].checkpoint = c
      BY <2>1, <1>5
    <2>3. QED
      BY <2>2, <1>b
  <1>7. QED
    BY <1>b, <1>1, <1>3, <1>4, <1>6 DEF CallOK

\* p takes a step, and all that stacks were marked merged by has landed.
LEMMA StepKeeps ==
  ASSUME LandInv, Lasting, LandType', NoTraces', MergedHasLanded', NEW p \in Procs, MayRun(p), CallOK(p)',
         \A q \in Procs : q # p => call'[q] = call[q]
  PROVE  LandInv'
  <1>1. \A q \in Procs : CallOK(q)'
    BY OthersKeep DEF LandInv
  <1>2. OneCall'
    BY DEF LandInv, OneCall, MayRun, Lasting
  <1>3. QED
    BY <1>1, <1>2 DEF LandInv

\* ... and no stack is marked merged
LEMMA HarmlessStep ==
  ASSUME LandInv, Harmless, LandType', NoTraces', NEW p \in Procs, MayRun(p), CallOK(p)',
         \A q \in Procs : q # p => call'[q] = call[q]
  PROVE  LandInv'
  <1>1. MergedHasLanded'
    BY DEF LandInv, MergedHasLanded, Harmless, Lasting
  <1>2. QED
    BY <1>1, StepKeeps DEF Harmless

-----------------------------------------------------------------------------
(* The calls begin *)

\* A call that is not about the queue begins.
NoQueue(p) == \A i \in DOMAIN call[p] : call[p][i].op \notin QueueOps

\* ... or not about the entries of a stack
NoEdit(p) == \A i \in DOMAIN call[p] : call[p][i].op \notin EditOps

Aside(p) ==
  /\ Free(p) /\ UNCHANGED <<setting, queue, crashes>> /\ Rows \subseteq Rows'
  /\ \A q \in Procs : q # p => call'[q] = call[q]
  /\ NoQueue(p)'

LEMMA BeginKeeps ==
  ASSUME LandInv, NEW p \in Procs, Free(p), Unchanged, CallOK(p)',
         \A q \in Procs : q # p => call'[q] = call[q], DOMAIN call' = Procs
  PROVE  LandInv'
  <1>1. Harmless /\ LandType' /\ NoTraces'
    BY DEF Harmless, Lasting, LandInv, LandType, NoTraces, Unchanged, rest
  <1>2. QED
    BY <1>1, HarmlessStep DEF Free

QueueStatement(x) ==
  /\ x.op \in {"shift", "set", "compact"} /\ x.stack \in Stacks /\ x.checkpoint = None
  /\ x.value \in Nat \cup {Null} /\ (x.op # "set" => x.value \in Nat)

\* A call that only changes the queue is of no interest here.
LEMMA QueueCall ==
  ASSUME NEW p \in Procs, IsSeq(call'[p]),
         \A i \in DOMAIN call'[p] : QueueStatement(call'[p][i])
  PROVE  CallOK(p)'
  BY DEF QueueStatement, CallOK, StatementOK, Pure, Backed, EditOps, QueueOps

\* A call that edits a stack.
LEMMA EditCall ==
  ASSUME NEW p \in Procs, IsSeq(call'[p]),
         \A i \in DOMAIN call'[p] : /\ call'[p][i].op \in EditOps
                                    /\ call'[p][i].stack \in Stacks
                                    /\ call'[p][i].checkpoint \in Checkpoints
                                    /\ call'[p][i].op # "delete" => call'[p][i].value \in Nat
  PROVE  CallOK(p)'
  BY DEF CallOK, StatementOK, Pure, Backed, EditOps, QueueOps

LEMMA TupleSeq ==
  /\ \A a : IsSeq(<<a>>) /\ DOMAIN <<a>> = {1}
  /\ \A a, b : IsSeq(<<a, b>>) /\ DOMAIN <<a, b>> = {1, 2}
  <1>1. \A a : <<a>> \in Seq({a}) /\ DOMAIN <<a>> = {1}
    OBVIOUS
  <1>2. \A a, b : <<a, b>> \in Seq({a, b}) /\ DOMAIN <<a, b>> = {1, 2}
    OBVIOUS
  <1>3. QED
    BY <1>1, <1>2 DEF IsSeq

LEMMA Concatenation ==
  ASSUME NEW s, NEW t, IsSeq(s), IsSeq(t)
  PROVE  /\ IsSeq(s \o t)
         /\ DOMAIN (s \o t) = 1 .. Len(s) + Len(t)
         /\ \A i \in 1 .. Len(s) : (s \o t)[i] = s[i]
         /\ \A i \in Len(s) + 1 .. Len(s) + Len(t) : (s \o t)[i] = t[i - Len(s)]
  <1>1. PICK S, T : s \in Seq(S) /\ t \in Seq(T)
    BY DEF IsSeq
  <1>2. s \in Seq(S \cup T) /\ t \in Seq(S \cup T)
    BY <1>1
  <1>3. s \o t \in Seq(S \cup T) /\ Len(s \o t) = Len(s) + Len(t)
    BY <1>2
  <1>4. QED
    BY <1>2, <1>3 DEF IsSeq

LEMMA ReviewBegins ==
  ASSUME LandInv, NEW p \in Procs, NEW k \in Stacks, NEW st \in Statuses,
         SetStackReviewStatus(p, k, st)
  PROVE  LandInv' /\ Aside(p) /\ NoEdit(p)'
  <1>1. Free(p) /\ Unchanged /\ call' = [call EXCEPT ![p] = <<Statement("review", k, None, st)>>]
    BY DEF SetStackReviewStatus, Begin
  <1>2. call'[p] = <<Statement("review", k, None, st)>>
    BY <1>1 DEF LandInv, LandType
  <1>4. CallOK(p)'
    <2>1. StatementOK(Statement("review", k, None, st))
      BY DEF StatementOK, Statement, EditOps
    <2>2. IsSeq(call'[p]) /\ DOMAIN call'[p] = {1} /\ call'[p][1] = Statement("review", k, None, st)
      BY <1>2, TupleSeq
    <2>3. (\A i \in DOMAIN call[p] : StatementOK(call[p][i]))'
      BY <2>1, <2>2 DEF StatementOK
    <2>4. QED
      BY <2>2, <2>3 DEF CallOK, Pure, Backed, Statement
  <1>5. NoQueue(p)' /\ NoEdit(p)'
    BY <1>2 DEF NoQueue, NoEdit, QueueOps, EditOps, Statement
  <1>6. \A q \in Procs : q # p => call'[q] = call[q]
    BY <1>1 DEF LandInv, LandType
  <1>7. Aside(p)
    BY <1>1, <1>5, <1>6 DEF Aside, Unchanged, rest, Rows
  <1>8. QED
    BY <1>1, <1>4, <1>5, <1>7, BeginKeeps DEF LandInv, LandType

LEMMA StatementFields ==
  ASSUME NEW op, NEW k, NEW c, NEW x
  PROVE  /\ Statement(op, k, c, x).op = op /\ Statement(op, k, c, x).stack = k
         /\ Statement(op, k, c, x).checkpoint = c /\ Statement(op, k, c, x).value = x
  BY DEF Statement

LEMMA NextPositionType ==
  ASSUME queue \in [Stacks -> Nat \cup {Null}]
  PROVE  NextPosition \in Nat
  <1> DEFINE S == {queue[k] : k \in Queued}
  <1>1. IsFiniteSet(Queued)
    BY StacksAssumption, FS_Subset DEF Queued
  <1>2. CASE Queued = {}
    BY <1>2 DEF NextPosition
  <1>3. CASE Queued # {}
    <2>1. S \in SUBSET Nat /\ S # {}
      <3>1. \A k \in Queued : queue[k] \in Nat
        BY DEF Queued
      <3>2. QED
        BY <3>1, <1>3
    <2>2. IsFiniteSet(S)
      <3>1. [k \in Queued |-> queue[k]] \in Surjection(Queued, S)
        BY DEF Surjection
      <3>2. QED
        BY <3>1, <1>1, FS_Surjection
    <2>3. \E m \in S : \A n \in S : n <= m
      BY <2>1, <2>2, Greatest
    <2>4. \E m \in S : \A k \in Queued : queue[k] <= m
      BY <2>3
    <2>5. (CHOOSE n \in S : \A k \in Queued : queue[k] <= n) \in Nat
      BY <2>1, <2>4
    <2>6. QED
      BY <1>3, <2>5 DEF NextPosition
  <1>4. QED
    BY <1>2, <1>3

LEMMA NamingList ==
  ASSUME NEW S, NEW order \in Naming(S)
  PROVE  \E n \in Nat : order \in [1 .. n -> S] /\ {order[i] : i \in 1 .. n} = S
  <1>1. PICK n \in 0 .. Cardinality(S) + 1 : order \in [1 .. n -> S]
    BY DEF Naming
  <1>2. n \in Nat
    OBVIOUS
  <1>3. {order[i] : i \in DOMAIN order} = S /\ DOMAIN order = 1 .. n
    BY <1>1 DEF Naming
  <1>4. QED
    BY <1>1, <1>2, <1>3

LEMMA QueueBegins ==
  ASSUME LandInv, NEW p \in Procs, NEW k \in Stacks,
         \/ \E n \in Nat : SetStackQueuePosition(p, k, n)
         \/ LeaveQueue(p, k) \/ EnqueueStack(p, k) \/ DequeueStack(p, k) \/ ReorderQueue(p)
  PROVE  LandInv' /\ NoEdit(p)'
  <1>1. /\ Free(p) /\ Unchanged
        /\ \/ \E n \in Nat : Begin(p, TakePosition(k, n))
           \/ Begin(p, <<Statement("set", k, None, Null)>>)
           \/ \E n \in Nat : Begin(p, <<Statement("set", k, None, Null), Statement("compact", k, None, n)>>)
           \/ \E order \in Naming(Queued) :
                Begin(p, [i \in DOMAIN order |-> Statement("set", order[i], None, i - 1)])
    <2>1. queue \in [Stacks -> Nat \cup {Null}]
      BY DEF LandInv, LandType
    <2>2. NextPosition \in Nat /\ \A j \in Queued : queue[j] \in Nat
      BY <2>1, NextPositionType DEF Queued
    <2>3. QED
      BY <2>2 DEF SetStackQueuePosition, LeaveQueue, EnqueueStack, DequeueStack, ReorderQueue
  <1>2. PICK s : Begin(p, s) /\ IsSeq(s) /\ \A i \in DOMAIN s : QueueStatement(s[i])
    <2>1. ASSUME NEW n \in Nat, Begin(p, TakePosition(k, n))
          PROVE  \E s : Begin(p, s) /\ IsSeq(s) /\ \A i \in DOMAIN s : QueueStatement(s[i])
      <3>1. IsSeq(TakePosition(k, n)) /\ DOMAIN TakePosition(k, n) = {1, 2}
        BY TupleSeq DEF TakePosition
      <3>2. \A i \in {1, 2} : QueueStatement(TakePosition(k, n)[i])
        BY StatementFields DEF TakePosition, QueueStatement
      <3>3. QED
        BY <2>1, <3>1, <3>2
    <2>2. ASSUME Begin(p, <<Statement("set", k, None, Null)>>)
          PROVE  \E s : Begin(p, s) /\ IsSeq(s) /\ \A i \in DOMAIN s : QueueStatement(s[i])
      <3>1. \A i \in {1} : QueueStatement(<<Statement("set", k, None, Null)>>[i])
        BY StatementFields DEF QueueStatement
      <3>2. QED
        BY <2>2, <3>1, TupleSeq
    <2>3. ASSUME NEW n \in Nat, Begin(p, <<Statement("set", k, None, Null), Statement("compact", k, None, n)>>)
          PROVE  \E s : Begin(p, s) /\ IsSeq(s) /\ \A i \in DOMAIN s : QueueStatement(s[i])
      <3>1. \A i \in {1, 2} :
              QueueStatement(<<Statement("set", k, None, Null), Statement("compact", k, None, n)>>[i])
        BY StatementFields DEF QueueStatement
      <3>2. QED
        BY <2>3, <3>1, TupleSeq
    <2>4. ASSUME NEW order \in Naming(Queued),
                 Begin(p, [i \in DOMAIN order |-> Statement("set", order[i], None, i - 1)])
          PROVE  \E s : Begin(p, s) /\ IsSeq(s) /\ \A i \in DOMAIN s : QueueStatement(s[i])
      <3> DEFINE s == [i \in DOMAIN order |-> Statement("set", order[i], None, i - 1)]
      <3>1. PICK n \in Nat : order \in [1 .. n -> Queued]
        BY NamingList
      <3>2. s \in Seq({s[i] : i \in DOMAIN s})
        BY <3>1
      <3>3. \A i \in DOMAIN s : QueueStatement(s[i])
        BY <3>1, StatementFields DEF QueueStatement, Queued
      <3>4. QED
        BY <2>4, <3>2, <3>3 DEF IsSeq
    <2>5. QED
      BY <1>1, <2>1, <2>2, <2>3, <2>4
  <1>3. call'[p] = s /\ DOMAIN call' = Procs /\ \A q \in Procs : q # p => call'[q] = call[q]
    BY <1>2 DEF Begin, LandInv, LandType
  <1>4. CallOK(p)'
    BY <1>2, <1>3, QueueCall
  <1>5. NoEdit(p)'
    BY <1>2, <1>3 DEF NoEdit, EditOps, QueueStatement
  <1>6. QED
    BY <1>1, <1>3, <1>4, <1>5, BeginKeeps

EditStatement(x) ==
  /\ x.op \in EditOps /\ x.stack \in Stacks /\ x.checkpoint \in Checkpoints
  /\ x.op # "delete" => x.value \in Nat

LEMMA EndType ==
  ASSUME LandInv, NEW k \in Stacks
  PROVE  EndOfStack(k) \in Nat /\ IsFiniteSet(Content(k)) /\ Cardinality(Content(k)) \in Nat
  <1>1. IsFiniteSet(Content(k)) /\ Cardinality(Content(k)) \in Nat
    BY StacksAssumption, FS_Subset, FS_CardinalityType DEF Content
  <1> DEFINE S == {place[k][c] : c \in Content(k)}
  <1>2. CASE Content(k) = {}
    BY <1>1, <1>2 DEF EndOfStack
  <1>3. CASE Content(k) # {}
    <2>1. S \in SUBSET Nat /\ S # {}
      <3>1. \A c \in Content(k) : place[k][c] \in Nat
        BY DEF Content, LandInv, LandType
      <3>2. QED
        BY <3>1, <1>3
    <2>2. IsFiniteSet(S)
      <3>1. [c \in Content(k) |-> place[k][c]] \in Surjection(Content(k), S)
        BY DEF Surjection
      <3>2. QED
        BY <3>1, <1>1, FS_Surjection
    <2>3. \E m \in S : \A n \in S : n <= m
      BY <2>1, <2>2, Greatest
    <2>4. \E m \in S : \A c \in Content(k) : place[k][c] <= m
      BY <2>3
    <2>5. (CHOOSE n \in S : \A c \in Content(k) : place[k][c] <= n) \in Nat
      BY <2>1, <2>4
    <2>6. QED
      BY <1>1, <1>3, <2>5 DEF EndOfStack
  <1>4. QED
    BY <1>2, <1>3

LEMMA EditBegins ==
  ASSUME LandInv, NEW p \in Procs, NEW k \in Stacks, Free(p), Unchanged,
         NEW s, Begin(p, s), IsSeq(s),
         \A i \in DOMAIN s : EditStatement(s[i]) /\ s[i].stack = k
  PROVE  LandInv' /\ Aside(p)
  <1>1. call'[p] = s /\ DOMAIN call' = Procs /\ \A q \in Procs : q # p => call'[q] = call[q]
    BY DEF Begin, LandInv, LandType
  <1>3. CallOK(p)'
    BY <1>1, EditCall DEF EditStatement
  <1>4. NoQueue(p)'
    BY <1>1 DEF NoQueue, EditStatement, EditOps, QueueOps
  <1>5. Aside(p)
    BY <1>1, <1>4 DEF Aside, Unchanged, rest, Rows
  <1>6. QED
    BY <1>1, <1>3, <1>5, BeginKeeps

LEMMA ContentEdits ==
  ASSUME LandInv, NEW p \in Procs, NEW k \in Stacks,
         \/ \E c \in exists : AddCheckpointToStack(p, k, c) \/ RemoveCheckpointFromStack(p, k, c)
         \/ ReorderStackCheckpoints(p, k)
  PROVE  LandInv' /\ Aside(p)
  <1>a. exists \subseteq Checkpoints /\ Content(k) \subseteq Checkpoints
    BY DEF LandInv, LandType, Content
  <1>1. ASSUME NEW c \in exists, AddCheckpointToStack(p, k, c) PROVE LandInv' /\ Aside(p)
    <2>1. Free(p) /\ Unchanged /\ c \in Checkpoints
      BY <1>1, <1>a DEF AddCheckpointToStack
    <2>2. ASSUME NEW n \in Nat, Begin(p, <<Statement("insert", k, c, n)>>) PROVE LandInv' /\ Aside(p)
      <3>1. \A i \in {1} : /\ EditStatement(<<Statement("insert", k, c, n)>>[i])
                           /\ <<Statement("insert", k, c, n)>>[i].stack = k
        BY <2>1, StatementFields DEF EditStatement, EditOps
      <3>2. QED
        BY <2>1, <2>2, <3>1, TupleSeq, EditBegins
    <2>3. ASSUME NEW n \in Nat, Begin(p, InsertAt(k, c, n)) PROVE LandInv' /\ Aside(p)
      <3>1. IsSeq(InsertAt(k, c, n)) /\ DOMAIN InsertAt(k, c, n) = {1, 2}
        BY TupleSeq DEF InsertAt
      <3>2. \A i \in {1, 2} : EditStatement(InsertAt(k, c, n)[i]) /\ InsertAt(k, c, n)[i].stack = k
        BY <2>1, StatementFields DEF EditStatement, EditOps, InsertAt
      <3>3. QED
        BY <2>1, <2>3, <3>1, <3>2, EditBegins
    <2>a. \A n \in 0 .. MaxPlace : n \in Nat
      OBVIOUS
    <2>4. QED
      BY <1>1, <2>2, <2>3, <2>a, EndType DEF AddCheckpointToStack
  <1>2. ASSUME NEW c \in exists, RemoveCheckpointFromStack(p, k, c) PROVE LandInv' /\ Aside(p)
    <2>1. place[k][c] \in Nat /\ Free(p) /\ Unchanged /\ c \in Checkpoints
      BY <1>2, <1>a DEF RemoveCheckpointFromStack, LandInv, LandType, Content
    <2>2. PICK s : s = <<Statement("delete", k, c, Null), Statement("close", k, c, place[k][c])>>
      OBVIOUS
    <2>3. IsSeq(s) /\ DOMAIN s = {1, 2}
      BY <2>2, TupleSeq
    <2>4. \A i \in {1, 2} : EditStatement(s[i]) /\ s[i].stack = k
      BY <2>1, <2>2, StatementFields DEF EditStatement, EditOps
    <2>5. Begin(p, s)
      BY <1>2, <2>2 DEF RemoveCheckpointFromStack
    <2>6. QED
      BY <2>1, <2>3, <2>4, <2>5, EditBegins
  <1>3. ASSUME ReorderStackCheckpoints(p, k) PROVE LandInv' /\ Aside(p)
    <2>1. Free(p) /\ Unchanged
      BY <1>3 DEF ReorderStackCheckpoints
    <2>2. PICK order \in Naming(Content(k)) :
            Begin(p, [i \in DOMAIN order |-> Statement("move", k, order[i], i - 1)])
      BY <1>3 DEF ReorderStackCheckpoints
    <2>3. PICK n \in Nat : order \in [1 .. n -> Content(k)]
      BY NamingList
    <2>4. PICK s : s = [i \in 1 .. n |-> Statement("move", k, order[i], i - 1)]
      OBVIOUS
    <2>5. s \in Seq({s[i] : i \in 1 .. n}) /\ DOMAIN s = 1 .. n
      <3>1. DOMAIN s = 1 .. n /\ s \in [1 .. n -> {s[i] : i \in 1 .. n}]
        BY <2>4
      <3>2. QED
        BY <3>1
    <2>6. \A i \in 1 .. n : EditStatement(s[i]) /\ s[i].stack = k
      BY <2>3, <2>4, <1>a, StatementFields DEF EditStatement, EditOps
    <2>7. IsSeq(s) /\ Begin(p, s)
      BY <2>2, <2>3, <2>4, <2>5 DEF IsSeq
    <2>8. QED
      BY <2>1, <2>5, <2>6, <2>7, EditBegins
  <1>4. QED
    BY <1>1, <1>2, <1>3

LEMMA CreateBegins ==
  ASSUME LandInv, NEW p \in Procs, NEW k \in Stacks,
         NEW m \in 0 .. 2, NEW order \in [1 .. m -> exists], CreateDiffStack(p, k, order)
  PROVE  LandInv' /\ Aside(p)
  <1>a. exists \subseteq Checkpoints /\ order \in Seq(exists) /\ Len(order) = m
    BY DEF LandInv, LandType
  <1>1. PICK s : /\ Begin(p, s) /\ IsSeq(s)
                 /\ \A i \in DOMAIN s : EditStatement(s[i]) /\ s[i].stack = k
    <2>1. CASE m = 0
      <3>1. Begin(p, <<>>) /\ IsSeq(<<>>) /\ DOMAIN <<>> = {}
        BY <2>1, <1>a DEF CreateDiffStack, IsSeq
      <3>2. QED
        BY <3>1
    <2>2. CASE m = 1
      <3>1. PICK s : s = InsertAt(k, order[1], 0)
        OBVIOUS
      <3>2. IsSeq(s) /\ DOMAIN s = {1, 2}
        BY <3>1, TupleSeq DEF InsertAt
      <3>3. \A i \in {1, 2} : EditStatement(s[i]) /\ s[i].stack = k
        BY <3>1, <2>2, <1>a, StatementFields DEF EditStatement, EditOps, InsertAt
      <3>4. QED
        BY <2>2, <1>a, <3>1, <3>2, <3>3 DEF CreateDiffStack
    <2>3. CASE m = 2
      <3>a. \A c \in Checkpoints, n \in Nat : \E x :
              /\ x = InsertAt(k, c, n) /\ IsSeq(x) /\ Len(x) = 2
              /\ \A i \in {1, 2} : EditStatement(x[i]) /\ x[i].stack = k
        <4> SUFFICES ASSUME NEW c \in Checkpoints, NEW n \in Nat,
                            NEW x, x = InsertAt(k, c, n)
                     PROVE  /\ IsSeq(x) /\ Len(x) = 2
                            /\ \A i \in {1, 2} : EditStatement(x[i]) /\ x[i].stack = k
          OBVIOUS
        <4>1. \A a, b : Len(<<a, b>>) = 2
          OBVIOUS
        <4>2. IsSeq(x) /\ Len(x) = 2
          BY <4>1, TupleSeq DEF InsertAt
        <4>3. \A i \in {1, 2} : EditStatement(x[i]) /\ x[i].stack = k
          BY StatementFields DEF EditStatement, EditOps, InsertAt
        <4>4. QED
          BY <4>2, <4>3
      <3>b. order[1] \in Checkpoints /\ order[2] \in Checkpoints
        BY <1>a, <2>3
      <3>c. PICK x : /\ x = InsertAt(k, order[1], 0) /\ IsSeq(x) /\ Len(x) = 2
                     /\ \A i \in {1, 2} : EditStatement(x[i]) /\ x[i].stack = k
        BY <3>a, <3>b
      <3>d. PICK y : /\ y = InsertAt(k, order[2], 1) /\ IsSeq(y) /\ Len(y) = 2
                     /\ \A i \in {1, 2} : EditStatement(y[i]) /\ y[i].stack = k
        BY <3>a, <3>b
      <3>1. PICK s : s = x \o y
        OBVIOUS
      <3>3. /\ IsSeq(s) /\ DOMAIN s = 1 .. 2 + 2
            /\ \A i \in 1 .. 2 : s[i] = x[i]
            /\ \A i \in 2 + 1 .. 2 + 2 : s[i] = y[i - 2]
        <4>1. /\ IsSeq(x \o y) /\ DOMAIN (x \o y) = 1 .. Len(x) + Len(y)
              /\ \A i \in 1 .. Len(x) : (x \o y)[i] = x[i]
              /\ \A i \in Len(x) + 1 .. Len(x) + Len(y) : (x \o y)[i] = y[i - Len(x)]
          BY <3>c, <3>d, Concatenation
        <4>2. Len(x) = 2 /\ Len(y) = 2
          BY <3>c, <3>d
        <4>3. QED
          BY <3>1, <4>1, <4>2
      <3>5. \A i \in DOMAIN s : EditStatement(s[i]) /\ s[i].stack = k
        <4>1. ASSUME NEW i \in 1 .. 4 PROVE EditStatement(s[i]) /\ s[i].stack = k
          <5>1. CASE i \in {1, 2}
            BY <5>1, <3>3, <3>c
          <5>2. CASE i \in {3, 4}
            <6>1. i - 2 \in {1, 2} /\ s[i] = y[i - 2]
              BY <5>2, <3>3
            <6>2. QED
              BY <6>1, <3>d
          <5>3. QED
            BY <5>1, <5>2
        <4>2. QED
          BY <4>1, <3>3
      <3>6. Len(order) = 2
        BY <2>3, <1>a
      <3>7. Begin(p, s)
        BY <3>1, <3>c, <3>d, <3>6 DEF CreateDiffStack
      <3>8. QED
        BY <3>3, <3>5, <3>7
    <2>4. QED
      BY <2>1, <2>2, <2>3
  <1>2. /\ Free(p) /\ UNCHANGED <<rest, queue, place, exists, landed, picked>>
        /\ review' = [review EXCEPT ![k] = "pending"]
    BY DEF CreateDiffStack
  <1>3. Harmless /\ LandType' /\ NoTraces'
    BY <1>1, <1>2 DEF Harmless, Lasting, LandInv, LandType, NoTraces, rest, Begin, Statuses
  <1>4. call'[p] = s /\ \A q \in Procs : q # p => call'[q] = call[q]
    BY <1>1 DEF Begin, LandInv, LandType
  <1>5. CallOK(p)'
    BY <1>1, <1>4, EditCall DEF EditStatement
  <1>6. NoQueue(p)'
    BY <1>1, <1>4 DEF NoQueue, EditStatement, EditOps, QueueOps
  <1>7. Rows \subseteq Rows'
    BY <1>2 DEF Rows, LandInv, LandType
  <1>8. Aside(p)
    BY <1>2, <1>4, <1>6, <1>7 DEF Aside, rest
  <1>9. QED
    BY <1>2, <1>3, <1>4, <1>5, <1>8, HarmlessStep DEF Free

\* p begins to pick the content of k, n checkpoints
PicksAll(p, k, s, n) ==
  /\ Begin(p, s) /\ IsSeq(s) /\ DOMAIN s = 1 .. n + 1
  /\ \A i \in 1 .. n : s[i].op = "pick" /\ s[i].stack = k /\ s[i].checkpoint \in Checkpoints
  /\ s[n + 1].op = "merged" /\ s[n + 1].stack = k /\ s[n + 1].checkpoint = None
  /\ s[n + 1].value = Content(k)
  /\ \A c \in Content(k) : \E j \in 1 .. n : s[j].checkpoint = c

LEMMA PickCall ==
  ASSUME LandInv, NEW p \in Procs, NEW k \in Stacks, CherryPickStackToTarget(p, k)
  PROVE  \E s, n : n \in Nat /\ PicksAll(p, k, s, n)
  <1>1. PICK n \in Nat : n = Cardinality(Content(k))
    BY EndType
  <1>2. PICK order \in [1 .. n -> Content(k)] :
          /\ InPlace(k, order)
          /\ Begin(p, Picks(k, order) \o <<Statement("merged", k, None, Content(k))>>)
    BY <1>1 DEF CherryPickStackToTarget
  <1>3. PICK x : x = Picks(k, order)
    OBVIOUS
  <1>4. PICK y : y = <<Statement("merged", k, None, Content(k))>>
    OBVIOUS
  <1>5. PICK s : s = x \o y
    OBVIOUS
  <1>6. /\ x \in Seq({x[i] : i \in 1 .. n}) /\ Len(x) = n
        /\ \A i \in 1 .. n : x[i] = Statement("pick", k, order[i], Null)
    BY <1>3 DEF Picks
  <1>7. IsSeq(y) /\ Len(y) = 1 /\ y[1] = Statement("merged", k, None, Content(k))
    <2>1. \A a : Len(<<a>>) = 1
      OBVIOUS
    <2>2. QED
      BY <1>4, <2>1, TupleSeq
  <1>8. /\ IsSeq(s) /\ DOMAIN s = 1 .. n + 1
        /\ \A i \in 1 .. n : s[i] = x[i]
        /\ \A i \in n + 1 .. n + 1 : s[i] = y[i - n]
    <2>1. IsSeq(x)
      BY <1>6 DEF IsSeq
    <2>2. /\ IsSeq(x \o y) /\ DOMAIN (x \o y) = 1 .. Len(x) + Len(y)
          /\ \A i \in 1 .. Len(x) : (x \o y)[i] = x[i]
          /\ \A i \in Len(x) + 1 .. Len(x) + Len(y) : (x \o y)[i] = y[i - Len(x)]
      BY <2>1, <1>7, Concatenation
    <2>3. Len(x) = n /\ Len(y) = 1
      BY <1>6, <1>7
    <2>4. QED
      BY <1>5, <2>2, <2>3
  <1>9. s[n + 1] = Statement("merged", k, None, Content(k))
    <2>1. n + 1 \in n + 1 .. n + 1 /\ n + 1 - n = 1
      OBVIOUS
    <2>2. QED
      BY <2>1, <1>7, <1>8
  <1>10. /\ \A i \in 1 .. n : s[i].op = "pick" /\ s[i].checkpoint = order[i] /\ s[i].stack = k
         /\ s[n + 1].op = "merged" /\ s[n + 1].stack = k /\ s[n + 1].checkpoint = None
         /\ s[n + 1].value = Content(k)
         /\ \A i \in 1 .. n : order[i] \in Checkpoints
    <2>1. \A i \in 1 .. n : order[i] \in Checkpoints
      BY DEF Content
    <2>2. QED
      BY <2>1, <1>6, <1>8, <1>9, StatementFields
  <1>11. \A c \in Content(k) : \E j \in 1 .. n : s[j].checkpoint = c
    BY <1>2, <1>10 DEF InPlace
  <1>12. Begin(p, s)
    BY <1>2, <1>3, <1>4, <1>5
  <1>13. PicksAll(p, k, s, n)
    BY <1>8, <1>10, <1>11, <1>12 DEF PicksAll
  <1>14. QED
    BY <1>13

LEMMA PickBegins ==
  ASSUME LandInv, NEW p \in Procs, NEW k \in Stacks, CherryPickStackToTarget(p, k)
  PROVE  LandInv' /\ Aside(p) /\ NoEdit(p)'
  <1>1. PICK s, n : n \in Nat /\ PicksAll(p, k, s, n)
    BY PickCall
  <1>2. call'[p] = s /\ DOMAIN call' = Procs /\ \A q \in Procs : q # p => call'[q] = call[q]
    BY <1>1 DEF PicksAll, Begin, LandInv, LandType
  <1>3. n \in Nat /\ \A i \in 1 .. n + 1 : i \in 1 .. n \/ i = n + 1
    BY <1>1
  <1>4. (\A i \in DOMAIN call[p] : StatementOK(call[p][i]))' /\ Pure(p)'
    <2>1. \A i \in 1 .. n + 1 :
            /\ s[i].stack = k /\ s[i].op \in {"pick", "merged"}
            /\ s[i].checkpoint \in Checkpoints \cup {None}
            /\ s[i].op = "pick" => s[i].checkpoint \in Checkpoints
            /\ s[i].op = "merged" => s[i].value \subseteq Checkpoints
      BY <1>1, <1>3 DEF PicksAll, Content
    <2>2. QED
      BY <2>1, <1>1, <1>2 DEF PicksAll, StatementOK, Pure, EditOps, QueueOps
  <1>5. Backed(p)'
    <2> SUFFICES ASSUME NEW i \in 1 .. n + 1, s[i].op = "merged", NEW c \in s[i].value
                 PROVE  \E j \in 1 .. i - 1 : s[j].op = "pick" /\ s[j].checkpoint = c
      BY <1>1, <1>2 DEF PicksAll, Backed
    <2>3. i = n + 1 /\ i - 1 = n
      BY <1>1, <1>3 DEF PicksAll
    <2>4. c \in Content(k)
      BY <2>3, <1>1 DEF PicksAll
    <2>5. QED
      BY <2>3, <2>4, <1>1 DEF PicksAll
  <1>6. CallOK(p)'
    BY <1>1, <1>2, <1>4, <1>5 DEF PicksAll, CallOK
  <1>7. NoQueue(p)' /\ NoEdit(p)'
    <2>1. \A i \in 1 .. n + 1 : s[i].op \in {"pick", "merged"}
      BY <1>1, <1>3 DEF PicksAll
    <2>2. QED
      BY <2>1, <1>1, <1>2 DEF PicksAll, NoQueue, NoEdit, QueueOps, EditOps
  <1>8. Aside(p)
    BY <1>2, <1>7 DEF Aside, CherryPickStackToTarget, Unchanged, rest, Rows
  <1>9. QED
    BY <1>2, <1>6, <1>7, <1>8, BeginKeeps DEF CherryPickStackToTarget

-----------------------------------------------------------------------------
(* The statements *)

LEMMA HeadOK ==
  ASSUME LandInv, NEW p \in Procs, call[p] # <<>>
  PROVE  StatementOK(Head(call[p])) /\ CallOK(p) /\ Head(call[p]) = call[p][1]
  <1>1. PICK s : s = call[p]
    OBVIOUS
  <1>2. Head(s) = s[1] /\ 1 \in DOMAIN s
    BY <1>1, TailFacts DEF LandInv, CallOK
  <1>3. QED
    BY <1>1, <1>2 DEF LandInv, CallOK, StatementOK

LEMMA NothingLeft ==
  ASSUME NEW p \in Procs, call'[p] = <<>>
  PROVE  CallOK(p)'
  <1>1. <<>> \in Seq({}) /\ DOMAIN <<>> = {}
    OBVIOUS
  <1>2. QED
    BY <1>1 DEF CallOK, IsSeq, Pure, Backed

\* Positions are numbers, and a stack that is not there gets none.
LEMMA QueueTyped ==
  ASSUME LandInv, NEW p \in Procs, WriteQueue(p)
  PROVE  /\ queue' \in [Stacks -> Nat \cup {Null}]
         /\ \A k \in Stacks : review[k] = "none" => queue'[k] = queue[k]
  <1>1. PICK h : h = Head(call[p])
    OBVIOUS
  <1>2. StatementOK(h)
    BY <1>1, HeadOK DEF WriteQueue, Does
  <1>3. /\ queue \in [Stacks -> Nat \cup {Null}] /\ Null \notin Nat
        /\ \A k \in Stacks : review[k] = "none" => queue[k] = Null
    BY StacksAssumption DEF LandInv, LandType, NoTraces
  <1>4. CASE h.op = "shift" /\ queue' = Shift(h.value)
    BY <1>2, <1>3, <1>4 DEF StatementOK, Shift, Queued
  <1>5. CASE h.op = "compact" /\ queue' = Compact(h.value)
    <2>1. PICK n \in Nat : n = h.value
      BY <1>2, <1>5 DEF StatementOK
    <2>2. \A k \in Stacks : queue[k] # Null /\ queue[k] > n => queue[k] - 1 \in Nat
      BY <1>3
    <2>3. QED
      BY <1>3, <1>5, <2>1, <2>2 DEF Compact, Queued
  <1>6. CASE /\ h.op = "set"
             /\ queue' = IF h.stack \in Rows THEN [queue EXCEPT ![h.stack] = h.value] ELSE queue
    <2>1. h.value \in Nat \cup {Null} /\ \A k \in Rows : review[k] # "none"
      BY <1>2, <1>6 DEF StatementOK, Rows
    <2>2. QED
      BY <1>3, <1>6, <2>1
  <1>7. QED
    BY <1>1, <1>4, <1>5, <1>6 DEF WriteQueue, Does

LEMMA QueueStep == ASSUME LandInv, NEW p \in Procs, WriteQueue(p) PROVE LandInv'
  <1>1. /\ MayRun(p) /\ call[p] # <<>> /\ Head(call[p]).op \in {"shift", "set", "compact"}
        /\ Done(p) /\ UNCHANGED <<setting, review, place, exists, landed, picked>>
    BY DEF WriteQueue, Does, rest
  <1>2. /\ call'[p] = Tail(call[p]) /\ DOMAIN call' = Procs
        /\ \A q \in Procs : q # p => call'[q] = call[q]
    BY <1>1 DEF Done, LandInv, LandType
  <1>a. /\ queue' \in [Stacks -> Nat \cup {Null}]
        /\ \A k \in Stacks : review[k] = "none" => queue'[k] = queue[k]
    BY QueueTyped
  <1>3. Harmless /\ LandType' /\ NoTraces'
    BY <1>1, <1>2, <1>a DEF Harmless, Lasting, LandInv, LandType, NoTraces
  <1>4. CallOK(p)'
    BY <1>1, <1>2, <1>3, NextStatement DEF LandInv, Harmless
  <1>5. QED
    BY <1>1, <1>2, <1>3, <1>4, HarmlessStep

LEMMA PickStep == ASSUME LandInv, NEW p \in Procs, Pick(p) PROVE LandInv'
  <1>1. /\ MayRun(p) /\ call[p] # <<>> /\ UNCHANGED <<setting, review, place, exists, picked>>
        /\ DOMAIN call' = Procs /\ \A q \in Procs : q # p => call'[q] = call[q]
    BY DEF Pick, Does, rest, Done, Throw, LandInv, LandType
  <1>a. landed' \subseteq Checkpoints /\ queue' = queue
    <2>1. Head(call[p]).checkpoint \in Checkpoints
      BY <1>1, HeadOK DEF StatementOK, Pick, Does
    <2>2. QED
      BY <2>1 DEF Pick, LandInv, LandType
  <1>2. Harmless /\ LandType' /\ NoTraces'
    BY <1>1, <1>a DEF Harmless, Lasting, LandInv, LandType, NoTraces, Pick
  <1>3. CASE landed' = landed \cup {Head(call[p]).checkpoint} /\ Done(p)
    <2>1. call'[p] = Tail(call[p]) /\ Head(call[p]).checkpoint \in landed'
      BY <1>3 DEF Done, LandInv, LandType
    <2>2. CallOK(p)'
      BY <1>1, <1>2, <2>1, NextStatement DEF LandInv, Harmless
    <2>3. QED
      BY <1>1, <1>2, <2>2, HarmlessStep
  <1>4. CASE Throw(p)
    <2>1. call'[p] = <<>>
      BY <1>4 DEF Throw, LandInv, LandType
    <2>2. QED
      BY <1>1, <1>2, <2>1, NothingLeft, HarmlessStep
  <1>5. QED
    BY <1>3, <1>4 DEF Pick

LEMMA StatusStep == ASSUME LandInv, NEW p \in Procs, WriteReview(p) \/ MarkMerged(p) PROVE LandInv'
  <1> DEFINE x == Head(call[p])
  <1>1. /\ MayRun(p) /\ call[p] # <<>> /\ x.op \in {"review", "merged"} /\ Done(p)
        /\ UNCHANGED <<setting, queue, place, exists, landed>>
    BY DEF WriteReview, MarkMerged, Does, rest
  <1>2. /\ call'[p] = Tail(call[p]) /\ DOMAIN call' = Procs
        /\ \A q \in Procs : q # p => call'[q] = call[q]
    BY <1>1 DEF Done, LandInv, LandType
  <1>3. StatementOK(x) /\ CallOK(p) /\ x = call[p][1]
    BY <1>1, HeadOK
  <1>4. Lasting
    BY <1>1 DEF Lasting
  <1>a. x.op = "merged" => x.value \subseteq landed
    <2>1. PICK s : s = call[p]
      OBVIOUS
    <2>2. 1 \in DOMAIN s
      BY <2>1, <1>1, TailFacts DEF LandInv, CallOK
    <2>3. QED
      BY <2>1, <2>2, <1>3 DEF CallOK, Backed
  <1>5. /\ review' = review \/ \E st \in Statuses : review' = [review EXCEPT ![x.stack] = st]
        /\ picked' = picked \/ (picked' = [picked EXCEPT ![x.stack] = x.value] /\ x.op = "merged")
    <2>1. CASE WriteReview(p)
      BY <2>1, <1>3 DEF WriteReview, Does, StatementOK
    <2>2. CASE MarkMerged(p)
      <3>1. "merged" \in Statuses
        BY DEF Statuses
      <3>2. QED
        BY <2>2, <3>1 DEF MarkMerged, Does
    <2>3. QED
      BY <2>1, <2>2
  <1>b. PICK k \in Stacks : k = x.stack
    BY <1>3 DEF StatementOK
  <1>6. LandType'
    <2>1. review' \in [Stacks -> Statuses \cup {"none"}]
      BY <1>5, <1>b DEF LandInv, LandType
    <2>2. picked' \in [Stacks -> SUBSET Checkpoints]
      BY <1>5, <1>b, <1>3 DEF StatementOK, LandInv, LandType
    <2>3. QED
      BY <2>1, <2>2, <1>1, <1>2 DEF LandInv, LandType
  <1>c. MergedHasLanded'
    BY <1>1, <1>5, <1>a, <1>b DEF LandInv, LandType, MergedHasLanded
  <1>7. CallOK(p)'
    BY <1>1, <1>2, <1>3, <1>4, NextStatement
  <1>8. NoTraces'
    <2>1. \A j \in Stacks : review'[j] = "none" => review[j] = "none"
      <3>1. "none" \notin Statuses
        BY DEF Statuses
      <3>2. QED
        BY <1>5, <1>b, <3>1 DEF LandInv, LandType
    <2>2. QED
      BY <1>1, <2>1 DEF LandInv, NoTraces
  <1>9. QED
    BY <1>1, <1>2, <1>4, <1>6, <1>c, <1>7, <1>8, StepKeeps

\* One entry is written: the other rows stay, and so does the rest of the row.
LEMMA EntryWritten ==
  ASSUME NEW pl \in [Stacks -> [Checkpoints -> Nat \cup {Null}]], NEW k \in Stacks,
         NEW c \in Checkpoints, NEW v \in Nat \cup {Null},
         NEW new, new = [pl EXCEPT ![k][c] = v]
  PROVE  /\ new \in [Stacks -> [Checkpoints -> Nat \cup {Null}]]
         /\ new[k] \in [Checkpoints -> Nat \cup {Null}]
         /\ new = [pl EXCEPT ![k] = new[k]]
         /\ new[k][c] = v /\ \A d \in Checkpoints : d # c => new[k][d] = pl[k][d]
         /\ \A j \in Stacks : j # k => new[j] = pl[j]
  <1>1. PICK row : row = [pl[k] EXCEPT ![c] = v]
    OBVIOUS
  <1>2. new = [pl EXCEPT ![k] = row]
    BY <1>1
  <1>3. row \in [Checkpoints -> Nat \cup {Null}] /\ row[c] = v
        /\ \A d \in Checkpoints : d # c => row[d] = pl[k][d]
    BY <1>1
  <1>4. QED
    BY <1>2, <1>3

\* Edits that move entries or take them away.
LEMMA EditStep == ASSUME LandInv, NEW p \in Procs, MakeRoom(p) \/ WriteEntries(p) PROVE LandInv'
  <1> DEFINE x == Head(call[p])
  <1>1. /\ MayRun(p) /\ call[p] # <<>> /\ x.op \in EditOps \ {"insert"}
        /\ UNCHANGED <<setting, review, queue, exists, landed, picked>>
        /\ DOMAIN call' = Procs /\ \A q \in Procs : q # p => call'[q] = call[q]
        /\ call'[p] = Tail(call[p]) \/ call'[p] = <<>>
    BY DEF MakeRoom, WriteEntries, Does, rest, Done, Throw, LandInv, LandType, EditOps
  <1>2. StatementOK(x)
    BY <1>1, HeadOK
  <1>3. PICK k \in Stacks : k = x.stack
    BY <1>2 DEF StatementOK
  <1>4. x.op \in EditOps /\ x.checkpoint \in Checkpoints /\ (x.op # "delete" => x.value \in Nat)
    BY <1>1, <1>2 DEF StatementOK
  <1>5. PICK row \in [Checkpoints -> Nat \cup {Null}] :
          /\ place' = place \/ place' = [place EXCEPT ![k] = row]
          /\ \A c \in Checkpoints : place[k][c] = Null => row[c] = Null
    <2>a. place \in [Stacks -> [Checkpoints -> Nat \cup {Null}]]
      BY DEF LandInv, LandType
    <2>1. CASE MakeRoom(p) /\ place' = Room(x)
      <3> DEFINE row == [c \in Checkpoints |->
                           IF c \in Content(k) /\ place[k][c] >= x.value
                           THEN place[k][c] + 1 ELSE place[k][c]]
      <3>1. place' = [place EXCEPT ![k] = row]
        BY <2>1, <1>3 DEF Room, Moved
      <3>2. \A c \in Checkpoints : row[c] \in Nat \cup {Null} /\ (place[k][c] = Null => row[c] = Null)
        BY <2>a DEF Content
      <3>3. row \in [Checkpoints -> Nat \cup {Null}]
        BY <3>2
      <3>4. QED
        BY <3>1, <3>2, <3>3
    <2>2. CASE WriteEntries(p) /\ place' = Close(x) /\ x.op = "close"
      <3> DEFINE row == [c \in Checkpoints |->
                           IF c \in Content(k) /\ place[k][c] > x.value
                           THEN place[k][c] - 1 ELSE place[k][c]]
      <3>1. place' = [place EXCEPT ![k] = row]
        BY <2>2, <1>3 DEF Close
      <3>2. \A c \in Checkpoints : row[c] \in Nat \cup {Null} /\ (place[k][c] = Null => row[c] = Null)
        BY <2>a, <2>2, <1>4 DEF Content
      <3>3. row \in [Checkpoints -> Nat \cup {Null}]
        BY <3>2
      <3>4. QED
        BY <3>1, <3>2, <3>3
    <2>3. CASE \E v \in Nat \cup {Null} :
                 /\ place' = [place EXCEPT ![k][x.checkpoint] = v]
                 /\ v # Null => x.checkpoint \in Content(k)
      <3>1. PICK v \in Nat \cup {Null} : /\ place' = [place EXCEPT ![k][x.checkpoint] = v]
                                         /\ v # Null => x.checkpoint \in Content(k)
        BY <2>3
      <3>2. PICK c \in Checkpoints : c = x.checkpoint
        BY <1>4
      <3>3. /\ place'[k] \in [Checkpoints -> Nat \cup {Null}]
            /\ place' = [place EXCEPT ![k] = place'[k]]
            /\ place'[k][c] = v /\ \A d \in Checkpoints : d # c => place'[k][d] = place[k][d]
        BY <3>1, <3>2, <2>a, EntryWritten
      <3>4. place[k][c] = Null => v = Null
        BY <3>1, <3>2 DEF Content
      <3>5. QED
        BY <3>3, <3>4
    <2>4. WriteEntries(p) =>
            \/ place' = place
            \/ x.op = "close" /\ place' = Close(x)
            \/ \E v \in Nat \cup {Null} : /\ place' = [place EXCEPT ![k][x.checkpoint] = v]
                                          /\ v # Null => x.checkpoint \in Content(k)
      BY <1>3, <1>4 DEF WriteEntries, Does
    <2>5. CASE place' = place
      BY <2>5, <2>a
    <2>6. QED
      BY <2>1, <2>2, <2>3, <2>4, <2>5 DEF MakeRoom
  <1>6. Harmless /\ LandType' /\ NoTraces'
    <2>1. \A j \in Stacks, c \in Checkpoints : place[j][c] = Null => place'[j][c] = Null
      BY <1>5 DEF LandInv, LandType
    <2>2. Harmless /\ LandType'
      BY <1>1, <1>5, <2>1 DEF Harmless, Lasting, LandInv, LandType
    <2>3. NoTraces'
      BY <1>1, <2>1 DEF LandInv, NoTraces
    <2>4. QED
      BY <2>2, <2>3
  <1>7. CallOK(p)'
    <2>1. CASE call'[p] = Tail(call[p])
      BY <2>1, <1>1, <1>6, NextStatement DEF LandInv, Harmless, EditOps
    <2>2. CASE call'[p] = <<>>
      BY <2>2, NothingLeft
    <2>3. QED
      BY <1>1, <2>1, <2>2
  <1>8. QED
    BY <1>1, <1>6, <1>7, HarmlessStep

LEMMA InsertStep == ASSUME LandInv, NEW p \in Procs, InsertEntry(p) PROVE LandInv'
  <1> DEFINE x == Head(call[p])
  <1>1. /\ MayRun(p) /\ call[p] # <<>> /\ x.op = "insert"
        /\ UNCHANGED <<setting, review, queue, exists, landed, picked>>
        /\ x.stack \notin Rows => place' = place
        /\ DOMAIN call' = Procs /\ \A q \in Procs : q # p => call'[q] = call[q]
        /\ (call'[p] = <<>> /\ place' = place)
           \/ (call'[p] = Tail(call[p]) /\ place' = [place EXCEPT ![x.stack][x.checkpoint] = x.value])
    BY DEF InsertEntry, Does, rest, Done, Throw, LandInv, LandType
  <1>2. StatementOK(x) /\ CallOK(p) /\ x = call[p][1]
    BY <1>1, HeadOK
  <1>3. x.stack \in Stacks /\ x.checkpoint \in Checkpoints /\ x.value \in Nat
    BY <1>1, <1>2 DEF StatementOK, EditOps
  <1>a. PICK k \in Stacks, c \in Checkpoints, v \in Nat :
          k = x.stack /\ c = x.checkpoint /\ v = x.value
    BY <1>3
  <1>b. /\ place' \in [Stacks -> [Checkpoints -> Nat \cup {Null}]]
        /\ \A j \in Stacks : j # k => place'[j] = place[j]
    <2>1. place \in [Stacks -> [Checkpoints -> Nat \cup {Null}]]
      BY DEF LandInv, LandType
    <2>2. place' = place \/ place' = [place EXCEPT ![k][c] = v]
      BY <1>1, <1>a
    <2>3. QED
      BY <2>1, <2>2, EntryWritten
  <1>4. LandType' /\ NoTraces'
    <2>1. LandType'
      BY <1>1, <1>b DEF LandInv, LandType
    <2>2. NoTraces'
      BY <1>1, <1>a, <1>b DEF LandInv, NoTraces, Rows
    <2>3. QED
      BY <2>1, <2>2
  <1>5. Harmless
    BY <1>1 DEF Harmless, Lasting
  <1>6. CallOK(p)'
    <2>1. CASE call'[p] = <<>>
      BY <2>1, NothingLeft
    <2>2. CASE call'[p] = Tail(call[p])
      BY <2>2, <1>1, <1>2, <1>5, NextStatement DEF Harmless
    <2>3. QED
      BY <1>1, <2>1, <2>2
  <1>7. QED
    BY <1>1, <1>4, <1>5, <1>6, HarmlessStep

\* Calls of one statement, and calls cut short.
LEMMA SingleStep == ASSUME LandInv, Single PROVE LandInv'
  <1>1. UNCHANGED <<setting, landed, picked, call>> /\ exists' \subseteq exists \cup setting.checkpoints
    BY DEF Single, DeleteDiffStack, DeleteStacksByStatus, Delete, CreateCheckpoint,
           DeleteCheckpoints, rest
  <1>2. \/ UNCHANGED <<review, queue, place>>
        \/ \E ks : /\ review' = [k \in Stacks |-> IF k \in ks THEN "none" ELSE review[k]]
                   /\ queue' = [k \in Stacks |-> IF k \in ks THEN Null ELSE queue[k]]
                   /\ place' = [k \in Stacks |-> IF k \in ks THEN [c \in Checkpoints |-> Null]
                                                ELSE place[k]]
    BY DEF Single, DeleteDiffStack, DeleteStacksByStatus, Delete, CreateCheckpoint,
           DeleteCheckpoints
  <1>3. LandType' /\ NoTraces'
    <2>1. LandType'
      BY <1>1, <1>2 DEF LandInv, LandType, Setting
    <2>2. NoTraces'
      BY <1>2 DEF LandInv, LandType, NoTraces
    <2>3. QED
      BY <2>1, <2>2
  <1>4. Harmless
    BY <1>1 DEF Harmless, Lasting
  <1>5. MergedHasLanded'
    BY <1>4 DEF LandInv, MergedHasLanded, Harmless, Lasting
  <1>6. \A q \in Procs : CallOK(q)'
    BY <1>1, <1>4, OthersKeep DEF LandInv, Harmless
  <1>7. QED
    BY <1>1, <1>3, <1>5, <1>6 DEF LandInv, OneCall

LEMMA CrashStep == ASSUME LandInv, NEW p \in Procs, Crash(p) PROVE LandInv'
  <1>1. /\ UNCHANGED <<setting, review, queue, place, exists, landed, picked>> /\ call'[p] = <<>>
        /\ DOMAIN call' = Procs /\ \A q \in Procs : q # p => call'[q] = call[q]
    BY DEF Crash, Throw, LandInv, LandType
  <1>2. Harmless /\ LandType' /\ NoTraces' /\ MergedHasLanded'
    BY <1>1 DEF Harmless, Lasting, LandInv, LandType, NoTraces, MergedHasLanded
  <1>3. \A q \in Procs : CallOK(q)'
    BY <1>1, <1>2, OthersKeep, NothingLeft DEF LandInv, Harmless
  <1>4. QED
    BY <1>1, <1>2, <1>3 DEF LandInv, OneCall

-----------------------------------------------------------------------------

LEMMA LandStep == LandInv /\ [Next]_vars => LandInv'
  <1> SUFFICES ASSUME LandInv, [Next]_vars PROVE LandInv'
    OBVIOUS
  <1>a. /\ setting.stacks \subseteq Stacks /\ setting.procs \subseteq Procs
        /\ setting.positions \in Nat /\ setting.statuses \subseteq Statuses
    BY DEF LandInv, LandType, Setting
  <1>1. CASE UNCHANGED vars
    BY <1>1 DEF vars, LandInv, LandType, NoTraces, OneCall, MergedHasLanded, CallOK, Pure, Backed
  <1>2. ASSUME NEW p \in setting.procs, Call(p) PROVE LandInv'
    <2>1. ASSUME NEW k \in setting.stacks, NEW st \in setting.statuses, SetStackReviewStatus(p, k, st)
          PROVE  LandInv'
      BY <2>1, <1>a, ReviewBegins
    <2>2. ASSUME NEW k \in setting.stacks,
                 \/ \E n \in 0 .. setting.positions : SetStackQueuePosition(p, k, n)
                 \/ LeaveQueue(p, k) \/ EnqueueStack(p, k) \/ DequeueStack(p, k)
          PROVE  LandInv'
      <3>1. 0 .. setting.positions \subseteq Nat
        BY <1>a
      <3>2. QED
        BY <2>2, <3>1, <1>a, QueueBegins
    <2>3. ASSUME ReorderQueue(p) PROVE LandInv'
      <3>1. PICK k \in Stacks : TRUE
        BY <2>3 DEF ReorderQueue, Queued
      <3>2. QED
        BY <2>3, <1>a, QueueBegins
    <2>4. ASSUME NEW k \in setting.stacks, CherryPickStackToTarget(p, k) PROVE LandInv'
      BY <2>4, <1>a, PickBegins
    <2>5. ASSUME BuildCall(p) PROVE LandInv'
      BY <2>5, <1>a, CreateBegins, ContentEdits DEF BuildCall
    <2>6. QED
      BY <1>2, <2>1, <2>2, <2>3, <2>4, <2>5 DEF Call
  <1>3. ASSUME NEW p \in setting.procs, Step(p) \/ Crash(p) PROVE LandInv'
    BY <1>3, <1>a, StatusStep, QueueStep, EditStep, InsertStep, PickStep, CrashStep DEF Step
  <1>4. CASE Single
    BY <1>4, SingleStep
  <1>5. QED
    BY <1>1, <1>2, <1>3, <1>4 DEF Next

LEMMA InitLand == Init => LandInv
  <1> SUFFICES ASSUME Init PROVE LandInv
    OBVIOUS
  <1>1. \A p \in Procs : call[p] = <<>>
    BY DEF Init
  <1>2. <<>> \in Seq({}) /\ DOMAIN <<>> = {}
    OBVIOUS
  <1>3. LandType
    BY StacksAssumption DEF Init, LandType, Setting, Statuses
  <1>4. OneCall /\ MergedHasLanded
    BY <1>1 DEF OneCall, MergedHasLanded, Init
  <1>5. \A p \in Procs : CallOK(p)
    BY <1>1, <1>2 DEF CallOK, IsSeq, Pure, Backed
  <1>6. NoTraces
    <2>1. \A k \in Stacks : k \in setting.stacks => "pending" # "none"
      OBVIOUS
    <2>2. QED
      BY <2>1 DEF Init, NoTraces, Content
  <1>7. QED
    BY <1>3, <1>4, <1>5, <1>6 DEF LandInv

\* What a stack had when cherryPickStackToTarget read it is on the target from the moment
\* that call marks the stack merged, for any number of stacks, checkpoints and processes:
\* however reviews, edits of the stacks, queue moves, deletions, cherry-picks and crashes
\* interleave.
THEOREM MergedStacksHaveLanded == Spec => []MergedHasLanded
  <1>1. LandInv => MergedHasLanded
    BY DEF LandInv
  <1>2. QED
    BY <1>1, InitLand, LandStep, PTL DEF Spec


-----------------------------------------------------------------------------
(* The queue, as long as stacks are built and no call is cut short: no two  *)
(* stacks have the same position between calls, and a call leaves the order *)
(* of the stacks it is not about alone.                                     *)

Distinct == \A j, k \in Queued : queue[j] = queue[k] => j = k

\* What is left of a reordering, or of a move: the stacks still to be set get positions
\* that no other stack has.
Placing(s) ==
  /\ \A i \in DOMAIN s : s[i].op = "set" /\ s[i].stack \in Rows /\ s[i].value \in Nat
  /\ \A i, j \in DOMAIN s : s[i].value = s[j].value => i = j
  /\ \A j, k \in Queued :
       (\A i \in DOMAIN s : s[i].stack # j /\ s[i].stack # k) /\ queue[j] = queue[k] => j = k
  /\ \A k \in Queued, i \in DOMAIN s :
       (\A j \in DOMAIN s : s[j].stack # k) => queue[k] # s[i].value

OtherCall(s) == Distinct /\ \A i \in DOMAIN s : s[i].op \notin QueueOps
Taking(s) == Distinct /\ \E k \in Rows, n \in Nat : s = TakePosition(k, n)
Leaving(s) == Distinct /\ \E k \in Rows : s = <<Statement("set", k, None, Null)>>
Dequeuing(s) ==
  /\ Distinct
  /\ \E k \in Queued :
       s = <<Statement("set", k, None, Null), Statement("compact", k, None, queue[k])>>
Compacting(s) ==
  /\ Distinct
  /\ \E k \in Stacks, n \in Nat : /\ s = <<Statement("compact", k, None, n)>>
                                  /\ \A j \in Stacks : queue[j] # n

QueueCallOK(s) ==
  OtherCall(s) \/ Taking(s) \/ Placing(s) \/ Leaving(s) \/ Dequeuing(s) \/ Compacting(s)

QueueInv ==
  /\ crashes \in Nat
  /\ Unbroken =>
       /\ queue \in [Stacks -> Nat \cup {Null}]
       /\ Queued \subseteq Rows
       /\ Quiet => Distinct
       /\ \A p \in Procs : call[p] # <<>> => QueueCallOK(call[p])

LEMMA NothingToDo == QueueCallOK(<<>>) <=> Distinct
  <1>1. DOMAIN <<>> = {} /\ \A a : <<>> # <<a>> /\ \A b : <<>> # <<a, b>>
    OBVIOUS
  <1>2. Placing(<<>>) <=> Distinct
    BY <1>1 DEF Placing, Distinct
  <1>3. QED
    BY <1>1, <1>2 DEF QueueCallOK, OtherCall, Taking, Leaving, Dequeuing, Compacting, TakePosition

\* p executes a statement, or ends its call; t is what is left.
LEMMA QueueMoves ==
  ASSUME LandInv, LandInv', QueueInv, setting' = setting, crashes' = crashes,
         NEW p \in Procs, MayRun(p), \A q \in Procs : q # p => call'[q] = call[q],
         NEW t, t = call'[p],
         Unbroken => /\ queue' \in [Stacks -> Nat \cup {Null}]
                            /\ Queued' \subseteq Rows'
                            /\ QueueCallOK(t)'
  PROVE  QueueInv'
  <1> SUFFICES ASSUME Unbroken
               PROVE  /\ Quiet' => Distinct'
                      /\ \A q \in Procs : call'[q] # <<>> => QueueCallOK(call[q])'
    BY DEF QueueInv, Unbroken
  <1>1. \A q \in Procs : q # p => call'[q] = <<>>
    BY DEF MayRun, Unbroken
  <1>2. Quiet' => Distinct'
    <2>1. ASSUME t = <<>> PROVE Distinct'
      <3>1. QueueCallOK(<<>>)' <=> Distinct'
        BY NothingToDo, PTL
      <3>2. QueueCallOK(<<>>)'
        BY <2>1
      <3>3. QED
        BY <3>1, <3>2
    <2>2. QED
      BY <2>1 DEF Quiet
  <1>3. QueueCallOK(call[p])'
    OBVIOUS
  <1>4. QED
    BY <1>1, <1>2, <1>3

\* The queue stays, and what is left of a call that is not about it.
LEMMA QueueStays ==
  ASSUME LandInv, LandInv', QueueInv, UNCHANGED <<setting, queue>>, crashes' = crashes,
         NEW p \in Procs, MayRun(p), Unbroken => Distinct /\ Queued \subseteq Rows',
         \A q \in Procs : q # p => call'[q] = call[q],
         Unbroken => \A i \in DOMAIN call'[p] : call'[p][i].op \notin QueueOps
  PROVE  QueueInv'
  <1>1. PICK t : t = call'[p]
    OBVIOUS
  <1>2. ASSUME Unbroken
        PROVE  /\ queue' \in [Stacks -> Nat \cup {Null}]
               /\ Queued' \subseteq Rows'
               /\ QueueCallOK(t)'
    <2>1. Distinct'
      BY <1>2 DEF Distinct, Queued
    <2>2. OtherCall(t)'
      BY <2>1, <1>1, <1>2 DEF OtherCall
    <2>3. QED
      BY <2>2, <1>2 DEF QueueCallOK, QueueInv, Queued
  <1>3. QED
    BY <1>1, <1>2, QueueMoves

\* A call begins when no other runs.
LEMMA FreeDistinct ==
  ASSUME QueueInv, NEW p \in Procs, Free(p), Unbroken
  PROVE  Distinct /\ queue \in [Stacks -> Nat \cup {Null}] /\ Queued \subseteq Rows
  BY DEF QueueInv, Free, MayRun, Quiet, Unbroken

LEMMA QueueCallBegins ==
  ASSUME LandInv, LandInv', QueueInv, NEW p \in Procs, Free(p), Unchanged, NEW s, Begin(p, s),
         Unbroken => QueueCallOK(s)
  PROVE  QueueInv'
  <1>1. /\ call'[p] = s /\ \A q \in Procs : q # p => call'[q] = call[q]
        /\ UNCHANGED <<setting, queue, crashes, review, place, exists, landed>>
    BY DEF Begin, LandInv, LandType, Unchanged, rest
  <1>2. ASSUME Unbroken PROVE QueueCallOK(s)'
    BY <1>1, <1>2 DEF QueueCallOK, OtherCall, Taking, Placing, Leaving, Dequeuing, Compacting,
                      Distinct, Queued, Rows
  <1>3. Unbroken => queue' \in [Stacks -> Nat \cup {Null}] /\ Queued' \subseteq Rows'
    BY <1>1, FreeDistinct DEF Queued, Rows
  <1>4. crashes' = crashes /\ MayRun(p)
    BY <1>1 DEF QueueInv, Free
  <1>5. QED
    BY <1>1, <1>2, <1>3, <1>4, QueueMoves

\* Every queued stack is named in the new order, once or more often.
LEMMA ReorderPlaces ==
  ASSUME Queued \subseteq Rows, NEW order \in Naming(Queued)
  PROVE  Placing([i \in DOMAIN order |-> Statement("set", order[i], None, i - 1)])
  <1> DEFINE s == [i \in DOMAIN order |-> Statement("set", order[i], None, i - 1)]
  <1>1. PICK n \in Nat : order \in [1 .. n -> Queued] /\ {order[i] : i \in 1 .. n} = Queued
    BY NamingList
  <1>2. /\ DOMAIN s = 1 .. n
        /\ \A i \in 1 .. n : s[i].op = "set" /\ s[i].stack = order[i] /\ s[i].value = i - 1
    BY <1>1, StatementFields
  <1>3. \A k \in Queued : \E i \in 1 .. n : order[i] = k
    BY <1>1
  <1> HIDE DEF s
  <1>4. \A i \in 1 .. n : s[i].stack \in Rows /\ s[i].value \in Nat
    BY <1>1, <1>2
  <1>5. \A i, j \in 1 .. n : s[i].value = s[j].value => i = j
    BY <1>2
  <1>6. \A k \in Queued : ~ \A i \in 1 .. n : s[i].stack # k
    BY <1>2, <1>3
  <1>7. Placing(s)
    BY <1>2, <1>4, <1>5, <1>6 DEF Placing
  <1>8. QED
    BY <1>7 DEF s

LEMMA QueueCallsBegin ==
  ASSUME LandInv, LandInv', QueueInv, NEW p \in Procs, NEW k \in Stacks,
         \/ \E n \in Nat : SetStackQueuePosition(p, k, n)
         \/ LeaveQueue(p, k) \/ EnqueueStack(p, k) \/ DequeueStack(p, k) \/ ReorderQueue(p)
  PROVE  QueueInv'
  <1>1. ASSUME NEW n \in Nat, SetStackQueuePosition(p, k, n) PROVE QueueInv'
    <2>1. Unbroken => QueueCallOK(TakePosition(k, n))
      BY <1>1, FreeDistinct DEF SetStackQueuePosition, QueueCallOK, Taking
    <2>2. QED
      BY <1>1, <2>1, QueueCallBegins DEF SetStackQueuePosition
  <1>2. ASSUME LeaveQueue(p, k) PROVE QueueInv'
    <2>1. Unbroken => QueueCallOK(<<Statement("set", k, None, Null)>>)
      BY <1>2, FreeDistinct DEF LeaveQueue, QueueCallOK, Leaving
    <2>2. QED
      BY <1>2, <2>1, QueueCallBegins DEF LeaveQueue
  <1>3. ASSUME EnqueueStack(p, k) PROVE QueueInv'
    <2>1. Unbroken => QueueCallOK(TakePosition(k, NextPosition))
      <3>1. k \in Rows
        BY <1>3 DEF EnqueueStack, Rows
      <3>2. QED
        BY <1>3, <3>1, FreeDistinct, NextPositionType DEF EnqueueStack, QueueCallOK, Taking
    <2>2. QED
      BY <1>3, <2>1, QueueCallBegins DEF EnqueueStack
  <1>4. ASSUME DequeueStack(p, k) PROVE QueueInv'
    <2> DEFINE s == <<Statement("set", k, None, Null), Statement("compact", k, None, queue[k])>>
    <2>1. Unbroken => QueueCallOK(s)
      BY <1>4, FreeDistinct DEF DequeueStack, QueueCallOK, Dequeuing
    <2>2. QED
      BY <1>4, <2>1, QueueCallBegins DEF DequeueStack
  <1>5. ASSUME ReorderQueue(p) PROVE QueueInv'
    <2>1. PICK order \in Naming(Queued) :
            Begin(p, [i \in DOMAIN order |-> Statement("set", order[i], None, i - 1)])
      BY <1>5 DEF ReorderQueue
    <2> DEFINE s == [i \in DOMAIN order |-> Statement("set", order[i], None, i - 1)]
    <2>2. Unbroken => QueueCallOK(s)
      BY <1>5, <2>1, FreeDistinct, ReorderPlaces DEF ReorderQueue, QueueCallOK
    <2>3. QED
      BY <1>5, <2>1, <2>2, QueueCallBegins DEF ReorderQueue
  <1>6. QED
    BY <1>1, <1>2, <1>3, <1>4, <1>5

-----------------------------------------------------------------------------
(* The statements of the queue; q is the queue afterwards *)

\* After room is made no stack has the place, and those that had different positions still do.
LEMMA Shifted ==
  ASSUME queue \in [Stacks -> Nat \cup {Null}], Distinct, NEW n \in Nat, queue' = Shift(n)
  PROVE  /\ queue' \in [Stacks -> Nat \cup {Null}] /\ Queued' = Queued
         /\ \A j, k \in Queued : queue[j] < queue[k] <=> queue'[j] < queue'[k]
         /\ Distinct' /\ \A k \in Stacks : queue'[k] # n
  <1>1. \A k \in Stacks : /\ queue[k] # Null => queue[k] \in Nat
                          /\ queue'[k] = IF queue[k] # Null /\ queue[k] >= n THEN queue[k] + 1
                                         ELSE queue[k]
    BY DEF Shift, Queued
  <1>2. n # Null /\ Null \notin Nat
    BY StacksAssumption
  <1>3. \A k \in Stacks : /\ queue'[k] \in Nat \cup {Null} /\ queue'[k] # n
                          /\ queue'[k] = Null <=> queue[k] = Null
    BY <1>1, <1>2
  <1>4. queue' \in [Stacks -> Nat \cup {Null}]
    BY <1>3 DEF Shift
  <1>5. \A j, k \in Queued : queue[j] < queue[k] <=> queue'[j] < queue'[k]
    BY <1>1 DEF Queued
  <1>6. \A j, k \in Queued : queue'[j] = queue'[k] => queue[j] = queue[k]
    BY <1>1 DEF Queued
  <1>7. Queued' = Queued
    BY <1>3 DEF Queued
  <1>8. QED
    BY <1>3, <1>4, <1>5, <1>6, <1>7 DEF Distinct

\* Those behind a place nobody has move up.
LEMMA Compacted ==
  ASSUME queue \in [Stacks -> Nat \cup {Null}], Distinct, NEW n \in Nat, queue' = Compact(n),
         \A k \in Stacks : queue[k] # n
  PROVE  /\ queue' \in [Stacks -> Nat \cup {Null}] /\ Queued' = Queued /\ Distinct'
         /\ \A j, k \in Queued : queue[j] < queue[k] <=> queue'[j] < queue'[k]
  <1>1. \A k \in Stacks : /\ queue[k] # Null => queue[k] \in Nat /\ (queue[k] < n \/ queue[k] > n)
                          /\ queue'[k] = IF queue[k] # Null /\ queue[k] > n THEN queue[k] - 1
                                         ELSE queue[k]
    BY DEF Compact, Queued
  <1>2. Null \notin Nat
    BY StacksAssumption
  <1>3. \A k \in Stacks : /\ queue'[k] \in Nat \cup {Null}
                          /\ queue'[k] = Null <=> queue[k] = Null
    BY <1>1, <1>2
  <1>4. queue' \in [Stacks -> Nat \cup {Null}]
    BY <1>3 DEF Compact
  <1>5. \A j, k \in Queued : queue[j] < queue[k] <=> queue'[j] < queue'[k]
    BY <1>1 DEF Queued
  <1>6. \A j, k \in Queued : queue'[j] = queue'[k] => queue[j] = queue[k]
    BY <1>1 DEF Queued
  <1>7. Queued' = Queued
    BY <1>3 DEF Queued
  <1>8. QED
    BY <1>4, <1>5, <1>6, <1>7 DEF Distinct

\* One stack takes or leaves its place.
LEMMA SetOne ==
  ASSUME queue \in [Stacks -> Nat \cup {Null}], NEW k \in Rows, NEW n \in Nat \cup {Null},
         queue' = [queue EXCEPT ![k] = n]
  PROVE  /\ queue' \in [Stacks -> Nat \cup {Null}] /\ queue'[k] = n
         /\ \A j \in Stacks : j # k => queue'[j] = queue[j]
         /\ Queued' = IF n = Null THEN Queued \ {k} ELSE Queued \cup {k}
  BY DEF Queued, Rows

LEMMA NextPlaced ==
  ASSUME queue \in [Stacks -> Nat \cup {Null}], NEW s, IsSeq(s), s # <<>>, Placing(s),
         queue' = [queue EXCEPT ![s[1].stack] = s[1].value], review' = review
  PROVE  /\ queue' \in [Stacks -> Nat \cup {Null}]
         /\ Queued' = Queued \cup {s[1].stack}
         /\ Placing(Tail(s))'
  <1>1. PICK t : t = Tail(s)
    OBVIOUS
  <1>2. /\ Len(s) \in Nat /\ Len(s) > 0 /\ DOMAIN s = 1 .. Len(s)
        /\ DOMAIN t = 1 .. Len(s) - 1
        /\ \A i \in 1 .. Len(s) - 1 : t[i] = s[i + 1]
    BY <1>1, TailFacts
  <1>3. /\ 1 \in DOMAIN s
        /\ \A i \in DOMAIN t : i + 1 \in DOMAIN s /\ i + 1 # 1 /\ t[i] = s[i + 1]
        /\ \A i \in DOMAIN s : i = 1 \/ \E j \in DOMAIN t : s[i] = t[j]
    <2>1. \A i \in DOMAIN s : i = 1 \/ (i - 1 \in DOMAIN t /\ i - 1 + 1 = i)
      BY <1>2
    <2>2. QED
      BY <1>2, <2>1
  <1>4. PICK k \in Rows, n \in Nat : k = s[1].stack /\ n = s[1].value
    BY <1>3 DEF Placing
  <1>5. /\ queue' \in [Stacks -> Nat \cup {Null}] /\ queue'[k] = n
        /\ \A j \in Stacks : j # k => queue'[j] = queue[j]
        /\ Queued' = Queued \cup {k}
    <2>1. queue' = [queue EXCEPT ![k] = n] /\ n # Null /\ n \in Nat \cup {Null}
      BY <1>4, StacksAssumption
    <2>2. Queued' = IF n = Null THEN Queued \ {k} ELSE Queued \cup {k}
      BY <2>1, SetOne
    <2>3. QED
      BY <2>1, <2>2, SetOne
  <1>6. \A i \in DOMAIN t : t[i].op = "set" /\ t[i].stack \in Rows' /\ t[i].value \in Nat
    BY <1>3 DEF Placing, Rows
  <1>7. \A i, j \in DOMAIN t : t[i].value = t[j].value => i = j
    <2> SUFFICES ASSUME NEW i \in DOMAIN t, NEW j \in DOMAIN t,
                        t[i].value = t[j].value
                 PROVE  i = j
      OBVIOUS
    <2>1. i + 1 = j + 1
      BY <1>3 DEF Placing
    <2>2. QED
      BY <2>1, <1>2
  <1>8. \A i \in DOMAIN t : t[i].value # n
    BY <1>3, <1>4 DEF Placing
  <1>9. \A j \in Queued' : j # k /\ (\A i \in DOMAIN t : t[i].stack # j) =>
          /\ j \in Queued /\ queue'[j] = queue[j]
          /\ \A i \in DOMAIN s : s[i].stack # j
    BY <1>3, <1>4, <1>5 DEF Queued
  <1>10. \A j \in Queued' : (\A i \in DOMAIN t : t[i].stack # j) =>
           /\ j # k => queue'[j] # n
           /\ \A i \in DOMAIN t : queue'[j] # t[i].value
    <2> SUFFICES ASSUME NEW j \in Queued', \A i \in DOMAIN t : t[i].stack # j
                 PROVE  /\ j # k => queue'[j] # n
                        /\ \A i \in DOMAIN t : queue'[j] # t[i].value
      OBVIOUS
    <2>1. CASE j = k
      BY <2>1, <1>5, <1>8
    <2>2. CASE j # k
      <3>1. j \in Queued /\ queue'[j] = queue[j] /\ \A i \in DOMAIN s : s[i].stack # j
        BY <2>2, <1>9
      <3>2. \A i \in DOMAIN s : queue[j] # s[i].value
        BY <3>1 DEF Placing
      <3>3. QED
        BY <3>1, <3>2, <1>3, <1>4
    <2>3. QED
      BY <2>1, <2>2
  <1>11. \A i, j \in Queued' :
           (\A m \in DOMAIN t : t[m].stack # i /\ t[m].stack # j) /\ queue'[i] = queue'[j] => i = j
    <2> SUFFICES ASSUME NEW i \in Queued', NEW j \in Queued', queue'[i] = queue'[j],
                        \A m \in DOMAIN t : t[m].stack # i /\ t[m].stack # j
                 PROVE  i = j
      OBVIOUS
    <2>1. CASE i = k \/ j = k
      BY <2>1, <1>5, <1>10
    <2>2. CASE i # k /\ j # k
      <3>1. /\ i \in Queued /\ j \in Queued /\ queue[i] = queue[j]
            /\ \A m \in DOMAIN s : s[m].stack # i /\ s[m].stack # j
        BY <2>2, <1>9
      <3>2. QED
        BY <3>1 DEF Placing
    <2>3. QED
      BY <2>1, <2>2
  <1>12. Placing(t)'
    BY <1>6, <1>7, <1>10, <1>11 DEF Placing
  <1>13. QED
    BY <1>1, <1>4, <1>5, <1>12

\* What a statement about one stack leaves: the order of the others.
OrderStays(h) == \A j, k \in Queued : h.stack \notin {j, k} => (queue[j] < queue[k] <=> queue'[j] < queue'[k])

\* The six forms of a call that is under way, h its next statement and t the rest.
LEMMA QueueWritten ==
  ASSUME QueueInv, Unbroken, UNCHANGED <<setting, review>>, NEW p \in Procs,
         WriteQueue(p), NEW s, s = call[p], IsSeq(s), s # <<>>, QueueCallOK(s)
  PROVE  /\ queue' \in [Stacks -> Nat \cup {Null}] /\ Queued' \subseteq Rows
         /\ QueueCallOK(Tail(s))'
         /\ OrderStays(Head(s))
  <1>1. PICK h : h = Head(s)
    OBVIOUS
  <1>2. PICK t : t = Tail(s)
    OBVIOUS
  <1>3. h = s[1] /\ 1 \in DOMAIN s
    BY <1>1, TailFacts
  <1>4. /\ h.op = "shift" => queue' = Shift(h.value)
        /\ h.op = "set" => queue' = IF h.stack \in Rows THEN [queue EXCEPT ![h.stack] = h.value] ELSE queue
        /\ h.op = "compact" => queue' = Compact(h.value)
        /\ h.op \in QueueOps
    BY <1>1 DEF WriteQueue, Does, QueueOps
  <1>5. queue \in [Stacks -> Nat \cup {Null}] /\ Queued \subseteq Rows /\ Rows \subseteq Stacks
    BY DEF QueueInv, Rows
  <1>6. \A a, b : Head(<<a>>) = a /\ Tail(<<a>>) = <<>> /\ Head(<<a, b>>) = a /\ Tail(<<a, b>>) = <<b>>
    OBVIOUS
  <1>7. CASE OtherCall(s)
    BY <1>3, <1>4, <1>7 DEF OtherCall
  <1>8. CASE Taking(s)
    <2>1. PICK k \in Rows, n \in Nat : s = TakePosition(k, n)
      BY <1>8 DEF Taking
    <2>2. h = Statement("shift", k, None, n) /\ t = <<Statement("set", k, None, n)>>
      BY <1>1, <1>2, <1>6, <2>1 DEF TakePosition
    <2>3. queue' = Shift(n)
      BY <1>4, <2>2, StatementFields
    <2>4. /\ queue' \in [Stacks -> Nat \cup {Null}] /\ Queued' = Queued
          /\ \A i, j \in Queued : queue[i] < queue[j] <=> queue'[i] < queue'[j]
          /\ Distinct' /\ \A j \in Stacks : queue'[j] # n
      BY <1>5, <1>8, <2>3, Shifted DEF Taking
    <2>5. /\ DOMAIN t = {1} /\ t[1].op = "set" /\ t[1].stack = k /\ t[1].value = n
      <3>1. \A a : DOMAIN <<a>> = {1} /\ <<a>>[1] = a
        OBVIOUS
      <3>2. QED
        BY <2>2, <3>1, StatementFields
    <2>6. k \in Rows'
      BY DEF Rows
    <2>7. Placing(t)'
      BY <1>5, <2>4, <2>5, <2>6 DEF Placing, Distinct
    <2>8. QED
      BY <1>1, <1>2, <1>5, <2>4, <2>7 DEF QueueCallOK, OrderStays
  <1>9. CASE Placing(s)
    <2>1. h.op = "set" /\ h.stack \in Rows
      BY <1>3, <1>9 DEF Placing
    <2>2. queue' = [queue EXCEPT ![h.stack] = h.value]
      BY <1>4, <2>1
    <2>3. /\ queue' \in [Stacks -> Nat \cup {Null}] /\ Queued' = Queued \cup {h.stack}
          /\ Placing(Tail(s))'
      BY <1>3, <1>5, <1>9, <2>2, NextPlaced
    <2>4. OrderStays(h)
      BY <1>5, <2>1, <2>2 DEF OrderStays
    <2>5. QED
      BY <1>1, <1>5, <2>1, <2>3, <2>4 DEF QueueCallOK
  <1>10. CASE Leaving(s)
    <2>1. PICK k \in Rows : s = <<Statement("set", k, None, Null)>>
      BY <1>10 DEF Leaving
    <2>2. h = Statement("set", k, None, Null) /\ t = <<>>
      BY <1>1, <1>2, <1>6, <2>1
    <2>3. h.stack = k /\ queue' = [queue EXCEPT ![k] = Null]
      BY <1>4, <2>2, StatementFields
    <2>4. /\ queue' \in [Stacks -> Nat \cup {Null}] /\ Queued' \subseteq Queued
          /\ \A j \in Stacks : j # k => queue'[j] = queue[j]
      <3>1. Queued' = IF Null = Null THEN Queued \ {k} ELSE Queued \cup {k}
        BY <1>5, <2>3, SetOne
      <3>2. QED
        BY <1>5, <2>3, <3>1, SetOne
    <2>5. queue'[k] = Null
      BY <1>5, <2>3
    <2>6. Distinct'
      BY <1>5, <1>10, <2>4, <2>5 DEF Leaving, Distinct, Queued
    <2>7. QueueCallOK(t)'
      <3>1. DOMAIN <<>> = {}
        OBVIOUS
      <3>2. QED
        BY <2>2, <2>6, <3>1 DEF QueueCallOK, OtherCall
    <2>8. OrderStays(h)
      BY <1>5, <2>3, <2>4 DEF OrderStays
    <2>9. QED
      BY <1>1, <1>2, <1>5, <2>4, <2>7, <2>8
  <1>11. CASE Dequeuing(s)
    <2>1. PICK k \in Queued :
            s = <<Statement("set", k, None, Null), Statement("compact", k, None, queue[k])>>
      BY <1>11 DEF Dequeuing
    <2>2. PICK n \in Nat : n = queue[k]
      BY <1>5 DEF Queued
    <2>3. h = Statement("set", k, None, Null) /\ t = <<Statement("compact", k, None, n)>>
      BY <1>1, <1>2, <1>6, <2>1, <2>2
    <2>4. h.stack = k /\ k \in Rows /\ queue' = [queue EXCEPT ![k] = Null]
      BY <1>4, <1>5, <2>3, StatementFields
    <2>5. /\ queue' \in [Stacks -> Nat \cup {Null}] /\ Queued' \subseteq Queued
          /\ \A j \in Stacks : j # k => queue'[j] = queue[j]
      <3>1. Queued' = IF Null = Null THEN Queued \ {k} ELSE Queued \cup {k}
        BY <1>5, <2>4, SetOne
      <3>2. QED
        BY <1>5, <2>4, <3>1, SetOne
    <2>6. queue'[k] = Null
      BY <1>5, <2>4
    <2>7. Distinct'
      BY <1>5, <1>11, <2>5, <2>6 DEF Dequeuing, Distinct, Queued
    <2>8. \A j \in Stacks : queue'[j] # n
      <3>1. n # Null
        BY StacksAssumption
      <3>2. \A j \in Stacks : j # k => queue[j] # n
        BY <1>11, <2>2, <3>1 DEF Dequeuing, Distinct, Queued
      <3>3. QED
        BY <2>5, <2>6, <3>1, <3>2
    <2>9. Compacting(t)'
      BY <1>5, <2>3, <2>4, <2>7, <2>8 DEF Compacting
    <2>10. OrderStays(h)
      BY <1>5, <2>4, <2>5 DEF OrderStays
    <2>11. QED
      BY <1>1, <1>2, <1>5, <2>5, <2>9, <2>10 DEF QueueCallOK
  <1>12. CASE Compacting(s)
    <2>1. PICK k \in Stacks, n \in Nat :
            s = <<Statement("compact", k, None, n)>> /\ \A j \in Stacks : queue[j] # n
      BY <1>12 DEF Compacting
    <2>2. h = Statement("compact", k, None, n) /\ t = <<>>
      BY <1>1, <1>2, <1>6, <2>1
    <2>3. queue' = Compact(n)
      BY <1>4, <2>2, StatementFields
    <2>4. /\ queue' \in [Stacks -> Nat \cup {Null}] /\ Queued' = Queued /\ Distinct'
          /\ \A i, j \in Queued : queue[i] < queue[j] <=> queue'[i] < queue'[j]
      BY <1>5, <1>12, <2>1, <2>3, Compacted DEF Compacting
    <2>5. QueueCallOK(t)'
      <3>1. DOMAIN <<>> = {}
        OBVIOUS
      <3>2. QED
        BY <2>2, <2>4, <3>1 DEF QueueCallOK, OtherCall
    <2>6. QED
      BY <1>1, <1>2, <1>5, <2>4, <2>5 DEF OrderStays
  <1>13. QED
    BY <1>7, <1>8, <1>9, <1>10, <1>11, <1>12 DEF QueueCallOK

LEMMA WriteQueueStep ==
  ASSUME LandInv, LandInv', QueueInv, NEW p \in Procs, WriteQueue(p)
  PROVE  /\ QueueInv'
         /\ Unbroken => OrderStays(Head(call[p]))
  <1>1. /\ MayRun(p) /\ call[p] # <<>> /\ Done(p) /\ UNCHANGED <<setting, review, crashes>>
    BY DEF WriteQueue, Does, rest
  <1>2. PICK s : s = call[p]
    OBVIOUS
  <1>3. /\ call'[p] = Tail(s) /\ \A q \in Procs : q # p => call'[q] = call[q]
    BY <1>1, <1>2 DEF Done, LandInv, LandType
  <1>4. IsSeq(s) /\ s # <<>>
    BY <1>1, <1>2 DEF LandInv, CallOK
  <1>5. ASSUME Unbroken
        PROVE  /\ queue' \in [Stacks -> Nat \cup {Null}] /\ Queued' \subseteq Rows
               /\ QueueCallOK(Tail(s))' /\ OrderStays(Head(s))
    <2>1. QueueCallOK(s)
      BY <1>1, <1>2, <1>5 DEF QueueInv
    <2>2. QED
      BY <1>1, <1>2, <1>4, <1>5, <2>1, QueueWritten
  <1>6. Rows' = Rows /\ crashes' = crashes
    BY <1>1 DEF Rows, QueueInv
  <1>7. PICK t : t = Tail(s)
    OBVIOUS
  <1>8. Unbroken => QueueCallOK(t)'
    BY <1>5, <1>7
  <1>9. QueueInv'
    BY <1>1, <1>3, <1>5, <1>6, <1>7, <1>8, QueueMoves
  <1>10. QED
    BY <1>2, <1>5, <1>9

\* A call whose next statement is not about the queue has none that is.
LEMMA OtherHead ==
  ASSUME LandInv, QueueInv, Unbroken, NEW p \in Procs, call[p] # <<>>,
         Head(call[p]).op \notin QueueOps
  PROVE  Distinct /\ \A i \in DOMAIN call[p] : call[p][i].op \notin QueueOps
  <1>1. PICK s : s = call[p]
    OBVIOUS
  <1>2. IsSeq(s) /\ QueueCallOK(s)
    BY <1>1 DEF LandInv, CallOK, QueueInv
  <1>3. Head(s) = s[1] /\ 1 \in DOMAIN s
    BY <1>1, <1>2, TailFacts
  <1>4. \A a, b : <<a>>[1] = a /\ <<a, b>>[1] = a
    OBVIOUS
  <1>5. s[1].op \notin QueueOps
    BY <1>1, <1>3
  <1>6. ~ Placing(s)
    BY <1>3, <1>5 DEF Placing, QueueOps
  <1>7. ~ Taking(s)
    BY <1>4, <1>5, StatementFields DEF Taking, TakePosition, QueueOps
  <1>8. ~ Leaving(s) /\ ~ Dequeuing(s) /\ ~ Compacting(s)
    BY <1>4, <1>5, StatementFields DEF Leaving, Dequeuing, Compacting, QueueOps
  <1>9. OtherCall(s)
    BY <1>2, <1>6, <1>7, <1>8 DEF QueueCallOK
  <1>10. QED
    BY <1>1, <1>9 DEF OtherCall

\* The other statements.
LEMMA OtherStep ==
  ASSUME LandInv, LandInv', QueueInv, NEW p \in Procs,
         \/ WriteReview(p) \/ MakeRoom(p) \/ InsertEntry(p) \/ WriteEntries(p)
         \/ Pick(p) \/ MarkMerged(p)
  PROVE  QueueInv' /\ queue' = queue
  <1>1. /\ MayRun(p) /\ call[p] # <<>> /\ Head(call[p]).op \notin QueueOps
        /\ UNCHANGED <<setting, queue, crashes>> /\ (Done(p) \/ Throw(p))
    BY DEF WriteReview, MakeRoom, InsertEntry, WriteEntries, Pick, MarkMerged, Does, rest, QueueOps
  <1>2. \A q \in Procs : q # p => call'[q] = call[q]
    BY <1>1 DEF Done, Throw, LandInv, LandType
  <1>3. Rows \subseteq Rows'
    <2>1. CASE WriteReview(p) \/ MarkMerged(p)
      <3>1. StatementOK(Head(call[p]))
        BY <1>1, HeadOK
      <3>2. WriteReview(p) => Head(call[p]).value \in Statuses
        BY <3>1 DEF WriteReview, Does, StatementOK
      <3>3. \A v \in Statuses : v # "none"
        BY DEF Statuses
      <3>4. QED
        BY <2>1, <3>1, <3>2, <3>3 DEF WriteReview, MarkMerged, Rows, LandInv, LandType
    <2>2. CASE MakeRoom(p) \/ InsertEntry(p) \/ WriteEntries(p) \/ Pick(p)
      BY <2>2 DEF MakeRoom, InsertEntry, WriteEntries, Pick, Rows
    <2>3. QED
      BY <2>1, <2>2
  <1>4. ASSUME Unbroken
        PROVE  Distinct /\ \A i \in DOMAIN call'[p] : call'[p][i].op \notin QueueOps
    <2>1. PICK s : s = call[p]
      OBVIOUS
    <2>2. Distinct /\ \A i \in DOMAIN s : s[i].op \notin QueueOps
      BY <1>1, <1>4, <2>1, OtherHead
    <2>3. CASE Throw(p)
      <3>1. call'[p] = <<>> /\ DOMAIN <<>> = {}
        BY <2>3 DEF Throw, LandInv, LandType
      <3>2. QED
        BY <3>1, <2>2
    <2>4. CASE Done(p)
      <3>1. PICK t : t = Tail(s)
        OBVIOUS
      <3>2. /\ Len(s) \in Nat /\ Len(s) > 0 /\ DOMAIN s = 1 .. Len(s)
            /\ DOMAIN t = 1 .. Len(s) - 1
            /\ \A i \in 1 .. Len(s) - 1 : t[i] = s[i + 1]
        BY <1>1, <2>1, <3>1, TailFacts DEF LandInv, CallOK
      <3>3. \A i \in DOMAIN t : i + 1 \in DOMAIN s /\ t[i] = s[i + 1]
        BY <3>2
      <3>4. call'[p] = t
        BY <2>1, <2>4, <3>1 DEF Done, LandInv, LandType
      <3>5. QED
        BY <2>2, <3>3, <3>4
    <2>5. QED
      BY <1>1, <2>3, <2>4
  <1>5. Unbroken => Queued \subseteq Rows'
    BY <1>3 DEF QueueInv
  <1>6. crashes' = crashes
    BY <1>1 DEF QueueInv
  <1>7. QED
    BY <1>1, <1>2, <1>4, <1>5, <1>6, QueueStays

\* A call that is not about the queue begins.
LEMMA AsideKeeps ==
  ASSUME LandInv, LandInv', QueueInv, NEW p \in Procs, Aside(p)
  PROVE  QueueInv'
  <1>1. Unbroken => Distinct /\ Queued \subseteq Rows'
    BY FreeDistinct DEF Aside
  <1>2. crashes' = crashes /\ MayRun(p)
    BY DEF Aside, QueueInv, Free
  <1>3. QED
    BY <1>1, <1>2, QueueStays DEF Aside, NoQueue

\* Rows go between calls, and leave the queue then.
LEMMA SingleQueue ==
  ASSUME LandInv, LandInv', QueueInv, Single
  PROVE  QueueInv'
  <1>1. UNCHANGED <<setting, call, crashes>>
    BY DEF Single, DeleteDiffStack, DeleteStacksByStatus, Delete, CreateCheckpoint,
           DeleteCheckpoints, rest
  <1>2. \/ UNCHANGED <<review, queue>>
        \/ \E ks : /\ review' = [k \in Stacks |-> IF k \in ks THEN "none" ELSE review[k]]
                   /\ queue' = [k \in Stacks |-> IF k \in ks THEN Null ELSE queue[k]]
    BY DEF Single, DeleteDiffStack, DeleteStacksByStatus, Delete, CreateCheckpoint,
           DeleteCheckpoints
  <1>3. CASE ~ Unbroken
    BY <1>1, <1>3 DEF QueueInv, Unbroken
  <1>4. CASE Unbroken
    <2>1. Quiet /\ Quiet' /\ Distinct /\ queue \in [Stacks -> Nat \cup {Null}] /\ Queued \subseteq Rows
      BY <1>1, <1>4 DEF Single, Quiet, QueueInv, Unbroken
    <2>2. /\ queue' \in [Stacks -> Nat \cup {Null}]
          /\ \A k \in Stacks : queue'[k] # Null => queue'[k] = queue[k] /\ review'[k] = review[k]
      BY <1>2, <2>1
    <2>3. Queued' \subseteq Rows' /\ Distinct'
      BY <2>1, <2>2 DEF Queued, Rows, Distinct
    <2>4. QED
      BY <1>1, <2>1, <2>2, <2>3 DEF QueueInv, Quiet, Unbroken
  <1>5. QED
    BY <1>3, <1>4

\* Where a call was cut short nothing is claimed.
LEMMA CrashQueue ==
  ASSUME LandInv, LandInv', QueueInv, NEW p \in Procs, Crash(p)
  PROVE  QueueInv' /\ queue' = queue
  <1>1. crashes \in Nat /\ crashes' = crashes + 1 /\ queue' = queue
    BY DEF Crash, QueueInv
  <1>2. crashes' \in Nat /\ crashes' # 0
    BY <1>1
  <1>3. QED
    BY <1>1, <1>2 DEF QueueInv, Unbroken

Kept ==
  Unbroken => \A p \in Procs :
    call[p] # <<>> /\ call'[p] # call[p] => OrderStays(Head(call[p]))

LEMMA QueueKept ==
  ASSUME LandInv, LandInv', QueueInv, [Next]_vars
  PROVE  QueueInv' /\ Kept
  <1>a. /\ setting.stacks \subseteq Stacks /\ setting.procs \subseteq Procs
        /\ setting.positions \in Nat /\ setting.statuses \subseteq Statuses
    BY DEF LandInv, LandType, Setting
  <1>b. ASSUME queue' = queue PROVE Kept
    BY <1>b DEF Kept, OrderStays
  <1>1. CASE UNCHANGED vars
    <2>1. QueueInv'
      BY <1>1 DEF vars, QueueInv, QueueCallOK, OtherCall, Taking, Placing, Leaving, Dequeuing,
                  Compacting, Distinct, Queued, Rows, Quiet, Unbroken
    <2>2. QED
      BY <1>1, <1>b, <2>1 DEF vars
  <1>2. ASSUME NEW p \in setting.procs, Call(p) PROVE QueueInv' /\ Kept
    <2>1. ASSUME Aside(p) PROVE QueueInv' /\ Kept
      BY <2>1, <1>a, <1>b, AsideKeeps DEF Aside
    <2>2. ASSUME NEW k \in setting.stacks, NEW st \in setting.statuses, SetStackReviewStatus(p, k, st)
          PROVE  Aside(p)
      BY <2>2, <1>a, ReviewBegins
    <2>3. ASSUME NEW k \in Stacks,
                 \/ \E n \in 0 .. setting.positions : SetStackQueuePosition(p, k, n)
                 \/ LeaveQueue(p, k) \/ EnqueueStack(p, k) \/ DequeueStack(p, k)
                 \/ ReorderQueue(p)
          PROVE  QueueInv' /\ Kept
      <3>1. 0 .. setting.positions \subseteq Nat
        BY <1>a
      <3>2. QueueInv'
        BY <2>3, <3>1, <1>a, QueueCallsBegin
      <3>3. queue' = queue
        BY <2>3 DEF SetStackQueuePosition, LeaveQueue, EnqueueStack, DequeueStack, ReorderQueue,
                    Unchanged
      <3>4. QED
        BY <3>2, <3>3, <1>b
    <2>4. ASSUME NEW k \in setting.stacks, CherryPickStackToTarget(p, k) PROVE Aside(p)
      BY <2>4, <1>a, PickBegins
    <2>5. ASSUME BuildCall(p) PROVE Aside(p)
      BY <2>5, <1>a, CreateBegins, ContentEdits DEF BuildCall
    <2>6. ReorderQueue(p) => \E k \in Stacks : TRUE
      BY DEF ReorderQueue, Queued
    <2>7. QED
      BY <1>2, <1>a, <2>1, <2>2, <2>3, <2>4, <2>5, <2>6 DEF Call
  <1>3. ASSUME NEW p \in setting.procs, Step(p) \/ Crash(p) PROVE QueueInv' /\ Kept
    <2>1. CASE WriteQueue(p)
      <3>1. QueueInv' /\ (Unbroken => OrderStays(Head(call[p])))
        BY <2>1, <1>a, WriteQueueStep
      <3>2. \A q \in Procs : q # p => call'[q] = call[q]
        BY <2>1 DEF WriteQueue, Done, LandInv, LandType
      <3>3. QED
        BY <3>1, <3>2 DEF Kept
    <2>2. CASE \/ WriteReview(p) \/ MakeRoom(p) \/ InsertEntry(p) \/ WriteEntries(p)
               \/ Pick(p) \/ MarkMerged(p)
      BY <2>2, <1>a, <1>b, OtherStep
    <2>3. CASE Crash(p)
      BY <2>3, <1>a, <1>b, CrashQueue
    <2>4. QED
      BY <1>3, <2>1, <2>2, <2>3 DEF Step
  <1>4. CASE Single
    <2>1. ~ setting.built => \A p \in Procs : call[p] = <<>>
      BY <1>4 DEF Single, Quiet
    <2>2. QED
      BY <1>4, <2>1, SingleQueue DEF Kept, Unbroken
  <1>5. QED
    BY <1>1, <1>2, <1>3, <1>4 DEF Next

LEMMA InitQueue == Init => QueueInv
  <1> SUFFICES ASSUME Init PROVE QueueInv
    OBVIOUS
  <1>1. queue = [k \in Stacks |-> Null] /\ \A p \in Procs : call[p] = <<>>
    BY DEF Init
  <1>2. Queued = {}
    BY <1>1 DEF Queued
  <1>3. QED
    BY <1>1, <1>2 DEF Init, QueueInv, Distinct

\* Until a call is cut short, a statement of a call changes the order of no two stacks that
\* are in the queue before and after and are both not the one it is about.
THEOREM OthersKeepTheirOrder ==
  Spec => OrderKept
  <1> DEFINE Change == Unbroken => \A p \in Procs, j, k \in Queued :
               /\ call[p] # <<>> /\ call'[p] # call[p]
               /\ Head(call[p]).stack \notin {j, k}
               /\ queue'[j] # Null /\ queue'[k] # Null
               => (queue[j] < queue[k] <=> queue'[j] < queue'[k])
  <1>1. LandInv /\ LandInv' /\ QueueInv /\ [Next]_vars => QueueInv' /\ [Change]_vars
    <2>1. Kept => Change
      BY DEF Kept, OrderStays
    <2>2. QED
      BY <2>1, QueueKept
  <1>2. QED
    BY <1>1, InitLand, LandStep, InitQueue, PTL DEF Spec, OrderKept

-----------------------------------------------------------------------------
(* The places in a stack, as long as no call is cut short: between calls no *)
(* two checkpoints have the same one.                                       *)

ApartIn(row) == \A c, d \in Checkpoints : row[c] # Null /\ row[c] = row[d] => c = d
FreeIn(row, n) == \A c \in Checkpoints : row[c] # n
AllApart == \A k \in Stacks : ApartIn(place[k])

Says(x, op, k, c, n) == x.op = op /\ x.stack = k /\ x.checkpoint = c /\ x.value = n

\* What is left of a call that edits k.  First, room for another checkpoint, and the
\* checkpoint.
Adds(s, k, c, n) ==
  /\ s # <<>> /\ Tail(s) # <<>>
  /\ Says(Head(s), "room", k, c, n) /\ Says(Head(Tail(s)), "insert", k, c, n)

ThenAdds(t) ==
  \/ t = <<>>
  \/ \E k \in Stacks, c \in Checkpoints, n \in Nat : Adds(t, k, c, n) /\ Tail(Tail(t)) = <<>>

MakingRoom(s) == AllApart /\ \E k \in Stacks, c \in Checkpoints, n \in Nat :
  Adds(s, k, c, n) /\ ThenAdds(Tail(Tail(s)))

Inserting(s) == AllApart /\ \E k \in Stacks, c \in Checkpoints, n \in Nat :
  /\ FreeIn(place[k], n)
  /\ s # <<>> /\ Says(Head(s), "insert", k, c, n) /\ ThenAdds(Tail(s))

Deleting(s) == AllApart /\ \E k \in Stacks, c \in Checkpoints, n \in Nat :
  /\ place[k][c] = n
  /\ s # <<>> /\ Says(Head(s), "delete", k, c, Null)
  /\ Tail(s) # <<>> /\ Says(Head(Tail(s)), "close", k, c, n) /\ Tail(Tail(s)) = <<>>

Closing(s) == AllApart /\ \E k \in Stacks, c \in Checkpoints, n \in Nat :
  /\ FreeIn(place[k], n)
  /\ s # <<>> /\ Says(Head(s), "close", k, c, n) /\ Tail(s) = <<>>

\* Those that no statement moves any more have places of their own, which none of the
\* others will get.
Named(s) == {s[i].checkpoint : i \in DOMAIN s}
Scattered(row, s, k) ==
  /\ \A i \in DOMAIN s : /\ s[i].op = "move" /\ s[i].stack = k /\ s[i].value \in Nat
                         /\ s[i].checkpoint \in Checkpoints /\ row[s[i].checkpoint] # Null
  /\ \A i, j \in DOMAIN s : s[i].value = s[j].value => i = j
  /\ \A c, d \in Checkpoints \ Named(s) : row[c] # Null /\ row[c] = row[d] => c = d
  /\ \A c \in Checkpoints \ Named(s), i \in DOMAIN s : row[c] # s[i].value

Moving(s) == \E k \in Stacks :
  (\A j \in Stacks \ {k} : ApartIn(place[j])) /\ Scattered(place[k], s, k)

NotEditing(s) == AllApart /\ \A i \in DOMAIN s : s[i].op \notin EditOps

EditCallOK(s) ==
  \/ NotEditing(s) \/ MakingRoom(s) \/ Inserting(s) \/ Deleting(s) \/ Closing(s) \/ Moving(s)

PlaceInv ==
  Unbroken => /\ Quiet => AllApart
              /\ \A p \in Procs : call[p] # <<>> => EditCallOK(call[p])

RowType == [Checkpoints -> Nat \cup {Null}]
PlaceType == place \in [Stacks -> RowType]

\* Those from n on move down by one.
LEMMA RoomMade ==
  ASSUME NEW row \in RowType, NEW new, NEW n \in Nat, ApartIn(row),
         \A c \in Checkpoints : new[c] = IF row[c] # Null /\ row[c] >= n THEN row[c] + 1 ELSE row[c]
  PROVE  ApartIn(new) /\ FreeIn(new, n)
  <1>1. \A c \in Checkpoints : row[c] \in Nat \/ row[c] = Null
    BY DEF RowType
  <1>2. \A c, d \in Checkpoints : new[c] # Null /\ new[c] = new[d] => row[c] # Null /\ row[c] = row[d]
    BY <1>1, StacksAssumption
  <1>3. FreeIn(new, n)
    BY <1>1, StacksAssumption DEF FreeIn
  <1>4. QED
    BY <1>2, <1>3 DEF ApartIn

\* A checkpoint takes the place nobody has.
LEMMA GapFilled ==
  ASSUME NEW row, NEW new, NEW c \in Checkpoints, NEW n \in Nat, ApartIn(row), FreeIn(row, n),
         new[c] = n, \A d \in Checkpoints : d # c => new[d] = row[d]
  PROVE  ApartIn(new)
  BY DEF ApartIn, FreeIn

\* A checkpoint leaves a gap.
LEMMA GapLeft ==
  ASSUME NEW row, NEW new, NEW c \in Checkpoints, NEW n \in Nat, ApartIn(row), row[c] = n,
         new[c] = Null, \A d \in Checkpoints : d # c => new[d] = row[d]
  PROVE  ApartIn(new) /\ FreeIn(new, n)
  <1>1. n # Null
    BY StacksAssumption
  <1>2. QED
    BY <1>1 DEF ApartIn, FreeIn

\* Those behind the gap move up.
LEMMA GapClosed ==
  ASSUME NEW row \in RowType, NEW new, NEW n \in Nat, ApartIn(row), FreeIn(row, n),
         \A c \in Checkpoints : new[c] = IF row[c] # Null /\ row[c] > n THEN row[c] - 1 ELSE row[c]
  PROVE  ApartIn(new)
  <1>1. \A c \in Checkpoints : (row[c] \in Nat \/ row[c] = Null) /\ row[c] # n
    BY DEF RowType, FreeIn
  <1>2. \A c \in Checkpoints : row[c] \in Nat => new[c] \in Nat
    BY <1>1
  <1>3. \A c, d \in Checkpoints : new[c] # Null /\ new[c] = new[d] => row[c] # Null /\ row[c] = row[d]
    BY <1>1, <1>2, StacksAssumption
  <1>4. QED
    BY <1>3 DEF ApartIn

\* The end of a stack is behind the last one.
LEMMA EndIsFree ==
  ASSUME PlaceType, NEW k \in Stacks
  PROVE  EndOfStack(k) \in Nat /\ FreeIn(place[k], EndOfStack(k))
  <1> DEFINE S == {place[k][c] : c \in Content(k)}
             Top(n) == \A c \in Content(k) : place[k][c] <= n
  <1>1. \A c \in Checkpoints : c \in Content(k) \/ place[k][c] = Null
    BY DEF Content
  <1>2. \A c \in Content(k) : place[k][c] \in Nat /\ c \in Checkpoints
    BY DEF Content, PlaceType, RowType
  <1>3. CASE Content(k) = {}
    <2>1. EndOfStack(k) = 0 /\ 0 # Null
      BY <1>3, StacksAssumption DEF EndOfStack
    <2>2. QED
      BY <1>1, <1>3, <2>1 DEF FreeIn
  <1>4. CASE Content(k) # {}
    <2>1. S \in SUBSET Nat /\ S # {}
      BY <1>2, <1>4
    <2>2. IsFiniteSet(S)
      <3>1. IsFiniteSet(Content(k))
        BY StacksAssumption, FS_Subset DEF Content
      <3>2. [c \in Content(k) |-> place[k][c]] \in Surjection(Content(k), S)
        BY DEF Surjection
      <3>3. QED
        BY <3>1, <3>2, FS_Surjection
    <2>3. \E n \in S : Top(n)
      <3>1. \E m \in S : \A n \in S : n <= m
        BY <2>1, <2>2, Greatest
      <3>2. QED
        BY <3>1
    <2>4. PICK m \in Nat : m = (CHOOSE n \in S : Top(n)) /\ Top(m)
      <3> HIDE DEF S, Top
      <3>1. QED
        BY <2>1, <2>3
    <2>5. EndOfStack(k) = 1 + m
      BY <1>4, <2>4 DEF EndOfStack
    <2>6. \A c \in Checkpoints : place[k][c] # 1 + m
      <3>1. 1 + m # Null
        BY StacksAssumption
      <3>2. \A c \in Content(k) : place[k][c] <= m
        BY <2>4
      <3>3. \A c \in Content(k) : place[k][c] # 1 + m
        BY <1>2, <3>2
      <3>4. QED
        BY <1>1, <3>1, <3>3
    <2>7. QED
      BY <2>5, <2>6 DEF FreeIn
  <1>5. QED
    BY <1>3, <1>4

\* One stack is edited, and its places are apart afterwards.
LEMMA AllAreApart ==
  ASSUME NEW k \in Stacks, ApartIn(place'[k]),
         \A j \in Stacks \ {k} : ApartIn(place[j]) /\ place'[j] = place[j]
  PROVE  AllApart'
  BY DEF AllApart

-----------------------------------------------------------------------------
(* The statements of a call that edits a stack; h is the first, t the rest  *)

LEMMA AfterRoom ==
  ASSUME PlaceType, NEW s, MakingRoom(s), NEW h, h = Head(s), NEW t, t = Tail(s), place' = Room(h)
  PROVE  Inserting(t)'
  <1>1. PICK k \in Stacks, c \in Checkpoints, n \in Nat :
          Adds(s, k, c, n) /\ ThenAdds(Tail(Tail(s)))
    BY DEF MakingRoom
  <1>2. /\ t # <<>> /\ Says(h, "room", k, c, n) /\ Says(Head(t), "insert", k, c, n)
        /\ ThenAdds(Tail(t))
    BY <1>1 DEF Adds
  <1>3. /\ \A d \in Checkpoints : place'[k][d] = IF place[k][d] # Null /\ place[k][d] >= n
                                                THEN place[k][d] + 1 ELSE place[k][d]
        /\ \A j \in Stacks : j # k => place'[j] = place[j]
    BY <1>2 DEF Says, Room, Moved, PlaceType, Content
  <1>4. AllApart /\ place[k] \in RowType
    BY DEF MakingRoom, PlaceType
  <1>5. ApartIn(place'[k]) /\ FreeIn(place'[k], n)
    <2>1. PICK row, new : row = place[k] /\ new = place'[k]
      OBVIOUS
    <2>2. ApartIn(new) /\ FreeIn(new, n)
      BY <2>1, <1>3, <1>4, RoomMade DEF AllApart
    <2>3. QED
      BY <2>1, <2>2
  <1>6. AllApart'
    BY <1>3, <1>4, <1>5, AllAreApart DEF AllApart
  <1>7. QED
    BY <1>2, <1>5, <1>6 DEF Inserting

LEMMA Nothing == DOMAIN <<>> = {}
  OBVIOUS

LEMMA AfterInsert ==
  ASSUME PlaceType, NEW s, Inserting(s), NEW h, h = Head(s), NEW t, t = Tail(s),
         place' = [place EXCEPT ![h.stack][h.checkpoint] = h.value]
  PROVE  EditCallOK(t)'
  <1>1. PICK k \in Stacks, c \in Checkpoints, n \in Nat :
          /\ FreeIn(place[k], n) /\ Says(h, "insert", k, c, n) /\ ThenAdds(t)
    BY DEF Inserting
  <1>2. place' = [place EXCEPT ![k][c] = n]
    BY <1>1 DEF Says
  <1>3. /\ place'[k][c] = n /\ \A d \in Checkpoints : d # c => place'[k][d] = place[k][d]
        /\ \A j \in Stacks : j # k => place'[j] = place[j]
    BY <1>2, EntryWritten DEF PlaceType, RowType
  <1>4. AllApart
    BY DEF Inserting
  <1>5. ApartIn(place'[k])
    <2>1. PICK row, new : row = place[k] /\ new = place'[k]
      OBVIOUS
    <2>2. ApartIn(row) /\ FreeIn(row, n) /\ new[c] = n
      BY <2>1, <1>1, <1>3, <1>4 DEF AllApart
    <2>3. \A d \in Checkpoints : d # c => new[d] = row[d]
      BY <2>1, <1>3
    <2>4. ApartIn(new)
      BY <2>2, <2>3, GapFilled
    <2>5. QED
      BY <2>1, <2>4
  <1>6. AllApart'
    BY <1>3, <1>4, <1>5, AllAreApart DEF AllApart
  <1>7. CASE t = <<>>
    BY <1>6, <1>7, Nothing DEF EditCallOK, NotEditing
  <1>8. CASE t # <<>>
    <2>1. ThenAdds(<<>>)
      BY DEF ThenAdds
    <2>2. MakingRoom(t)'
      BY <1>1, <1>6, <1>8, <2>1 DEF MakingRoom, ThenAdds
    <2>3. QED
      BY <2>2 DEF EditCallOK
  <1>9. QED
    BY <1>7, <1>8

LEMMA AfterDelete ==
  ASSUME PlaceType, NEW s, Deleting(s), NEW h, h = Head(s), NEW t, t = Tail(s),
         place' = [place EXCEPT ![h.stack][h.checkpoint] = Null]
  PROVE  Closing(t)'
  <1>1. PICK k \in Stacks, c \in Checkpoints, n \in Nat :
          /\ place[k][c] = n /\ Says(h, "delete", k, c, Null)
          /\ t # <<>> /\ Says(Head(t), "close", k, c, n) /\ Tail(t) = <<>>
    BY DEF Deleting
  <1>2. place' = [place EXCEPT ![k][c] = Null] /\ Null \in Nat \cup {Null}
    BY <1>1 DEF Says
  <1>3. /\ place'[k][c] = Null /\ \A d \in Checkpoints : d # c => place'[k][d] = place[k][d]
        /\ \A j \in Stacks : j # k => place'[j] = place[j]
    BY <1>2, EntryWritten DEF PlaceType, RowType
  <1>4. AllApart
    BY DEF Deleting
  <1>5. ApartIn(place'[k]) /\ FreeIn(place'[k], n)
    <2>1. PICK row, new : row = place[k] /\ new = place'[k]
      OBVIOUS
    <2>2. /\ ApartIn(row) /\ row[c] = n /\ new[c] = Null
          /\ \A d \in Checkpoints : d # c => new[d] = row[d]
      BY <2>1, <1>1, <1>3, <1>4 DEF AllApart
    <2>3. ApartIn(new) /\ FreeIn(new, n)
      BY <2>2, GapLeft
    <2>4. QED
      BY <2>1, <2>3
  <1>6. AllApart'
    BY <1>3, <1>4, <1>5, AllAreApart DEF AllApart
  <1>7. QED
    BY <1>1, <1>5, <1>6 DEF Closing

LEMMA AfterClose ==
  ASSUME PlaceType, NEW s, Closing(s), NEW h, h = Head(s), NEW t, t = Tail(s), place' = Close(h)
  PROVE  NotEditing(t)'
  <1>1. PICK k \in Stacks, c \in Checkpoints, n \in Nat :
          FreeIn(place[k], n) /\ Says(h, "close", k, c, n) /\ t = <<>>
    BY DEF Closing
  <1>2. /\ \A d \in Checkpoints : place'[k][d] = IF place[k][d] # Null /\ place[k][d] > n
                                                THEN place[k][d] - 1 ELSE place[k][d]
        /\ \A j \in Stacks : j # k => place'[j] = place[j]
    BY <1>1 DEF Says, Close, PlaceType, Content
  <1>3. AllApart /\ place[k] \in RowType
    BY DEF Closing, PlaceType
  <1>4. ApartIn(place'[k])
    <2>1. PICK row, new : row = place[k] /\ new = place'[k]
      OBVIOUS
    <2>2. ApartIn(new)
      BY <2>1, <1>1, <1>2, <1>3, GapClosed DEF AllApart
    <2>3. QED
      BY <2>1, <2>2
  <1>5. AllApart'
    BY <1>2, <1>3, <1>4, AllAreApart DEF AllApart
  <1>6. QED
    BY <1>1, <1>5, Nothing DEF NotEditing

\* The next checkpoint gets its place in the new order.
LEMMA NextMoved ==
  ASSUME NEW row, NEW new, NEW k, NEW s, IsSeq(s), s # <<>>, Scattered(row, s, k),
         new[s[1].checkpoint] = s[1].value,
         \A d \in Checkpoints : d # s[1].checkpoint => new[d] = row[d]
  PROVE  Scattered(new, Tail(s), k)
  <1>1. PICK t : t = Tail(s)
    OBVIOUS
  <1>2. /\ Len(s) \in Nat /\ Len(s) > 0 /\ DOMAIN s = 1 .. Len(s)
        /\ DOMAIN t = 1 .. Len(s) - 1
        /\ \A i \in 1 .. Len(s) - 1 : t[i] = s[i + 1]
    BY <1>1, TailFacts
  <1>3. /\ 1 \in DOMAIN s
        /\ \A i \in DOMAIN t : i + 1 \in DOMAIN s /\ i + 1 # 1 /\ t[i] = s[i + 1]
        /\ \A i \in DOMAIN s : i = 1 \/ \E j \in DOMAIN t : s[i] = t[j]
    <2>1. \A i \in DOMAIN s : i = 1 \/ (i - 1 \in DOMAIN t /\ i - 1 + 1 = i)
      BY <1>2
    <2>2. QED
      BY <1>2, <2>1
  <1>4. PICK c \in Checkpoints, n \in Nat : c = s[1].checkpoint /\ n = s[1].value
    BY <1>3 DEF Scattered
  <1>5. new[c] = n /\ n # Null /\ \A d \in Checkpoints : d # c => new[d] = row[d]
    BY <1>4, StacksAssumption
  <1>6. \A i \in DOMAIN t : /\ t[i].op = "move" /\ t[i].stack = k /\ t[i].value \in Nat
                           /\ t[i].checkpoint \in Checkpoints /\ new[t[i].checkpoint] # Null
    BY <1>3, <1>5 DEF Scattered
  <1>7. \A i, j \in DOMAIN t : t[i].value = t[j].value => i = j
    <2> SUFFICES ASSUME NEW i \in DOMAIN t, NEW j \in DOMAIN t, t[i].value = t[j].value PROVE i = j
      OBVIOUS
    <2>1. i + 1 = j + 1
      BY <1>3 DEF Scattered
    <2>2. QED
      BY <2>1, <1>2
  <1>8. \A i \in DOMAIN t : t[i].value # n
    BY <1>3, <1>4 DEF Scattered
  <1>9. \A d \in Checkpoints \ Named(t) : d = c \/ (d \notin Named(s) /\ new[d] = row[d])
    <2>1. Named(s) \subseteq Named(t) \cup {c}
      BY <1>3, <1>4 DEF Named
    <2>2. QED
      BY <2>1, <1>5
  <1>10. \A d \in Checkpoints \ Named(s) : row[d] # n
    BY <1>3, <1>4 DEF Scattered
  <1>11. \A d, e \in Checkpoints \ Named(t) : new[d] # Null /\ new[d] = new[e] => d = e
    <2>1. \A d, e \in Checkpoints \ Named(s) : row[d] # Null /\ row[d] = row[e] => d = e
      BY DEF Scattered
    <2>2. QED
      BY <2>1, <1>5, <1>9, <1>10
  <1>12. \A d \in Checkpoints \ Named(t), i \in DOMAIN t : new[d] # t[i].value
    <2>1. \A d \in Checkpoints \ Named(s), i \in DOMAIN s : row[d] # s[i].value
      BY DEF Scattered
    <2>2. QED
      BY <2>1, <1>3, <1>5, <1>8, <1>9
  <1>13. Scattered(new, t, k)
    BY <1>6, <1>7, <1>11, <1>12 DEF Scattered
  <1>14. QED
    BY <1>1, <1>13

LEMMA AfterMove ==
  ASSUME PlaceType, NEW s, IsSeq(s), s # <<>>, Moving(s), NEW h, h = Head(s), NEW t, t = Tail(s),
         place' = IF h.checkpoint \in Content(h.stack)
                  THEN [place EXCEPT ![h.stack][h.checkpoint] = h.value] ELSE place
  PROVE  Moving(t)'
  <1>1. PICK k \in Stacks :
          (\A j \in Stacks \ {k} : ApartIn(place[j])) /\ Scattered(place[k], s, k)
    BY DEF Moving
  <1>2. h = s[1] /\ 1 \in DOMAIN s
    BY TailFacts
  <1>3. PICK c \in Checkpoints, n \in Nat :
          h.checkpoint = c /\ h.value = n /\ h.stack = k /\ place[k][c] # Null
    BY <1>1, <1>2 DEF Scattered
  <1>4. place' = [place EXCEPT ![k][c] = n]
    BY <1>3 DEF Content
  <1>5. /\ place'[k][c] = n /\ \A d \in Checkpoints : d # c => place'[k][d] = place[k][d]
        /\ \A j \in Stacks : j # k => place'[j] = place[j]
    BY <1>4, EntryWritten DEF PlaceType, RowType
  <1>6. Scattered(place'[k], t, k)
    <2>1. PICK row, new : row = place[k] /\ new = place'[k]
      OBVIOUS
    <2>2. Scattered(row, s, k) /\ new[s[1].checkpoint] = s[1].value
          /\ \A d \in Checkpoints : d # s[1].checkpoint => new[d] = row[d]
      BY <2>1, <1>1, <1>2, <1>3, <1>5
    <2>3. Scattered(new, t, k)
      BY <2>2, NextMoved
    <2>4. QED
      BY <2>1, <2>3
  <1>7. QED
    BY <1>1, <1>5, <1>6 DEF Moving

\* Which form a call has is seen from its first statement.
LEMMA FormOf ==
  ASSUME NEW s, IsSeq(s), s # <<>>, EditCallOK(s)
  PROVE  /\ Head(s).op = "room" => MakingRoom(s)
         /\ Head(s).op = "insert" => Inserting(s)
         /\ Head(s).op = "delete" => Deleting(s)
         /\ Head(s).op = "close" => Closing(s)
         /\ Head(s).op = "move" => Moving(s)
         /\ Head(s).op \notin EditOps => NotEditing(s)
  <1>1. Head(s) = s[1] /\ 1 \in DOMAIN s
    BY TailFacts
  <1>2. /\ NotEditing(s) => Head(s).op \notin EditOps
        /\ Moving(s) => Head(s).op = "move"
    BY <1>1 DEF NotEditing, Moving, Scattered
  <1>3. /\ MakingRoom(s) => Head(s).op = "room"
        /\ Inserting(s) => Head(s).op = "insert"
        /\ Deleting(s) => Head(s).op = "delete"
        /\ Closing(s) => Head(s).op = "close"
    BY DEF MakingRoom, Inserting, Deleting, Closing, Adds, Says
  <1>4. QED
    BY <1>2, <1>3 DEF EditCallOK, EditOps

LEMMA AllPlaced == EditCallOK(<<>>) => AllApart
  <1>1. ASSUME Moving(<<>>) PROVE AllApart
    <2>1. PICK k \in Stacks :
            (\A j \in Stacks \ {k} : ApartIn(place[j])) /\ Scattered(place[k], <<>>, k)
      BY <1>1 DEF Moving
    <2>2. Named(<<>>) = {}
      BY Nothing DEF Named
    <2>3. ApartIn(place[k])
      BY <2>1, <2>2 DEF Scattered, ApartIn
    <2>4. QED
      BY <2>1, <2>3 DEF AllApart
  <1>2. QED
    BY <1>1 DEF EditCallOK, NotEditing, MakingRoom, Inserting, Deleting, Closing

\* What an error leaves of a call.
LEMMA Thrown ==
  ASSUME AllApart, place' = place
  PROVE  EditCallOK(<<>>)'
  BY Nothing DEF AllApart, EditCallOK, NotEditing

LEMMA EditWritten ==
  ASSUME LandInv, NEW p \in Procs, MakeRoom(p) \/ InsertEntry(p) \/ WriteEntries(p),
         NEW s, s = call[p], EditCallOK(s), NEW t, t = call'[p]
  PROVE  EditCallOK(t)'
  <1>1. s # <<>>
    BY DEF MakeRoom, InsertEntry, WriteEntries, Does
  <1>2. PlaceType /\ DOMAIN call = Procs /\ IsSeq(s)
    BY DEF LandInv, LandType, PlaceType, RowType, CallOK
  <1>3. PICK h : h = Head(s)
    OBVIOUS
  <1>4. CASE MakeRoom(p)
    <2>1. MakingRoom(s)
      BY <1>1, <1>2, <1>3, <1>4, FormOf DEF MakeRoom, Does
    <2>2. CASE place' = Room(h) /\ t = Tail(s)
      <3>1. Inserting(t)'
        BY <1>2, <1>3, <2>1, <2>2, AfterRoom
      <3>2. QED
        BY <3>1 DEF EditCallOK
    <2>3. CASE place' = place /\ t = <<>>
      <3>1. EditCallOK(<<>>)'
        BY <2>1, <2>3, Thrown DEF MakingRoom
      <3>2. QED
        BY <2>3, <3>1
    <2>4. QED
      BY <1>2, <1>3, <1>4, <2>2, <2>3 DEF MakeRoom, Done, Throw
  <1>5. CASE InsertEntry(p)
    <2>1. Inserting(s)
      BY <1>1, <1>2, <1>3, <1>5, FormOf DEF InsertEntry, Does
    <2>2. CASE place' = [place EXCEPT ![h.stack][h.checkpoint] = h.value] /\ t = Tail(s)
      BY <1>2, <1>3, <2>1, <2>2, AfterInsert
    <2>3. CASE place' = place /\ t = <<>>
      <3>1. EditCallOK(<<>>)'
        BY <2>1, <2>3, Thrown DEF Inserting
      <3>2. QED
        BY <2>3, <3>1
    <2>4. QED
      BY <1>2, <1>3, <1>5, <2>2, <2>3 DEF InsertEntry, Done, Throw
  <1>6. CASE WriteEntries(p)
    <2>1. t = Tail(s)
      BY <1>2, <1>6 DEF WriteEntries, Done
    <2>2. CASE h.op = "delete"
      <3>1. Deleting(s) /\ place' = [place EXCEPT ![h.stack][h.checkpoint] = Null]
        BY <1>1, <1>2, <1>3, <1>6, <2>2, FormOf DEF WriteEntries, Does
      <3>2. Closing(t)'
        BY <1>2, <1>3, <2>1, <3>1, AfterDelete
      <3>3. QED
        BY <3>2 DEF EditCallOK
    <2>3. CASE h.op = "close"
      <3>1. Closing(s) /\ place' = Close(h)
        BY <1>1, <1>2, <1>3, <1>6, <2>3, FormOf DEF WriteEntries, Does
      <3>2. NotEditing(t)'
        BY <1>2, <1>3, <2>1, <3>1, AfterClose
      <3>3. QED
        BY <3>2 DEF EditCallOK
    <2>4. CASE h.op = "move"
      <3>1. /\ Moving(s)
            /\ place' = IF h.checkpoint \in Content(h.stack)
                        THEN [place EXCEPT ![h.stack][h.checkpoint] = h.value] ELSE place
        BY <1>1, <1>2, <1>3, <1>6, <2>4, FormOf DEF WriteEntries, Does
      <3>2. Moving(t)'
        BY <1>1, <1>2, <1>3, <2>1, <3>1, AfterMove
      <3>3. QED
        BY <3>2 DEF EditCallOK
    <2>5. QED
      BY <1>3, <1>6, <2>2, <2>3, <2>4 DEF WriteEntries, Does
  <1>7. QED
    BY <1>4, <1>5, <1>6

-----------------------------------------------------------------------------
(* Every step leaves the stacks ordered, or a call that will                *)

\* p begins a call or executes a statement; t is what is left.
LEMMA PlaceMoves ==
  ASSUME LandInv, PlaceInv, UNCHANGED <<setting, crashes>>,
         NEW p \in Procs, MayRun(p), \A q \in Procs : q # p => call'[q] = call[q],
         NEW t, t = call'[p], Unbroken => EditCallOK(t)'
  PROVE  PlaceInv'
  <1> SUFFICES ASSUME Unbroken
               PROVE  /\ Quiet' => AllApart'
                      /\ \A q \in Procs : call'[q] # <<>> => EditCallOK(call[q])'
    BY DEF PlaceInv, Unbroken
  <1>1. \A q \in Procs : q # p => call'[q] = <<>>
    BY DEF MayRun, Unbroken
  <1>2. Quiet' => AllApart'
    <2>1. ASSUME t = <<>> PROVE AllApart'
      <3>1. EditCallOK(<<>>)' => AllApart'
        BY AllPlaced, PTL
      <3>2. EditCallOK(<<>>)'
        BY <2>1
      <3>3. QED
        BY <3>1, <3>2
    <2>2. QED
      BY <2>1 DEF Quiet
  <1>3. EditCallOK(call[p])'
    OBVIOUS
  <1>4. QED
    BY <1>1, <1>2, <1>3

LEMMA PlaceStays ==
  ASSUME LandInv, PlaceInv, UNCHANGED <<setting, place, crashes>>,
         NEW p \in Procs, MayRun(p), \A q \in Procs : q # p => call'[q] = call[q],
         Unbroken => AllApart /\ NoEdit(p)'
  PROVE  PlaceInv'
  <1>1. PICK t : t = call'[p]
    OBVIOUS
  <1>2. ASSUME Unbroken PROVE EditCallOK(t)'
    <2>1. AllApart'
      BY <1>2 DEF AllApart
    <2>2. NotEditing(t)'
      BY <1>1, <1>2, <2>1 DEF NotEditing, NoEdit
    <2>3. QED
      BY <2>2 DEF EditCallOK
  <1>3. QED
    BY <1>1, <1>2, PlaceMoves

LEMMA FreeApart ==
  ASSUME PlaceInv, NEW p \in Procs, Free(p), Unbroken
  PROVE  AllApart
  BY DEF PlaceInv, Free, MayRun, Quiet, Unbroken

\* The review, the queue and the target: no entry is written.
LEMMA PlacesUntouched ==
  ASSUME LandInv, QueueInv, PlaceInv, NEW p \in Procs,
         WriteReview(p) \/ WriteQueue(p) \/ Pick(p) \/ MarkMerged(p)
  PROVE  PlaceInv'
  <1>1. /\ MayRun(p) /\ call[p] # <<>> /\ Head(call[p]).op \notin EditOps
        /\ UNCHANGED <<setting, place, crashes>> /\ (Done(p) \/ Throw(p))
    BY DEF WriteReview, WriteQueue, Pick, MarkMerged, Does, rest, EditOps
  <1>2. \A q \in Procs : q # p => call'[q] = call[q]
    BY <1>1 DEF Done, Throw, LandInv, LandType
  <1>3. ASSUME Unbroken PROVE AllApart /\ NoEdit(p)'
    <2>1. PICK s : s = call[p]
      OBVIOUS
    <2>2. IsSeq(s) /\ EditCallOK(s)
      BY <1>1, <1>3, <2>1 DEF LandInv, CallOK, PlaceInv
    <2>3. AllApart /\ \A i \in DOMAIN s : s[i].op \notin EditOps
      BY <1>1, <2>1, <2>2, FormOf DEF NotEditing
    <2>4. CASE Throw(p)
      <3>1. call'[p] = <<>>
        BY <2>4 DEF Throw, LandInv, LandType
      <3>2. QED
        BY <2>3, <3>1, Nothing DEF NoEdit
    <2>5. CASE Done(p)
      <3>1. PICK t : t = Tail(s)
        OBVIOUS
      <3>2. \A i \in DOMAIN t : i + 1 \in DOMAIN s /\ t[i] = s[i + 1]
        <4>1. /\ Len(s) \in Nat /\ Len(s) > 0 /\ DOMAIN s = 1 .. Len(s)
              /\ DOMAIN t = 1 .. Len(s) - 1
              /\ \A i \in 1 .. Len(s) - 1 : t[i] = s[i + 1]
          BY <1>1, <2>1, <2>2, <3>1, TailFacts
        <4>2. QED
          BY <4>1
      <3>3. call'[p] = t
        BY <2>1, <2>5, <3>1 DEF Done, LandInv, LandType
      <3>4. QED
        BY <2>3, <3>2, <3>3 DEF NoEdit
    <2>6. QED
      BY <1>1, <2>4, <2>5
  <1>4. QED
    BY <1>1, <1>2, <1>3, PlaceStays

LEMMA EntriesWritten ==
  ASSUME LandInv, QueueInv, PlaceInv, NEW p \in Procs,
         MakeRoom(p) \/ InsertEntry(p) \/ WriteEntries(p)
  PROVE  PlaceInv'
  <1>1. /\ MayRun(p) /\ call[p] # <<>> /\ UNCHANGED <<setting, crashes>> /\ (Done(p) \/ Throw(p))
    BY DEF MakeRoom, InsertEntry, WriteEntries, Does, rest
  <1>2. \A q \in Procs : q # p => call'[q] = call[q]
    BY <1>1 DEF Done, Throw, LandInv, LandType
  <1>3. PICK s : s = call[p]
    OBVIOUS
  <1>4. PICK t : t = call'[p]
    OBVIOUS
  <1>5. ASSUME Unbroken PROVE EditCallOK(t)'
    <2>1. EditCallOK(s)
      BY <1>1, <1>3, <1>5 DEF PlaceInv
    <2>2. QED
      BY <1>3, <1>4, <2>1, EditWritten
  <1>6. QED
    BY <1>1, <1>2, <1>4, <1>5, PlaceMoves

\* A call that edits k begins.
LEMMA PlaceBegins ==
  ASSUME LandInv, PlaceInv, NEW p \in Procs, Free(p), NEW s, Begin(p, s),
         UNCHANGED <<setting, crashes>>, Unbroken => EditCallOK(s)'
  PROVE  PlaceInv'
  <1>1. call'[p] = s /\ \A q \in Procs : q # p => call'[q] = call[q]
    BY DEF Begin, LandInv, LandType
  <1>2. MayRun(p)
    BY DEF Free
  <1>3. QED
    BY <1>1, <1>2, PlaceMoves

LEMMA TupleParts ==
  /\ \A a : <<a>> # <<>> /\ Head(<<a>>) = a /\ Tail(<<a>>) = <<>>
  /\ \A a, b : <<a, b>> # <<>> /\ Head(<<a, b>>) = a /\ Tail(<<a, b>>) = <<b>>
  /\ \A a, b, c, d : /\ <<a, b>> \o <<c, d>> # <<>> /\ Head(<<a, b>> \o <<c, d>>) = a
                     /\ Tail(<<a, b>> \o <<c, d>>) # <<>>
                     /\ Head(Tail(<<a, b>> \o <<c, d>>)) = b
                     /\ Tail(Tail(<<a, b>> \o <<c, d>>)) = <<c, d>>
  <1>1. \A a : <<a>> # <<>> /\ Head(<<a>>) = a /\ Tail(<<a>>) = <<>>
    OBVIOUS
  <1>2. \A a, b : <<a, b>> # <<>> /\ Head(<<a, b>>) = a /\ Tail(<<a, b>>) = <<b>>
    OBVIOUS
  <1>3. ASSUME NEW a, NEW b, NEW c, NEW d PROVE <<a, b>> \o <<c, d>> = <<a, b, c, d>>
    <2> DEFINE T == {a, b, c, d}
    <2>1. <<a, b>> \in Seq(T) /\ Len(<<a, b>>) = 2 /\ <<a, b>>[1] = a /\ <<a, b>>[2] = b
      OBVIOUS
    <2>2. <<c, d>> \in Seq(T) /\ Len(<<c, d>>) = 2 /\ <<c, d>>[1] = c /\ <<c, d>>[2] = d
      OBVIOUS
    <2>3. /\ <<a, b, c, d>> \in Seq(T) /\ Len(<<a, b, c, d>>) = 4
          /\ <<a, b, c, d>>[1] = a /\ <<a, b, c, d>>[2] = b
          /\ <<a, b, c, d>>[3] = c /\ <<a, b, c, d>>[4] = d
      OBVIOUS
    <2> HIDE DEF T
    <2>4. PICK x, y, z : x = <<a, b>> /\ y = <<c, d>> /\ z = <<a, b, c, d>>
      OBVIOUS
    <2>5. PICK w : w = x \o y
      OBVIOUS
    <2>a. /\ x \in Seq(T) /\ y \in Seq(T) /\ Len(x) = 2 /\ Len(y) = 2
          /\ x[1] = a /\ x[2] = b /\ y[1] = c /\ y[2] = d
      BY <2>1, <2>2, <2>4
    <2>b. /\ z \in Seq(T) /\ Len(z) = 4 /\ z[1] = a /\ z[2] = b /\ z[3] = c /\ z[4] = d
      BY <2>3, <2>4
    <2>c. IsSeq(w) /\ DOMAIN w = 1 .. 4 /\ w[1] = a /\ w[2] = b /\ w[3] = c /\ w[4] = d
      <3>1. IsSeq(x) /\ IsSeq(y)
        BY <2>a DEF IsSeq
      <3>2. /\ IsSeq(x \o y) /\ DOMAIN (x \o y) = 1 .. Len(x) + Len(y)
            /\ \A i \in 1 .. Len(x) : (x \o y)[i] = x[i]
            /\ \A i \in Len(x) + 1 .. Len(x) + Len(y) : (x \o y)[i] = y[i - Len(x)]
        BY <3>1, Concatenation
      <3>3. /\ DOMAIN w = 1 .. 2 + 2
            /\ \A i \in 1 .. 2 : w[i] = x[i]
            /\ \A i \in 2 + 1 .. 2 + 2 : w[i] = y[i - 2]
        BY <3>2, <2>5, <2>a
      <3>4. w[1] = x[1] /\ w[2] = x[2] /\ w[3] = y[3 - 2] /\ w[4] = y[4 - 2]
        BY <3>3
      <3>5. 3 - 2 = 1 /\ 4 - 2 = 2 /\ 2 + 2 = 4
        OBVIOUS
      <3>6. IsSeq(w)
        BY <3>2, <2>5
      <3>7. QED
        BY <2>a, <3>3, <3>4, <3>5, <3>6
    <2>6. w = z
      <3>1. \A i \in 1 .. 4 : w[i] = z[i]
        BY <2>b, <2>c
      <3>2. DOMAIN z = 1 .. 4 /\ z = [i \in 1 .. 4 |-> z[i]]
        BY <2>b
      <3>3. w = [i \in 1 .. 4 |-> w[i]]
        BY <2>c DEF IsSeq
      <3>4. QED
        BY <3>1, <3>2, <3>3
    <2>7. QED
      BY <2>4, <2>5, <2>6
  <1>4. \A a, b, c, d : /\ <<a, b, c, d>> # <<>> /\ Head(<<a, b, c, d>>) = a
                       /\ Tail(<<a, b, c, d>>) = <<b, c, d>>
    OBVIOUS
  <1>5. \A b, c, d : <<b, c, d>> # <<>> /\ Head(<<b, c, d>>) = b /\ Tail(<<b, c, d>>) = <<c, d>>
    OBVIOUS
  <1>6. ASSUME NEW a, NEW b, NEW c, NEW d
        PROVE  /\ <<a, b>> \o <<c, d>> # <<>> /\ Head(<<a, b>> \o <<c, d>>) = a
               /\ Tail(<<a, b>> \o <<c, d>>) # <<>>
               /\ Head(Tail(<<a, b>> \o <<c, d>>)) = b
               /\ Tail(Tail(<<a, b>> \o <<c, d>>)) = <<c, d>>
    <2>1. PICK z : z = <<a, b>> \o <<c, d>>
      OBVIOUS
    <2>2. z = <<a, b, c, d>>
      BY <1>3, <2>1
    <2>3. z # <<>> /\ Head(z) = a /\ Tail(z) = <<b, c, d>>
      BY <1>4, <2>2
    <2>4. Tail(z) # <<>> /\ Head(Tail(z)) = b /\ Tail(Tail(z)) = <<c, d>>
      BY <1>5, <2>3
    <2>5. QED
      BY <2>1, <2>3, <2>4
  <1>7. QED
    BY <1>1, <1>2, <1>6

LEMMA FormStays ==
  ASSUME place' = place, NEW s, EditCallOK(s)
  PROVE  EditCallOK(s)'
  BY DEF EditCallOK, NotEditing, MakingRoom, Inserting, Deleting, Closing, Moving, AllApart

LEMMA OneAdded ==
  ASSUME NEW k, NEW c, NEW n, NEW s, s = InsertAt(k, c, n)
  PROVE  Adds(s, k, c, n) /\ Tail(Tail(s)) = <<>>
  <1>1. /\ s # <<>> /\ Head(s) = Statement("room", k, c, n)
        /\ Tail(s) = <<Statement("insert", k, c, n)>>
    BY TupleParts DEF InsertAt
  <1>2. Tail(s) # <<>> /\ Head(Tail(s)) = Statement("insert", k, c, n) /\ Tail(Tail(s)) = <<>>
    BY <1>1, TupleParts
  <1>3. QED
    BY <1>1, <1>2, StatementFields DEF Adds, Says

\* One more checkpoint, at the end or anywhere.
LEMMA AddForm ==
  ASSUME PlaceType, AllApart, NEW k \in Stacks, NEW c \in Checkpoints
  PROVE  /\ EditCallOK(<<Statement("insert", k, c, EndOfStack(k))>>)
         /\ \A n \in Nat : EditCallOK(InsertAt(k, c, n))
  <1>1. ThenAdds(<<>>)
    BY DEF ThenAdds
  <1>2. EditCallOK(<<Statement("insert", k, c, EndOfStack(k))>>)
    <2>1. PICK m \in Nat : m = EndOfStack(k) /\ FreeIn(place[k], m)
      BY EndIsFree
    <2>2. PICK s : s = <<Statement("insert", k, c, m)>>
      OBVIOUS
    <2>3. s # <<>> /\ Head(s) = Statement("insert", k, c, m) /\ Tail(s) = <<>>
      BY <2>2, TupleParts
    <2>4. Says(Head(s), "insert", k, c, m)
      BY <2>3, StatementFields DEF Says
    <2>5. Inserting(s)
      BY <1>1, <2>1, <2>3, <2>4 DEF Inserting
    <2>6. QED
      BY <2>1, <2>2, <2>5 DEF EditCallOK
  <1>3. ASSUME NEW n \in Nat PROVE EditCallOK(InsertAt(k, c, n))
    <2>1. PICK s : s = InsertAt(k, c, n)
      OBVIOUS
    <2>2. Adds(s, k, c, n) /\ Tail(Tail(s)) = <<>>
      BY <2>1, OneAdded
    <2>3. MakingRoom(s)
      BY <1>1, <2>2 DEF MakingRoom
    <2>4. QED
      BY <2>1, <2>3 DEF EditCallOK
  <1>4. QED
    BY <1>2, <1>3

LEMMA RemoveForm ==
  ASSUME PlaceType, AllApart, NEW k \in Stacks, NEW c \in Content(k)
  PROVE  EditCallOK(<<Statement("delete", k, c, Null), Statement("close", k, c, place[k][c])>>)
  <1>1. PICK n \in Nat : n = place[k][c]
    BY DEF Content, PlaceType, RowType
  <1>2. c \in Checkpoints
    BY DEF Content
  <1>3. PICK s : s = <<Statement("delete", k, c, Null), Statement("close", k, c, n)>>
    OBVIOUS
  <1>4. /\ s # <<>> /\ Head(s) = Statement("delete", k, c, Null)
        /\ Tail(s) = <<Statement("close", k, c, n)>>
    BY <1>3, TupleParts
  <1>5. Tail(s) # <<>> /\ Head(Tail(s)) = Statement("close", k, c, n) /\ Tail(Tail(s)) = <<>>
    BY <1>4, TupleParts
  <1>6. Says(Head(s), "delete", k, c, Null) /\ Says(Head(Tail(s)), "close", k, c, n)
    BY <1>4, <1>5, StatementFields DEF Says
  <1>7. Deleting(s)
    BY <1>1, <1>2, <1>4, <1>5, <1>6 DEF Deleting
  <1>8. QED
    BY <1>1, <1>3, <1>7 DEF EditCallOK

\* Every checkpoint of the stack is named in the new order, once or more often.
LEMMA ReorderForm ==
  ASSUME PlaceType, AllApart, NEW k \in Stacks, NEW order \in Naming(Content(k))
  PROVE  EditCallOK([i \in DOMAIN order |-> Statement("move", k, order[i], i - 1)])
  <1>1. PICK n \in Nat : order \in [1 .. n -> Content(k)] /\ {order[i] : i \in 1 .. n} = Content(k)
    BY NamingList
  <1>2. PICK s : s = [i \in DOMAIN order |-> Statement("move", k, order[i], i - 1)]
    OBVIOUS
  <1>3. /\ DOMAIN s = 1 .. n
        /\ \A i \in 1 .. n : /\ s[i].op = "move" /\ s[i].stack = k /\ s[i].checkpoint = order[i]
                             /\ s[i].value = i - 1
    BY <1>1, <1>2, StatementFields
  <1>4. \A i \in 1 .. n : /\ s[i].value \in Nat /\ s[i].checkpoint \in Checkpoints
                         /\ place[k][s[i].checkpoint] # Null
    BY <1>1, <1>3 DEF Content
  <1>5. \A i, j \in 1 .. n : s[i].value = s[j].value => i = j
    BY <1>3
  <1>6. \A c \in Checkpoints \ Named(s) : place[k][c] = Null
    <2>1. Named(s) = Content(k)
      BY <1>1, <1>3 DEF Named
    <2>2. QED
      BY <2>1 DEF Content
  <1>7. \A c \in Checkpoints \ Named(s), i \in 1 .. n : place[k][c] # s[i].value
    BY <1>4, <1>6, StacksAssumption
  <1>8. Scattered(place[k], s, k)
    BY <1>3, <1>4, <1>5, <1>6, <1>7 DEF Scattered
  <1>9. Moving(s)
    BY <1>8 DEF Moving, AllApart
  <1>10. QED
    BY <1>2, <1>9 DEF EditCallOK

\* A new stack with up to two checkpoints.
CreateOK ==
  PlaceType /\ AllApart =>
    \A k \in Stacks, c, d \in Checkpoints :
      /\ EditCallOK(InsertAt(k, c, 0))
      /\ EditCallOK(InsertAt(k, c, 0) \o InsertAt(k, d, 1))

LEMMA CreateForm == CreateOK
  <1> SUFFICES ASSUME PlaceType, AllApart, NEW k \in Stacks, NEW c \in Checkpoints, NEW d \in Checkpoints
               PROVE  /\ EditCallOK(InsertAt(k, c, 0))
                      /\ EditCallOK(InsertAt(k, c, 0) \o InsertAt(k, d, 1))
    BY DEF CreateOK
  <1>1. EditCallOK(InsertAt(k, c, 0))
    <2>1. 0 \in Nat
      OBVIOUS
    <2>2. QED
      BY <2>1, AddForm
  <1>2. PICK s : s = InsertAt(k, c, 0) \o InsertAt(k, d, 1)
    OBVIOUS
  <1>3. /\ s # <<>> /\ Head(s) = Statement("room", k, c, 0) /\ Tail(s) # <<>>
        /\ Head(Tail(s)) = Statement("insert", k, c, 0)
        /\ Tail(Tail(s)) = InsertAt(k, d, 1)
    BY <1>2, TupleParts DEF InsertAt
  <1>4. PICK t : t = InsertAt(k, d, 1)
    OBVIOUS
  <1>5. Adds(t, k, d, 1) /\ Tail(Tail(t)) = <<>>
    BY <1>4, OneAdded
  <1>6. Adds(s, k, c, 0)
    BY <1>3, StatementFields DEF Adds, Says
  <1>7. ThenAdds(t) /\ t = Tail(Tail(s)) /\ 0 \in Nat
    <2>1. 0 \in Nat /\ 1 \in Nat
      OBVIOUS
    <2>2. QED
      BY <2>1, <1>3, <1>4, <1>5 DEF ThenAdds
  <1>8. MakingRoom(s)
    BY <1>6, <1>7 DEF MakingRoom
  <1>9. QED
    BY <1>1, <1>2, <1>8 DEF EditCallOK

LEMMA EditsBegin ==
  ASSUME LandInv, QueueInv, PlaceInv, NEW p \in Procs, NEW k \in Stacks,
         \/ \E c \in exists : AddCheckpointToStack(p, k, c) \/ RemoveCheckpointFromStack(p, k, c)
         \/ ReorderStackCheckpoints(p, k)
  PROVE  PlaceInv'
  <1>1. /\ Free(p) /\ UNCHANGED <<setting, crashes>> /\ place' = place
    BY DEF AddCheckpointToStack, RemoveCheckpointFromStack, ReorderStackCheckpoints, Unchanged, rest
  <1>2. PlaceType /\ exists \subseteq Checkpoints
    BY DEF LandInv, LandType, PlaceType, RowType
  <1>3. Unbroken => AllApart
    BY <1>1, FreeApart
  <1>4. ASSUME NEW s, Begin(p, s), Unbroken => EditCallOK(s) PROVE PlaceInv'
    BY <1>1, <1>4, FormStays, PlaceBegins
  <1>5. ASSUME NEW c \in exists, AddCheckpointToStack(p, k, c) PROVE PlaceInv'
    <2>1. c \in Checkpoints
      BY <1>2
    <2>2. Unbroken => /\ EditCallOK(<<Statement("insert", k, c, EndOfStack(k))>>)
                      /\ \A n \in Nat : EditCallOK(InsertAt(k, c, n))
      BY <1>2, <1>3, <2>1, AddForm
    <2>3. CASE Begin(p, <<Statement("insert", k, c, EndOfStack(k))>>)
      BY <1>4, <2>2, <2>3
    <2>4. ASSUME NEW n \in 0 .. MaxPlace, Begin(p, InsertAt(k, c, n)) PROVE PlaceInv'
      <3>1. n \in Nat
        OBVIOUS
      <3>2. QED
        BY <1>4, <2>2, <2>4, <3>1
    <2>5. QED
      BY <1>5, <2>3, <2>4 DEF AddCheckpointToStack
  <1>6. ASSUME NEW c \in exists, RemoveCheckpointFromStack(p, k, c) PROVE PlaceInv'
    <2> DEFINE s == <<Statement("delete", k, c, Null), Statement("close", k, c, place[k][c])>>
    <2>1. c \in Content(k) /\ Begin(p, s)
      BY <1>6 DEF RemoveCheckpointFromStack
    <2>2. Unbroken => EditCallOK(s)
      BY <1>2, <1>3, <2>1, RemoveForm
    <2>3. PICK t : t = s
      OBVIOUS
    <2>4. Begin(p, t) /\ (Unbroken => EditCallOK(t))
      BY <2>1, <2>2, <2>3
    <2>5. QED
      BY <1>4, <2>4
  <1>7. ASSUME ReorderStackCheckpoints(p, k) PROVE PlaceInv'
    <2>1. PICK order \in Naming(Content(k)) :
            Begin(p, [i \in DOMAIN order |-> Statement("move", k, order[i], i - 1)])
      BY <1>7 DEF ReorderStackCheckpoints
    <2>2. Unbroken => EditCallOK([i \in DOMAIN order |-> Statement("move", k, order[i], i - 1)])
      BY <1>2, <1>3, <2>1, ReorderForm
    <2>3. QED
      BY <1>4, <2>1, <2>2
  <1>8. QED
    BY <1>5, <1>6, <1>7

LEMMA StackBegins ==
  ASSUME LandInv, LandInv', QueueInv, PlaceInv, NEW p \in Procs, NEW k \in Stacks,
         NEW m \in 0 .. 2, NEW order \in [1 .. m -> exists],
         CreateDiffStack(p, k, order)
  PROVE  PlaceInv'
  <1>1. /\ Free(p) /\ UNCHANGED <<setting, crashes>> /\ UNCHANGED <<place, exists>>
    BY DEF CreateDiffStack, rest
  <1>2. /\ order \in Seq(exists) /\ Len(order) = m /\ exists' \subseteq Checkpoints
        /\ exists \subseteq Checkpoints /\ PlaceType'
    <2>1. m \in Nat
      OBVIOUS
    <2>2. order \in Seq(exists) /\ Len(order) = m
      BY <2>1
    <2>3. exists \subseteq Checkpoints /\ PlaceType
      BY DEF LandInv, LandType, PlaceType, RowType
    <2>4. QED
      BY <1>1, <2>2, <2>3 DEF PlaceType
  <1>4. Unbroken => AllApart'
    <2>1. Unbroken => AllApart
      BY <1>1, FreeApart
    <2>2. QED
      BY <1>1, <2>1 DEF AllApart
  <1>5. CreateOK'
    BY CreateForm, PTL
  <1>6. ASSUME Unbroken, NEW c \in exists, NEW d \in exists
        PROVE  /\ EditCallOK(InsertAt(k, c, 0))'
               /\ EditCallOK(InsertAt(k, c, 0) \o InsertAt(k, d, 1))'
    BY <1>2, <1>4, <1>5, <1>6 DEF CreateOK
  <1>7. CASE m = 0
    <2>1. Begin(p, <<>>)
      BY <1>2, <1>7 DEF CreateDiffStack
    <2>2. Unbroken => EditCallOK(<<>>)'
      BY <1>4, Nothing DEF EditCallOK, NotEditing
    <2>3. QED
      BY <1>1, <2>1, <2>2, PlaceBegins
  <1>8. CASE m = 1
    <2>1. Begin(p, InsertAt(k, order[1], 0)) /\ order[1] \in exists
      BY <1>2, <1>8 DEF CreateDiffStack
    <2>2. PICK c \in exists : c = order[1]
      BY <2>1
    <2>3. Unbroken => EditCallOK(InsertAt(k, c, 0))'
      BY <1>6
    <2>4. Begin(p, InsertAt(k, c, 0))
      BY <2>1, <2>2
    <2>5. PICK s : s = InsertAt(k, c, 0)
      OBVIOUS
    <2>6. QED
      BY <1>1, <2>3, <2>4, <2>5, PlaceBegins
  <1>9. CASE m = 2
    <2>1. Len(order) # 0 /\ Len(order) # 1 /\ order[1] \in exists /\ order[2] \in exists
      BY <1>2, <1>9
    <2>2. Begin(p, InsertAt(k, order[1], 0) \o InsertAt(k, order[2], 1))
      BY <2>1 DEF CreateDiffStack
    <2>3. PICK c \in exists, d \in exists : c = order[1] /\ d = order[2]
      BY <2>1
    <2>4. PICK s : s = InsertAt(k, c, 0) \o InsertAt(k, d, 1)
      OBVIOUS
    <2>5. Unbroken => EditCallOK(InsertAt(k, c, 0) \o InsertAt(k, d, 1))'
      BY <1>6, <2>3
    <2>6. Begin(p, s)
      BY <2>2, <2>3, <2>4
    <2>7. QED
      BY <1>1, <2>4, <2>5, <2>6, PlaceBegins
  <1>10. QED
    BY <1>7, <1>8, <1>9

\* The other calls begin.
LEMMA OthersBegin ==
  ASSUME LandInv, QueueInv, PlaceInv, NEW p \in Procs, Free(p), Unchanged, NoEdit(p)',
         NEW s, Begin(p, s)
  PROVE  PlaceInv'
  <1>1. UNCHANGED <<setting, place, crashes>> /\ MayRun(p) /\ \A q \in Procs : q # p => call'[q] = call[q]
    BY DEF Unchanged, rest, Free, Begin, LandInv, LandType
  <1>2. Unbroken => AllApart
    BY FreeApart
  <1>3. QED
    BY <1>1, <1>2, PlaceStays

LEMMA CallPlaces ==
  ASSUME LandInv, LandInv', QueueInv, PlaceInv, NEW p \in setting.procs, Call(p)
  PROVE  PlaceInv'
  <1>1. /\ setting.stacks \subseteq Stacks /\ setting.procs \subseteq Procs
        /\ setting.positions \in Nat /\ setting.statuses \subseteq Statuses /\ p \in Procs
    BY DEF LandInv, LandType, Setting
  <1>2. ASSUME NEW k \in setting.stacks, NEW st \in setting.statuses, SetStackReviewStatus(p, k, st)
        PROVE  PlaceInv'
    <2>1. NoEdit(p)'
      BY <1>1, <1>2, ReviewBegins
    <2>2. Free(p) /\ Unchanged /\ \E s : Begin(p, s)
      BY <1>2 DEF SetStackReviewStatus
    <2>3. QED
      BY <1>1, <2>1, <2>2, OthersBegin
  <1>3. ASSUME NEW k \in Stacks,
               \/ \E n \in 0 .. setting.positions : SetStackQueuePosition(p, k, n)
               \/ LeaveQueue(p, k) \/ EnqueueStack(p, k) \/ DequeueStack(p, k)
               \/ ReorderQueue(p)
        PROVE  PlaceInv'
    <2>1. 0 .. setting.positions \subseteq Nat
      BY <1>1
    <2>2. NoEdit(p)'
      BY <1>1, <1>3, <2>1, QueueBegins
    <2>3. Free(p) /\ Unchanged /\ \E s : Begin(p, s)
      BY <1>3 DEF SetStackQueuePosition, LeaveQueue, EnqueueStack, DequeueStack, ReorderQueue
    <2>4. QED
      BY <1>1, <2>2, <2>3, OthersBegin
  <1>4. ASSUME NEW k \in setting.stacks, CherryPickStackToTarget(p, k) PROVE PlaceInv'
    <2>1. NoEdit(p)'
      BY <1>1, <1>4, PickBegins
    <2>2. Free(p) /\ Unchanged /\ \E s : Begin(p, s)
      BY <1>4 DEF CherryPickStackToTarget
    <2>3. QED
      BY <1>1, <2>1, <2>2, OthersBegin
  <1>5. ASSUME BuildCall(p) PROVE PlaceInv'
    <2>1. PICK k \in setting.stacks :
            \/ \E order \in UNION {[1 .. n -> exists] : n \in 0 .. 2} :
                 CreateDiffStack(p, k, order)
            \/ \E c \in exists : AddCheckpointToStack(p, k, c) \/ RemoveCheckpointFromStack(p, k, c)
            \/ ReorderStackCheckpoints(p, k)
      BY <1>5 DEF BuildCall
    <2>2. k \in Stacks
      BY <1>1
    <2>3. ASSUME NEW m \in 0 .. 2, NEW order \in [1 .. m -> exists],
                 CreateDiffStack(p, k, order)
          PROVE  PlaceInv'
      BY <1>1, <2>2, <2>3, StackBegins
    <2>4. QED
      BY <1>1, <2>1, <2>2, <2>3, EditsBegin
  <1>6. ReorderQueue(p) => \E k \in Stacks : TRUE
    BY DEF ReorderQueue, Queued
  <1>7. QED
    BY <1>1, <1>2, <1>3, <1>4, <1>5, <1>6 DEF Call

\* Stacks go with all their entries.
LEMMA SinglePlaces ==
  ASSUME LandInv, QueueInv, PlaceInv, Single
  PROVE  PlaceInv'
  <1>1. UNCHANGED <<setting, call, crashes>>
    BY DEF Single, DeleteDiffStack, DeleteStacksByStatus, Delete, CreateCheckpoint,
           DeleteCheckpoints, rest
  <1>2. \/ place' = place
        \/ \E ks : place' = [k \in Stacks |-> IF k \in ks THEN [c \in Checkpoints |-> Null] ELSE place[k]]
    BY DEF Single, DeleteDiffStack, DeleteStacksByStatus, Delete, CreateCheckpoint,
           DeleteCheckpoints
  <1>3. ASSUME Unbroken
        PROVE  AllApart' /\ \A p \in Procs : call'[p] = <<>>
    <2>1. Quiet /\ AllApart
      BY <1>3 DEF Single, PlaceInv, Unbroken
    <2>2. ASSUME NEW k \in Stacks PROVE ApartIn(place'[k])
      <3>1. CASE place'[k] = place[k]
        BY <2>1, <3>1 DEF AllApart
      <3>2. CASE place'[k] = [c \in Checkpoints |-> Null]
        BY <3>2 DEF ApartIn
      <3>3. QED
        BY <1>2, <3>1, <3>2
    <2>3. QED
      BY <1>1, <2>1, <2>2 DEF AllApart, Quiet
  <1>4. QED
    BY <1>1, <1>3 DEF PlaceInv, Unbroken

LEMMA PlacesKept ==
  ASSUME LandInv, LandInv', QueueInv, PlaceInv, [Next]_vars
  PROVE  PlaceInv'
  <1>1. setting.procs \subseteq Procs
    BY DEF LandInv, LandType, Setting
  <1>2. CASE UNCHANGED vars
    <2>1. UNCHANGED <<setting, crashes, call, place>>
      BY <1>2 DEF vars
    <2>2. AllApart => AllApart'
      BY <2>1 DEF AllApart
    <2>3. ASSUME NEW p \in Procs, EditCallOK(call[p]) PROVE EditCallOK(call[p])'
      <3>1. PICK s : s = call[p] /\ s = call'[p]
        BY <2>1
      <3>2. EditCallOK(s)'
        BY <2>1, <2>3, <3>1, FormStays
      <3>3. QED
        BY <3>1, <3>2
    <2>4. QED
      BY <2>1, <2>2, <2>3 DEF PlaceInv, Unbroken, Quiet
  <1>3. ASSUME NEW p \in setting.procs, Call(p) PROVE PlaceInv'
    BY <1>3, CallPlaces
  <1>4. ASSUME NEW p \in setting.procs, Step(p) PROVE PlaceInv'
    BY <1>1, <1>4, PlacesUntouched, EntriesWritten DEF Step
  <1>5. ASSUME NEW p \in setting.procs, Crash(p) PROVE PlaceInv'
    <2>1. crashes \in Nat /\ crashes' = crashes + 1
      BY <1>5 DEF Crash, QueueInv
    <2>2. crashes' # 0
      BY <2>1
    <2>3. QED
      BY <2>2 DEF PlaceInv, Unbroken
  <1>6. CASE Single
    BY <1>6, SinglePlaces
  <1>7. QED
    BY <1>2, <1>3, <1>4, <1>5, <1>6 DEF Next

LEMMA InitPlaces == Init => PlaceInv
  <1> SUFFICES ASSUME Init, Unbroken PROVE AllApart /\ \A p \in Procs : call[p] = <<>>
    BY DEF PlaceInv
  <1>1. \A k \in Stacks, c \in Checkpoints : place[k][c] = Null
    BY DEF Init, Unbroken
  <1>2. QED
    BY <1>1 DEF Init, AllApart, ApartIn

LEMMA TypesAre == LandInv => TypeOK
  <1> SUFFICES ASSUME LandInv PROVE TypeOK
    OBVIOUS
  <1>1. \A p \in Procs : \A i \in DOMAIN call[p] :
          call[p][i].stack \in Stacks \cup {None} /\ call[p][i].checkpoint \in Checkpoints \cup {None}
    BY DEF LandInv, CallOK, StatementOK
  <1>2. \A k \in Stacks \ Rows : queue[k] = Null /\ Content(k) = {}
    BY DEF LandInv, NoTraces, Rows, Content
  <1>3. QED
    BY <1>1, <1>2 DEF TypeOK, LandInv, LandType

LEMMA ApartPlaces == PlaceInv => PlacesDistinct
  BY DEF PlaceInv, PlacesDistinct, AllApart, ApartIn, Content

\* Between two calls no two checkpoints of a stack have the same place and no two stacks
\* the same queue position, for any number of stacks, checkpoints and processes: whatever
\* was created, added anywhere in a stack or again, removed, reordered by any list that
\* names all there is, and deleted, one call at a time, until a call is cut short.
THEOREM StacksAreOrdered == Spec => []OrderInv
  <1>1. LandInv /\ QueueInv /\ PlaceInv => OrderInv
    <2>1. QueueInv => QueueDistinct
      BY DEF QueueInv, QueueDistinct, Distinct
    <2>2. QED
      BY <2>1, TypesAre, ApartPlaces DEF OrderInv
  <1>2. LandInv /\ LandInv' /\ QueueInv /\ [Next]_vars => QueueInv'
    BY QueueKept
  <1>3. LandInv /\ LandInv' /\ QueueInv /\ PlaceInv /\ [Next]_vars => PlaceInv'
    BY PlacesKept
  <1>4. QED
    BY <1>1, <1>2, <1>3, InitLand, LandStep, InitQueue, InitPlaces, PTL DEF Spec
=============================================================================
