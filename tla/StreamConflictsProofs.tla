------------------------ MODULE StreamConflictsProofs ------------------------
(***************************************************************************)
(* Theorems about rebases and their conflicts, for every set of streams,   *)
(* agents and conflict ids, any number of heads of the target and of       *)
(* crashes.                                                                *)
(***************************************************************************)
EXTENDS StreamConflicts, TLAPS

(* Sequences of statements *)

LEMMA Literals ==
  /\ \A a : <<a>> # <<>> /\ Head(<<a>>) = a /\ Tail(<<a>>) = <<>>
  /\ \A a, b : <<a, b>> # <<>> /\ Head(<<a, b>>) = a /\ Tail(<<a, b>>) = <<b>>
  /\ \A a, b, c : /\ <<a, b, c>> # <<>> /\ Head(<<a, b, c>>) = a /\ Tail(<<a, b, c>>) = <<b, c>>
  /\ \A a, b, c, d : /\ <<a, b, c, d>> # <<>> /\ Head(<<a, b, c, d>>) = a
                     /\ Tail(<<a, b, c, d>>) = <<b, c, d>>
  OBVIOUS

\* What a call may still have to do: what is left of what it began with.
LastOnes ==
  {"update_base", "reset", "set_conflicted", "abort", "await", "clear", "abandon", "recover_clear"}
OneLeft == {<<x>> : x \in LastOnes}
TwoLeft ==
  {<<"update_base", "reset">>, <<"create_late", "set_conflicted">>, <<"set_conflicted", "abort">>,
   <<"start", "await">>, <<"abandon", "clear">>, <<"abort", "abandon">>,
   <<"clear", "update_base">>, <<"delete", "clear">>, <<"abandon", "recover_clear">>}
ThreeLeft ==
  {<<"create", "set_conflicted", "abort">>, <<"set_conflicted", "start", "await">>,
   <<"abort", "abandon", "clear">>, <<"resolve", "clear", "update_base">>,
   <<"abort_seen", "abandon", "clear">>, <<"abort_seen", "delete", "clear">>}
FourLeft == {<<"create", "set_conflicted", "start", "await">>}

Todos == OneLeft \cup TwoLeft \cup ThreeLeft \cup FourLeft

LEMMA TodoFacts ==
  ASSUME NEW t \in Todos
  PROVE  /\ t # <<>> /\ Tail(t) \in Todos \cup {<<>>}
         /\ Len(t) <= 4 /\ \A i \in 1 .. Len(t) : t[i] \in Statements
  <1>1. CASE t \in OneLeft
    <2>1. PICK x \in Statements : t = <<x>>
      BY <1>1 DEF OneLeft, LastOnes, Statements
    <2>2. QED
      BY <2>1
  <1>2. CASE t \in TwoLeft
    <2>1. PICK x \in Statements, y \in LastOnes : t = <<x, y>>
      BY <1>2 DEF TwoLeft, LastOnes, Statements
    <2>2. y \in Statements /\ <<y>> \in Todos
      BY DEF LastOnes, OneLeft, Statements, Todos
    <2>3. QED
      BY <2>1, <2>2
  <1>3. CASE t \in ThreeLeft
    <2>1. PICK x \in Statements, y \in Statements, z \in Statements :
            t = <<x, y, z>> /\ <<y, z>> \in TwoLeft
      BY <1>3 DEF ThreeLeft, TwoLeft, Statements
    <2>2. QED
      BY <2>1 DEF Todos
  <1>4. CASE t \in FourLeft
    <2>1. t = <<"create", "set_conflicted", "start", "await">>
      BY <1>4 DEF FourLeft
    <2>2. Len(t) = 4 /\ t # <<>> /\ Tail(t) = <<"set_conflicted", "start", "await">>
      BY <2>1
    <2>3. <<"set_conflicted", "start", "await">> \in Todos
      BY DEF Todos, ThreeLeft
    <2>4. \A i \in 1 .. 4 : t[i] \in Statements
      <3>1. \A i \in 1 .. 4 : i \in {1, 2, 3, 4}
        OBVIOUS
      <3>2. t[1] = "create" /\ t[2] = "set_conflicted" /\ t[3] = "start" /\ t[4] = "await"
        BY <2>1
      <3>3. QED
        BY <3>1, <3>2 DEF Statements
    <2>5. Len(t) <= 4 /\ \A i \in 1 .. Len(t) : t[i] \in Statements
      BY <2>2, <2>4
    <2>6. Tail(t) \in Todos
      BY <2>2, <2>3
    <2>7. QED
      BY <2>2, <2>5, <2>6
  <1>5. QED
    BY <1>1, <1>2, <1>3, <1>4 DEF Todos

-----------------------------------------------------------------------------
(* Types *)

CallRecord == [todo : Todos \cup {<<>>}, stream : Streams \cup {None},
               conflict : Conflicts \cup {None}, target : Versions]

ConflictStatus == {"none", "pending", "in_progress", "resolved", "abandoned", "deleted"}

TypeInv ==
  /\ setting \in Setting
  /\ head \in Versions
  /\ base \in [Streams -> Versions] /\ real \in [Streams -> Versions]
  /\ status \in [Streams -> {"active", "paused", "conflicted", "abandoned"}]
  /\ cid \in [Streams -> Conflicts \cup {None}]
  /\ rec \in [Conflicts -> [status : ConflictStatus, stream : Streams \cup {None},
                            target : Versions]]
  /\ \A c \in Conflicts : /\ rec[c].status = "none" => rec[c] = Unused
                          /\ rec[c].status # "none" => rec[c].stream \in Streams
  /\ wt \in [Procs -> [stream : Streams \cup {None}, onto : Versions, files : BOOLEAN]]
  /\ call \in [Procs -> CallRecord]
  /\ \A p \in Procs : ~ Idle(p) => call[p].stream \in Streams
  /\ crashes \in 0 .. setting.crashes /\ reused \in BOOLEAN

LEMMA TypesOK == TypeInv => TypeOK
  <1> SUFFICES ASSUME TypeInv PROVE TypeOK
    OBVIOUS
  <1>1. ASSUME NEW p \in Procs
        PROVE  /\ Len(call[p].todo) <= 4
               /\ \A i \in 1 .. Len(call[p].todo) : call[p].todo[i] \in Statements
               /\ call[p].todo # <<>> => call[p].stream \in Streams
    <2>1. PICK t : t = call[p].todo
      OBVIOUS
    <2>2. t \in Todos \cup {<<>>} /\ (t # <<>> => call[p].stream \in Streams)
      BY <2>1 DEF TypeInv, CallRecord, Idle
    <2>3. CASE t \in Todos
      BY <2>1, <2>2, <2>3, TodoFacts
    <2>4. CASE t = <<>>
      BY <2>1, <2>4
    <2>5. QED
      BY <2>2, <2>3, <2>4
  <1>2. QED
    BY <1>1 DEF TypeInv, TypeOK, ConflictStatus

LEMMA InitTypes == Init => TypeInv
  <1> SUFFICES ASSUME Init PROVE TypeInv
    OBVIOUS
  <1>1. setting \in Setting /\ setting.versions \in Nat \ {0} /\ setting.crashes \in Nat
    BY ConflictsAssumption DEF Init, Setting
  <1>2. 0 \in Versions /\ head \in Versions
    BY <1>1 DEF Versions, Init
  <1>3. NoCall \in CallRecord /\ NoCall.todo = <<>>
    BY <1>2 DEF NoCall, CallRecord
  <1>4. call \in [Procs -> CallRecord] /\ \A p \in Procs : Idle(p)
    BY <1>3 DEF Init, Idle
  <1>5. /\ rec \in [Conflicts -> [status : ConflictStatus, stream : Streams \cup {None},
                                  target : Versions]]
        /\ \A c \in Conflicts : rec[c] = Unused /\ rec[c].status = "none"
    BY <1>2 DEF Init, Unused, ConflictStatus
  <1>6. wt \in [Procs -> [stream : Streams \cup {None}, onto : Versions, files : BOOLEAN]]
    BY <1>2 DEF Init, NoRebase
  <1>7. /\ base \in [Streams -> Versions] /\ real \in [Streams -> Versions]
        /\ status \in [Streams -> {"active", "paused", "conflicted", "abandoned"}]
        /\ cid \in [Streams -> Conflicts \cup {None}] /\ crashes \in 0 .. setting.crashes
    BY <1>1, <1>2 DEF Init
  <1>9. reused \in BOOLEAN
    BY DEF Init
  <1>8. QED
    BY <1>1, <1>2, <1>4, <1>5, <1>6, <1>7, <1>9 DEF TypeInv

\* The three ways a call changes.
LEMMA BeginTypes ==
  ASSUME TypeInv, NEW p \in Procs, NEW s \in Streams, NEW c \in Conflicts \cup {None},
         NEW v \in Versions, NEW t \in Todos, Begin(p, s, c, v, t)
  PROVE  /\ call' \in [Procs -> CallRecord]
         /\ call'[p] = [todo |-> t, stream |-> s, conflict |-> c, target |-> v]
         /\ \A q \in Procs : q # p => call'[q] = call[q]
  <1>1. t # <<>>
    BY TodoFacts
  <1>2. [todo |-> t, stream |-> s, conflict |-> c, target |-> v] \in CallRecord
    BY DEF CallRecord
  <1>3. QED
    BY <1>1, <1>2 DEF Begin, TypeInv

LEMMA NoCallType == TypeInv => NoCall \in CallRecord
  BY DEF NoCall, CallRecord, TypeInv, Versions, Setting

LEMMA ProceedTypes ==
  ASSUME TypeInv, NEW p \in Procs, NEW t \in Todos \cup {<<>>}, Proceed(p, t)
  PROVE  /\ call' \in [Procs -> CallRecord]
         /\ t = <<>> => call'[p] = NoCall
         /\ t # <<>> => /\ call'[p].todo = t /\ call'[p].stream = call[p].stream
                        /\ call'[p].conflict = call[p].conflict
                        /\ call'[p].target = call[p].target
         /\ \A q \in Procs : q # p => call'[q] = call[q]
  <1>1. PICK r \in CallRecord : r = call[p]
    BY DEF TypeInv
  <1>2. PICK n : n = [r EXCEPT !.todo = t]
    OBVIOUS
  <1>3. /\ n \in CallRecord /\ n.todo = t /\ n.stream = r.stream /\ n.conflict = r.conflict
        /\ n.target = r.target
    BY <1>2 DEF CallRecord
  <1>4. call' = [call EXCEPT ![p] = IF t = <<>> THEN NoCall ELSE n]
    BY <1>1, <1>2 DEF Proceed
  <1>5. QED
    BY <1>1, <1>3, <1>4, NoCallType DEF TypeInv

LEMMA DoneTypes ==
  ASSUME TypeInv, NEW p \in Procs, ~ Idle(p), Done(p), NEW t, t = Tail(call[p].todo)
  PROVE  /\ t \in Todos \cup {<<>>}
         /\ call' \in [Procs -> CallRecord]
         /\ t = <<>> => call'[p] = NoCall
         /\ t # <<>> => /\ call'[p].todo = t /\ call'[p].stream = call[p].stream
                        /\ call'[p].conflict = call[p].conflict
                        /\ call'[p].target = call[p].target
         /\ \A q \in Procs : q # p => call'[q] = call[q]
  <1>1. t \in Todos \cup {<<>>}
    BY TodoFacts DEF TypeInv, CallRecord, Idle
  <1>2. QED
    BY <1>1, ProceedTypes DEF Done

-----------------------------------------------------------------------------
(* The inductive invariant.  What only holds while no call was cut short is *)
(* said of a clean history.                                                 *)

Clean == crashes = 0 /\ ~ reused

\* in synchronous code: at most one call is
Active(p) == ~ Idle(p) /\ ~ Awaiting(p)
OneActive == \A p, q \in Procs : Active(p) /\ Active(q) => p = q

Live(c) == rec[c].status \notin {"none", "deleted", "resolved"}
Known(c) == rec[c].status \notin {"none", "deleted"}
Over(c) == rec[c].status \notin {"pending", "in_progress"}

Unawaited(s) == \A q \in Procs : Awaiting(q) => call[q].stream # s

StreamOK(s) ==
  /\ cid[s] # None => rec[cid[s]].stream = s
  /\ status[s] = "conflicted" => cid[s] # None

\* A stream no call is at work on: base and branch agree, its conflict has a record, and a
\* rebase left in the repository is the one of that conflict.
Based(s) == base[s] = real[s]
Named(s) == status[s] = "conflicted" => Live(cid[s])
MainElsewhere(s) == wt[Main].stream # s
MainKnows(s) ==
  wt[Main].stream = s => status[s] = "conflicted" /\ rec[cid[s]].target = wt[Main].onto

Calm(s) == Based(s) /\ Named(s) /\ MainKnows(s)

\* The rebase in p's worktree is the one of its call, and so is that in the repository.
Holds(p) == Rebasing(p) => wt[p].stream = call[p].stream /\ wt[p].onto = call[p].target
MainIs(p) == wt[Main].stream = call[p].stream => p = Main

\* p's conflict is one of its stream; the one it is about to resolve, or has recorded.
Owned(p) == call[p].conflict # None => rec[call[p].conflict].stream = call[p].stream
Theirs(p) == status[call[p].stream] = "conflicted" => cid[call[p].stream] = call[p].conflict
Recorded(p) ==
  /\ call[p].conflict # None
  /\ rec[call[p].conflict].stream = call[p].stream
  /\ rec[call[p].conflict].target = call[p].target
  /\ Live(call[p].conflict)

AwaitOK(p) == Awaiting(p) =>
  /\ call[p].todo = <<"await">>
  /\ status[call[p].stream] = "conflicted" /\ cid[call[p].stream] = call[p].conflict
  /\ Recorded(p)
  /\ Clean => MainIs(p) /\ Holds(p)
  /\ \A q \in Procs : Awaiting(q) /\ call[q].stream = call[p].stream => p = q

\* A rebase that succeeded.
Moving(p) == LET s == call[p].stream IN
  /\ Unawaited(s)
  /\ Clean => Named(s) /\ MainKnows(s)
  /\ \/ call[p].todo = <<"update_base", "reset">> /\ (Clean => ~ Rebasing(p))
     \/ call[p].todo = <<"update_base">> /\ (Clean => real[s] = call[p].target)
     \/ call[p].todo = <<"reset">> /\ (Clean => base[s] = call[p].target /\ ~ Rebasing(p))

\* A rebase that failed.
Unrecorded(p) ==
  /\ call[p].todo \in {<<"create_late", "set_conflicted">>,
                       <<"create", "set_conflicted", "abort">>,
                       <<"create", "set_conflicted", "start", "await">>}
  /\ status[call[p].stream] # "conflicted"
  /\ call[p].target = head
Unmarked(p) ==
  /\ call[p].todo \in {<<"set_conflicted">>, <<"set_conflicted", "abort">>,
                       <<"set_conflicted", "start", "await">>}
  /\ status[call[p].stream] # "conflicted"
  /\ Recorded(p) /\ rec[call[p].conflict].status = "pending"
Aborting(p) ==
  /\ call[p].todo = <<"abort">>
  /\ Clean => Named(call[p].stream)
  /\ call[p].conflict # None => rec[call[p].conflict].status # "in_progress"
Starting(p) ==
  /\ call[p].todo = <<"start", "await">>
  /\ status[call[p].stream] = "conflicted" /\ cid[call[p].stream] = call[p].conflict
  /\ Recorded(p)

Failing(p) ==
  /\ Unawaited(call[p].stream)
  /\ Clean => Based(call[p].stream) /\ MainIs(p) /\ Holds(p)
  /\ Unrecorded(p) \/ Unmarked(p) \/ Aborting(p) \/ Starting(p)

\* The end of a conflict: its rebase is aborted or finished, its record closed, and then
\* the stream is active again.
Leaving(p) ==
  /\ call[p].todo \in {<<"abort", "abandon", "clear">>, <<"abort", "abandon">>,
                       <<"abort_seen", "abandon", "clear">>, <<"abort_seen", "delete", "clear">>}
  /\ Clean => Based(call[p].stream) /\ Named(call[p].stream) /\ MainIs(p)
Left(p) ==
  /\ call[p].todo \in {<<"abandon", "clear">>, <<"abandon">>, <<"delete", "clear">>}
  /\ Clean => Based(call[p].stream) /\ Named(call[p].stream) /\ MainElsewhere(call[p].stream)
Closed(p) ==
  /\ call[p].todo = <<"clear">>
  /\ Clean => Based(call[p].stream) /\ MainElsewhere(call[p].stream)
  /\ status[call[p].stream] = "conflicted" => Over(call[p].conflict)
Finished(p) ==
  /\ \/ call[p].todo = <<"resolve", "clear", "update_base">>
     \/ /\ call[p].todo = <<"clear", "update_base">>
        /\ status[call[p].stream] = "conflicted" => Over(call[p].conflict)
  /\ Clean => real[call[p].stream] = call[p].target /\ MainElsewhere(call[p].stream)

Ending(p) ==
  /\ Unawaited(call[p].stream) /\ Theirs(p) /\ Owned(p)
  /\ Leaving(p) \/ Left(p) \/ Closed(p) \/ Finished(p)

\* A conflict nobody attends is found only after a crash.
Recovering(p) ==
  /\ ~ Clean
  /\ call[p].conflict # None
  /\ \/ call[p].todo = <<"abandon", "recover_clear">>
     \/ call[p].todo = <<"recover_clear">> /\ Over(call[p].conflict)
  /\ \A q \in Procs : Awaiting(q) => call[q].conflict # call[p].conflict

ActiveOK(p) == Active(p) => Moving(p) \/ Failing(p) \/ Ending(p) \/ Recovering(p)

\* Somebody is about to close a conflict in progress.
Attends(p, c) ==
  /\ ~ Idle(p) /\ call[p].conflict = c /\ call[p].todo # <<"abort">>
  /\ Head(call[p].todo) \in {"await", "abort", "abort_seen", "abandon", "delete", "resolve"}
Attended(c) == rec[c].status = "in_progress" => \E p \in Procs : Attends(p, c)

ConfInv ==
  /\ TypeInv /\ OneActive
  /\ \A s \in Streams : StreamOK(s)
  /\ \A p \in Procs : AwaitOK(p) /\ ActiveOK(p)
  /\ Clean => /\ \A c \in Conflicts : Attended(c)
              /\ \A s \in Streams : Calm(s) \/ \E p \in Procs : Active(p) /\ call[p].stream = s

-----------------------------------------------------------------------------
(* A step of p that is about s and its conflict c, on which no other handler works *)

LocalStep(p, s, c) ==
  /\ ThreadFree(p)
  /\ UNCHANGED <<setting, head, crashes>> /\ (reused => reused')
  /\ \A q \in Procs : q # p => call'[q] = call[q] /\ wt'[q] = wt[q]
  /\ \A t \in Streams : t # s => /\ base'[t] = base[t]
                                 /\ Clean => real'[t] = real[t]
                                 /\ status'[t] = status[t] /\ cid'[t] = cid[t]
  /\ \A d \in Conflicts : d # c => rec'[d] = rec[d]
  /\ c # None => rec[c] = Unused \/ rec[c].stream = s
  /\ Clean' => wt'[p].stream = None \/ wt'[p] = wt[p] \/ wt'[p].stream = s
  /\ ~ Idle(p) => call[p].stream = s
  /\ ~ Idle(p)' => call'[p].stream = s
  /\ \A q \in Procs : q # p /\ Awaiting(q) => call[q].stream # s
  /\ \A d \in Conflicts : Attends(p, d) => d = c

LEMMA Others ==
  ASSUME ConfInv, NEW p \in Procs, NEW s \in Streams, NEW c \in Conflicts \cup {None},
         LocalStep(p, s, c)
  PROVE  /\ OneActive'
         /\ \A q \in Procs : q # p => AwaitOK(q)' /\ ActiveOK(q)'
         /\ \A t \in Streams : t # s => StreamOK(t)' /\ (Clean /\ Clean' => Calm(t)')
         /\ Clean => \A d \in Conflicts : d # c => Attended(d)'
  <1>1. \A q \in Procs : q # p => /\ Awaiting(q)' <=> Awaiting(q)
                                  /\ ~ Active(q) /\ ~ Active(q)'
    BY DEF LocalStep, ThreadFree, Idle, Awaiting, Active
  <1>2. OneActive'
    BY <1>1 DEF OneActive
  <1>3. \A q \in Procs : q # p => ActiveOK(q)'
    BY <1>1 DEF ActiveOK
  <1>4. ASSUME NEW q \in Procs, q # p, Awaiting(q) PROVE AwaitOK(q)'
    <2>1. PICK t \in Streams : t = call[q].stream
      BY <1>4 DEF ConfInv, TypeInv, Awaiting
    <2>2. PICK d \in Conflicts : d = call[q].conflict
      BY <1>4 DEF ConfInv, TypeInv, AwaitOK, Recorded, CallRecord
    <2>3. t # s /\ d # c
      <3>1. t # s
        BY <1>4, <2>1 DEF LocalStep
      <3>2. rec[d].stream = t /\ rec[d].status # "none"
        BY <1>4, <2>1, <2>2 DEF ConfInv, AwaitOK, Recorded, Live
      <3>3. rec[d] # Unused
        BY <3>2 DEF Unused
      <3>4. QED
        BY <2>2, <3>1, <3>2, <3>3, ConflictsAssumption DEF LocalStep
    <2>4. /\ call'[q] = call[q] /\ wt'[q] = wt[q] /\ rec'[d] = rec[d]
          /\ status'[t] = status[t] /\ cid'[t] = cid[t]
      BY <1>4, <2>3 DEF LocalStep
    <2>5. Clean' => MainIs(q)' /\ Holds(q)'
      <3>1. Clean' /\ wt'[Main].stream = t => wt[Main].stream = t
        BY <2>1, <2>3, ConflictsAssumption DEF LocalStep
      <3>2. Clean' => MainIs(q) /\ Holds(q)
        BY <1>4 DEF ConfInv, AwaitOK, LocalStep, Clean, TypeInv
      <3>3. QED
        BY <3>1, <3>2, <2>1, <2>4 DEF MainIs, Holds, Rebasing
    <2>6. \A r \in Procs : Awaiting(r)' /\ call'[r].stream = t => q = r
      <3>1. Awaiting(p)' => call'[p].stream = s
        BY DEF LocalStep, Awaiting, Idle
      <3>2. \A r \in Procs : r # p => (Awaiting(r)' <=> Awaiting(r)) /\ call'[r] = call[r]
        BY <1>1 DEF LocalStep
      <3>3. \A r \in Procs : Awaiting(r) /\ call[r].stream = t => q = r
        BY <1>4, <2>1 DEF ConfInv, AwaitOK
      <3>4. QED
        BY <3>1, <3>2, <3>3, <2>3
    <2>7. /\ call[q].todo = <<"await">> /\ status[t] = "conflicted" /\ cid[t] = d
          /\ Recorded(q)
      BY <1>4, <2>1, <2>2 DEF ConfInv, AwaitOK
    <2>8. Recorded(q)'
      BY <2>1, <2>2, <2>4, <2>7 DEF Recorded, Live
    <2>9. QED
      BY <2>1, <2>2, <2>4, <2>5, <2>6, <2>7, <2>8 DEF AwaitOK
  <1>5. \A q \in Procs : q # p => AwaitOK(q)'
    BY <1>1, <1>4 DEF AwaitOK
  <1>6. ASSUME NEW t \in Streams, t # s PROVE StreamOK(t)' /\ (Clean /\ Clean' => Calm(t)')
    <2>1. /\ base'[t] = base[t] /\ (Clean => real'[t] = real[t]) /\ status'[t] = status[t] /\ cid'[t] = cid[t]
      BY <1>6 DEF LocalStep
    <2>2. StreamOK(t) /\ cid[t] \in Conflicts \cup {None} /\ None \notin Streams
      BY ConflictsAssumption DEF ConfInv, TypeInv
    <2>3. cid[t] # None => rec'[cid[t]] = rec[cid[t]]
      <3>1. c # None => rec[c].stream # t
        BY <1>6, <2>2 DEF LocalStep, Unused
      <3>2. QED
        BY <2>2, <3>1 DEF StreamOK, LocalStep
    <2>4. StreamOK(t)'
      BY <2>1, <2>2, <2>3 DEF StreamOK
    <2>5. ASSUME Clean, Clean' PROVE Calm(t)'
      <3>1. Calm(t)
        <4>1. Active(p) => call[p].stream # t
          BY <1>6 DEF Active, LocalStep
        <4>2. QED
          BY <4>1, <1>1, <2>5 DEF ConfInv
      <3>2. wt'[Main].stream = t => wt'[Main] = wt[Main]
        BY <1>6, <2>2, <2>5, ConflictsAssumption DEF LocalStep
      <3>3. QED
        BY <2>1, <2>2, <2>3, <2>5, <3>1, <3>2 DEF Calm, Based, Named, MainKnows, Live, StreamOK
    <2>6. QED
      BY <2>4, <2>5
  <1>7. ASSUME Clean, NEW d \in Conflicts, d # c PROVE Attended(d)'
    <2>1. \A q \in Procs : Attends(q, d) => q # p
      BY <1>7 DEF LocalStep
    <2>2. \A q \in Procs : q # p /\ Attends(q, d) => Attends(q, d)'
      BY DEF Attends, Idle, LocalStep
    <2>3. rec'[d] = rec[d] /\ Attended(d)
      BY <1>7 DEF LocalStep, ConfInv
    <2>4. QED
      BY <2>1, <2>2, <2>3 DEF Attended
  <1>8. QED
    BY <1>2, <1>3, <1>5, <1>6, <1>7

LEMMA LocalKeeps ==
  ASSUME ConfInv, NEW p \in Procs, NEW s \in Streams, NEW c \in Conflicts \cup {None},
         LocalStep(p, s, c), TypeInv',
         StreamOK(s)', AwaitOK(p)', ActiveOK(p)',
         Clean /\ Clean' => /\ c # None => Attended(c)'
                            /\ Calm(s)' \/ Active(p)'
  PROVE  ConfInv'
  <1>1. Clean' => Clean
    BY DEF LocalStep, Clean
  <1>2. \A t \in Streams : StreamOK(t)'
    BY Others
  <1>3. \A q \in Procs : AwaitOK(q)' /\ ActiveOK(q)' /\ OneActive'
    BY Others
  <1>4. Clean' => \A d \in Conflicts : Attended(d)'
    BY <1>1, Others, ConflictsAssumption
  <1>5. Active(p)' => call'[p].stream = s
    BY DEF Active, LocalStep
  <1>6. Clean' => \A t \in Streams : Calm(t)' \/ (Active(p)' /\ call'[p].stream = t)
    BY <1>1, <1>5, Others
  <1>7. QED
    BY <1>1, <1>2, <1>3, <1>4, <1>6 DEF ConfInv
-----------------------------------------------------------------------------
(* The statements *)

LEMMA Doing ==
  ASSUME ConfInv, NEW p \in Procs, NEW x, x # "await", Does(p, x)
  PROVE  /\ ThreadFree(p) /\ ~ Idle(p) /\ Active(p) /\ Head(call[p].todo) = x
         /\ call[p].todo \in Todos /\ call[p].stream \in Streams
         /\ call[p].conflict \in Conflicts \cup {None} /\ call[p].target \in Versions
         /\ Moving(p) \/ Failing(p) \/ Ending(p) \/ Recovering(p)
  BY DEF ConfInv, TypeInv, CallRecord, Does, Idle, Active, Awaiting, ActiveOK

\* What is left to do of a call, and the call itself.
LEMMA DoneStep ==
  ASSUME TypeInv, NEW p \in Procs, ~ Idle(p), Done(p), NEW t, Tail(call[p].todo) = t
  PROVE  /\ t = <<>> => Idle(p)' /\ ~ Active(p)' /\ ~ Awaiting(p)'
         /\ t # <<>> => /\ ~ Idle(p)' /\ call'[p].todo = t /\ call'[p].stream = call[p].stream
                        /\ call'[p].conflict = call[p].conflict
                        /\ call'[p].target = call[p].target
         /\ ~ Idle(p)' => call'[p].stream = call[p].stream
         /\ call' \in [Procs -> CallRecord]
         /\ \A q \in Procs : q # p => call'[q] = call[q]
  BY DoneTypes DEF NoCall, Idle, Active, Awaiting

\* The other calls keep a stream.
LEMMA CallTypes ==
  ASSUME TypeInv, NEW p \in Procs, ~ Idle(p)' => call'[p].stream \in Streams,
         \A q \in Procs : q # p => call'[q] = call[q]
  PROVE  \A q \in Procs : ~ Idle(q)' => call'[q].stream \in Streams
  BY DEF TypeInv, Idle

LEMMA UpdateBaseCommitKeeps ==
  ASSUME ConfInv, NEW p \in Procs, UpdateBaseCommit(p)
  PROVE  ConfInv'
  <1> USE Literals
  <1>1. Does(p, "update_base") /\ Done(p)
    BY DEF UpdateBaseCommit
  <1>2. PICK s \in Streams : s = call[p].stream
    BY <1>1, Doing
  <1>3. PICK v \in Versions : v = call[p].target
    BY <1>1, Doing
  <1>4. base' = [base EXCEPT ![s] = v]
    BY <1>2, <1>3 DEF UpdateBaseCommit
  <1>5. /\ ThreadFree(p) /\ ~ Idle(p) /\ Head(call[p].todo) = "update_base" /\ TypeInv
        /\ Moving(p) \/ Failing(p) \/ Ending(p) \/ Recovering(p)
    BY <1>1, Doing DEF ConfInv
  <1>6. Moving(p) /\ call[p].todo \in {<<"update_base", "reset">>, <<"update_base">>}
    BY <1>5 DEF Moving, Failing, Unrecorded, Unmarked, Aborting, Starting,
                Ending, Leaving, Left, Closed, Finished, Recovering
  <1>7. PICK t : Tail(call[p].todo) = t
    OBVIOUS
  <1>8. \/ call[p].todo = <<"update_base", "reset">> /\ t = <<"reset">>
        \/ call[p].todo = <<"update_base">> /\ t = <<>>
    <2>1. PICK d : d = call[p].todo
      OBVIOUS
    <2>2. d = <<"update_base", "reset">> => t = <<"reset">>
      BY <1>7, <2>1
    <2>3. d = <<"update_base">> => t = <<>>
      BY <1>7, <2>1
    <2>4. QED
      BY <1>6, <2>1, <2>2, <2>3
  <1>9. /\ t = <<>> => Idle(p)' /\ ~ Active(p)' /\ ~ Awaiting(p)'
        /\ t # <<>> => /\ ~ Idle(p)' /\ call'[p].todo = t /\ call'[p].stream = s
                       /\ call'[p].target = v
        /\ ~ Idle(p)' => call'[p].stream = s
        /\ call' \in [Procs -> CallRecord]
        /\ \A q \in Procs : q # p => call'[q] = call[q]
    BY <1>1, <1>2, <1>3, <1>5, <1>7, DoneStep
  <1>10. UNCHANGED <<setting, status, cid, rec, head, real, wt, crashes, reused>>
    BY DEF UpdateBaseCommit, gitVars
  <1>11. TypeInv'
    <2>1. base' \in [Streams -> Versions]
      BY <1>4, <1>5 DEF TypeInv
    <2>2. \A q \in Procs : ~ Idle(q)' => call'[q].stream \in Streams
      BY <1>2, <1>5, <1>9, CallTypes
    <2>3. QED
      BY <1>5, <1>9, <1>10, <2>1, <2>2 DEF TypeInv, Versions, CallRecord
  <1>12. LocalStep(p, s, None)
    <2>1. \A d \in Conflicts : ~ Attends(p, d)
      BY <1>5 DEF Attends
    <2>2. Unawaited(s)
      BY <1>2, <1>6 DEF Moving
    <2>3. QED
      BY <1>2, <1>4, <1>5, <1>9, <1>10, <2>1, <2>2 DEF LocalStep, TypeInv, Unawaited
  <1>13. StreamOK(s)'
    BY <1>10 DEF StreamOK, ConfInv
  <1>14. Clean => base'[s] = v
    BY <1>4, <1>5 DEF TypeInv
  <1>15. CASE t = <<>>
    <2>1. call[p].todo = <<"update_base">>
      BY <1>8, <1>15
    <2>2. Clean => Calm(s)'
      <3>1. Clean => real[s] = v
        <4>1. Tail(<<"update_base">>) # Tail(<<"update_base", "reset">>)
          OBVIOUS
        <4>2. call[p].todo \notin {<<"update_base", "reset">>, <<"reset">>}
          BY <2>1, <4>1
        <4>3. QED
          BY <1>2, <1>3, <1>6, <4>2 DEF Moving
      <3>2. Clean => Named(s) /\ MainKnows(s)
        BY <1>2, <1>6 DEF Moving
      <3>3. QED
        BY <1>10, <1>14, <3>1, <3>2 DEF Calm, Based, Named, Live, MainKnows
    <2>3. AwaitOK(p)' /\ ActiveOK(p)'
      BY <1>9, <1>15 DEF AwaitOK, ActiveOK
    <2>4. QED
      BY <1>11, <1>12, <1>13, <2>2, <2>3, LocalKeeps
  <1>16. CASE t = <<"reset">>
    <2>1. Active(p)' /\ ~ Awaiting(p)' /\ call'[p].todo = <<"reset">>
      BY <1>9, <1>16 DEF Active, Awaiting
    <2>2. Moving(p)'
      <3>1. Unawaited(s)'
        BY <1>2, <1>6, <1>9, <2>1 DEF Moving, Unawaited, Awaiting, Idle
      <3>2. Clean => Named(s)' /\ MainKnows(s)' /\ ~ Rebasing(p)'
        <4>1. call[p].todo # <<"update_base">> /\ call[p].todo # <<"reset">>
          <5>1. Tail(<<"update_base">>) # <<"reset">> /\ Tail(<<"reset">>) # <<"reset">>
            OBVIOUS
          <5>2. QED
            BY <1>7, <1>16, <5>1
        <4>2. QED
          BY <1>2, <1>6, <1>10, <4>1 DEF Moving, Named, Live, MainKnows, Rebasing
      <3>3. QED
        BY <1>9, <1>10, <1>14, <1>16, <2>1, <3>1, <3>2 DEF Moving, Clean
    <2>3. QED
      BY <1>11, <1>12, <1>13, <2>1, <2>2, LocalKeeps DEF AwaitOK, ActiveOK
  <1>17. QED
    BY <1>8, <1>15, <1>16

LEMMA CheckedOutTypes ==
  ASSUME TypeInv, NEW p \in Procs, NEW v \in Versions, wt' = CheckedOut(p, v)
  PROVE  /\ wt' \in [Procs -> [stream : Streams \cup {None}, onto : Versions, files : BOOLEAN]]
         /\ \A q \in Procs : q # p => wt'[q] = wt[q]
         /\ ~ Rebasing(p) => wt'[p] = wt[p]
  <1>1. CASE ~ Rebasing(p)
    BY <1>1 DEF CheckedOut, TypeInv
  <1>2. CASE Rebasing(p)
    <2>1. wt' = [wt EXCEPT ![p].onto = v]
      BY <1>2 DEF CheckedOut
    <2>2. QED
      BY <1>2, <2>1 DEF TypeInv
  <1>3. QED
    BY <1>1, <1>2

LEMMA ResetHardKeeps ==
  ASSUME ConfInv, NEW p \in Procs, ResetHard(p)
  PROVE  ConfInv'
  <1> USE Literals
  <1>1. Does(p, "reset") /\ Done(p)
    BY DEF ResetHard
  <1>2. PICK s \in Streams : s = call[p].stream
    BY <1>1, Doing
  <1>3. PICK v \in Versions : v = call[p].target
    BY <1>1, Doing
  <1>4. \/ real' = [real EXCEPT ![s] = v] /\ wt' = CheckedOut(p, v)
        \/ Rebasing(p) /\ UNCHANGED <<real, wt>>
    BY <1>2, <1>3 DEF ResetHard
  <1>5. /\ ThreadFree(p) /\ ~ Idle(p) /\ Head(call[p].todo) = "reset" /\ TypeInv
        /\ Moving(p) \/ Failing(p) \/ Ending(p) \/ Recovering(p)
    BY <1>1, Doing DEF ConfInv
  <1>6. Moving(p) /\ call[p].todo = <<"reset">> /\ (Clean => base[s] = v /\ ~ Rebasing(p))
    BY <1>2, <1>3, <1>5 DEF Moving, Failing, Unrecorded, Unmarked, Aborting, Starting,
                Ending, Leaving, Left, Closed, Finished, Recovering
  <1>7. Tail(call[p].todo) = <<>>
    BY <1>6
  <1>8. /\ Idle(p)' /\ ~ Active(p)' /\ ~ Awaiting(p)'
        /\ call' \in [Procs -> CallRecord]
        /\ \A q \in Procs : q # p => call'[q] = call[q]
    BY <1>1, <1>5, <1>7, DoneStep
  <1>9. UNCHANGED <<setting, status, cid, rec, head, base, crashes, reused>>
    BY DEF ResetHard, dbVars
  <1>a. /\ wt' \in [Procs -> [stream : Streams \cup {None}, onto : Versions, files : BOOLEAN]]
        /\ \A q \in Procs : q # p => wt'[q] = wt[q]
        /\ Clean => wt'[p] = wt[p]
    <2>1. wt' = CheckedOut(p, v) \/ wt' = wt
      BY <1>4
    <2>2. QED
      BY <1>5, <1>6, <2>1, CheckedOutTypes DEF TypeInv
  <1>b. /\ real' \in [Streams -> Versions] /\ (Clean => real'[s] = v)
        /\ \A u \in Streams : u # s => real'[u] = real[u]
    BY <1>4, <1>5, <1>6 DEF TypeInv
  <1>10. TypeInv'
    <2>2. \A q \in Procs : ~ Idle(q)' => call'[q].stream \in Streams
      BY <1>5, <1>8, CallTypes
    <2>3. QED
      BY <1>5, <1>8, <1>9, <1>a, <1>b, <2>2 DEF TypeInv, Versions, CallRecord
  <1>11. LocalStep(p, s, None)
    <2>1. \A d \in Conflicts : ~ Attends(p, d)
      BY <1>5 DEF Attends
    <2>2. Unawaited(s)
      BY <1>2, <1>6 DEF Moving
    <2>3. QED
      BY <1>2, <1>5, <1>8, <1>9, <1>a, <1>b, <2>1, <2>2 DEF LocalStep, TypeInv, Unawaited, Clean
  <1>12. StreamOK(s)' /\ AwaitOK(p)' /\ ActiveOK(p)'
    BY <1>8, <1>9 DEF StreamOK, ConfInv, AwaitOK, ActiveOK
  <1>13. Clean => Calm(s)'
    <2>1. Clean => Named(s) /\ MainKnows(s)
      BY <1>2, <1>6 DEF Moving
    <2>2. Clean => base'[s] = v /\ real'[s] = v
      BY <1>6, <1>9, <1>b
    <2>3. QED
      BY <1>9, <1>a, <2>1, <2>2, ConflictsAssumption DEF Calm, Based, Named, Live, MainKnows
  <1>14. QED
    BY <1>10, <1>11, <1>12, <1>13, LocalKeeps

LEMMA CreateConflictKeeps ==
  ASSUME ConfInv, NEW p \in Procs, CreateConflict(p)
  PROVE  ConfInv'
  <1> USE Literals
  <1>1. PICK x \in {"create", "create_late"} : Does(p, x)
    BY DEF CreateConflict
  <1>2. PICK s \in Streams : s = call[p].stream
    BY <1>1, Doing
  <1>3. PICK v \in Versions : v = call[p].target
    BY <1>1, Doing
  <1>4. /\ ThreadFree(p) /\ ~ Idle(p) /\ Head(call[p].todo) = x /\ TypeInv
        /\ call[p].todo \in Todos
        /\ Moving(p) \/ Failing(p) \/ Ending(p) \/ Recovering(p)
    BY <1>1, Doing DEF ConfInv
  <1>5. Failing(p) /\ Unrecorded(p)
    BY <1>4 DEF Moving, Failing, Unrecorded, Unmarked, Aborting, Starting,
                Ending, Leaving, Left, Closed, Finished, Recovering
  <1>6. v = head /\ status[s] # "conflicted"
    BY <1>2, <1>3, <1>5 DEF Unrecorded
  <1>7. PICK c \in setting.conflicts :
          /\ rec[c] = Unused
          /\ rec' = [rec EXCEPT ![c] = [status |-> "pending", stream |-> s, target |-> v]]
          /\ call' = [call EXCEPT ![p].todo = Tail(@), ![p].conflict = c]
    <2>1. PICK c \in setting.conflicts :
          /\ rec[c] = Unused
          /\ rec' = [rec EXCEPT ![c] =
               [status |-> "pending", stream |-> call[p].stream,
                target |-> IF Does(p, "create") THEN call[p].target ELSE head]]
          /\ call' = [call EXCEPT ![p].todo = Tail(@), ![p].conflict = c]
      BY DEF CreateConflict
    <2>2. (IF Does(p, "create") THEN call[p].target ELSE head) = v
      BY <1>3, <1>6
    <2>3. QED
      BY <1>2, <2>1, <2>2
  <1>8. c \in Conflicts /\ c # None
    BY <1>4, ConflictsAssumption DEF TypeInv, Setting
  <1>9. PICK t : Tail(call[p].todo) = t
    OBVIOUS
  <1>10. t \in {<<"set_conflicted">>, <<"set_conflicted", "abort">>,
                <<"set_conflicted", "start", "await">>} /\ t \in Todos
    <2>1. t \in {<<"set_conflicted">>, <<"set_conflicted", "abort">>,
                <<"set_conflicted", "start", "await">>}
      <3>1. PICK d : d = call[p].todo
        OBVIOUS
      <3>2. d \in {<<"create_late", "set_conflicted">>, <<"create", "set_conflicted", "abort">>,
                   <<"create", "set_conflicted", "start", "await">>}
        BY <1>5, <3>1 DEF Unrecorded
      <3>3. CASE d = <<"create_late", "set_conflicted">>
        BY <1>9, <3>1, <3>3
      <3>4. CASE d = <<"create", "set_conflicted", "abort">>
        BY <1>9, <3>1, <3>4
      <3>5. CASE d = <<"create", "set_conflicted", "start", "await">>
        BY <1>9, <3>1, <3>5
      <3>6. QED
        BY <3>2, <3>3, <3>4, <3>5
    <2>2. t \in Todos
      <3>1. t \in Todos \cup {<<>>}
        BY <1>4, <1>9, TodoFacts
      <3>2. t # <<>>
        BY <2>1
      <3>3. QED
        BY <3>1, <3>2
    <2>3. QED
      BY <2>1, <2>2
  <1>11. /\ call'[p].todo = t /\ call'[p].stream = s /\ call'[p].conflict = c
         /\ call'[p].target = v /\ call' \in [Procs -> CallRecord]
         /\ \A q \in Procs : q # p => call'[q] = call[q]
    <2>1. PICK r \in CallRecord : r = call[p]
      BY <1>4 DEF TypeInv
    <2>2. PICK n : n = [r EXCEPT !.todo = t, !.conflict = c]
      OBVIOUS
    <2>3. n \in CallRecord /\ n.todo = t /\ n.conflict = c /\ n.stream = s /\ n.target = v
      BY <1>2, <1>3, <1>8, <1>10, <2>1, <2>2 DEF CallRecord
    <2>4. call' = [call EXCEPT ![p] = n]
      BY <1>7, <1>9, <2>1, <2>2
    <2>5. /\ call' \in [Procs -> CallRecord] /\ call'[p] = n
          /\ \A q \in Procs : q # p => call'[q] = call[q]
      BY <1>4, <2>3, <2>4 DEF TypeInv
    <2>6. QED
      BY <2>3, <2>5
  <1>12. /\ ~ Idle(p)' /\ Active(p)' /\ ~ Awaiting(p)'
    BY <1>10, <1>11 DEF Idle, Active, Awaiting
  <1>13. UNCHANGED <<setting, status, cid, head, real, base, wt, crashes, reused>>
    BY DEF CreateConflict, gitVars
  <1>14. PICK new : new = [status |-> "pending", stream |-> s, target |-> v]
    OBVIOUS
  <1>15. rec' = [rec EXCEPT ![c] = new] /\ rec'[c] = new
    BY <1>4, <1>7, <1>8, <1>14 DEF TypeInv
  <1>16. TypeInv'
    <2>1. new \in [status : ConflictStatus, stream : Streams \cup {None}, target : Versions]
      BY <1>14 DEF ConflictStatus
    <2>2. \A q \in Procs : ~ Idle(q)' => call'[q].stream \in Streams
      BY <1>4, <1>11, CallTypes
    <2>3. rec' \in [Conflicts -> [status : ConflictStatus, stream : Streams \cup {None},
                            target : Versions]]
      BY <1>4, <1>15, <2>1 DEF TypeInv
    <2>4. \A d \in Conflicts : /\ rec'[d].status = "none" => rec'[d] = Unused
                               /\ rec'[d].status # "none" => rec'[d].stream \in Streams
      BY <1>4, <1>8, <1>14, <1>15 DEF TypeInv
    <2>5. QED
      BY <1>4, <1>11, <1>13, <2>2, <2>3, <2>4 DEF TypeInv, Versions, CallRecord
  <1>17. Unawaited(s) /\ Unawaited(s)'
    BY <1>2, <1>5, <1>11, <1>12 DEF Failing, Unawaited, Awaiting, Idle
  <1>18. LocalStep(p, s, c)
    <2>1. \A d \in Conflicts : ~ Attends(p, d)
      BY <1>4 DEF Attends
    <2>2. QED
      BY <1>2, <1>4, <1>7, <1>11, <1>13, <1>15, <1>17, <2>1 DEF LocalStep, TypeInv, Unawaited
  <1>19. StreamOK(s)'
    <2>1. StreamOK(s) /\ None \notin Streams /\ cid[s] \in Conflicts \cup {None}
      BY <1>4, ConflictsAssumption DEF ConfInv, TypeInv
    <2>2. cid[s] # c
      BY <1>7, <1>8, <2>1 DEF StreamOK, Unused
    <2>3. QED
      BY <1>4, <1>13, <1>15, <2>1, <2>2 DEF StreamOK, TypeInv
  <1>20. Failing(p)'
    <2>1. Clean' => Based(s)' /\ MainIs(p)'
      BY <1>2, <1>5, <1>11, <1>13 DEF Failing, Clean, Based, MainIs
    <2>2. Clean' => Holds(p)'
      BY <1>2, <1>3, <1>5, <1>11, <1>13 DEF Failing, Holds, Rebasing, Clean
    <2>3. Unmarked(p)'
      BY <1>6, <1>8, <1>10, <1>11, <1>13, <1>14, <1>15 DEF Unmarked, Recorded, Live
    <2>4. QED
      BY <1>11, <1>17, <2>1, <2>2, <2>3 DEF Failing
  <1>21. Attended(c)'
    BY <1>14, <1>15 DEF Attended
  <1>22. QED
    BY <1>8, <1>12, <1>16, <1>18, <1>19, <1>20, <1>21, LocalKeeps DEF AwaitOK, ActiveOK
LEMMA SetStreamConflictedKeeps ==
  ASSUME ConfInv, NEW p \in Procs, SetStreamConflicted(p)
  PROVE  ConfInv'
  <1> USE Literals
  <1>1. Does(p, "set_conflicted") /\ Done(p)
    BY DEF SetStreamConflicted
  <1>2. PICK s \in Streams : s = call[p].stream
    BY <1>1, Doing
  <1>3. PICK v \in Versions : v = call[p].target
    BY <1>1, Doing
  <1>4. /\ ThreadFree(p) /\ ~ Idle(p) /\ Head(call[p].todo) = "set_conflicted" /\ TypeInv
        /\ Moving(p) \/ Failing(p) \/ Ending(p) \/ Recovering(p)
    BY <1>1, Doing DEF ConfInv
  <1>5. Failing(p) /\ Unmarked(p)
    BY <1>4 DEF Moving, Failing, Unrecorded, Unmarked, Aborting, Starting,
                Ending, Leaving, Left, Closed, Finished, Recovering
  <1>6. PICK c \in Conflicts : c = call[p].conflict
    BY <1>1, <1>5, Doing DEF Unmarked, Recorded
  <1>7. rec[c].stream = s /\ rec[c].target = v /\ rec[c].status = "pending" /\ c # None
    BY <1>2, <1>3, <1>5, <1>6 DEF Unmarked, Recorded
  <1>8. /\ status' = [status EXCEPT ![s] = "conflicted"] /\ cid' = [cid EXCEPT ![s] = c]
        /\ status'[s] = "conflicted" /\ cid'[s] = c
    BY <1>2, <1>4, <1>6 DEF SetStreamConflicted, TypeInv
  <1>9. PICK t : Tail(call[p].todo) = t
    OBVIOUS
  <1>10. t \in {<<>>, <<"abort">>, <<"start", "await">>}
    <2>1. PICK d : d = call[p].todo
      OBVIOUS
    <2>2. d \in {<<"set_conflicted">>, <<"set_conflicted", "abort">>,
                 <<"set_conflicted", "start", "await">>}
      BY <1>5, <2>1 DEF Unmarked
    <2>3. CASE d = <<"set_conflicted">>
      BY <1>9, <2>1, <2>3
    <2>4. CASE d = <<"set_conflicted", "abort">>
      BY <1>9, <2>1, <2>4
    <2>5. CASE d = <<"set_conflicted", "start", "await">>
      BY <1>9, <2>1, <2>5
    <2>6. QED
      BY <2>2, <2>3, <2>4, <2>5
  <1>11. /\ t = <<>> => Idle(p)' /\ ~ Active(p)' /\ ~ Awaiting(p)'
         /\ t # <<>> => /\ ~ Idle(p)' /\ call'[p].todo = t /\ call'[p].stream = s
                        /\ call'[p].conflict = c /\ call'[p].target = v
         /\ ~ Idle(p)' => call'[p].stream = s
         /\ call' \in [Procs -> CallRecord]
         /\ \A q \in Procs : q # p => call'[q] = call[q]
    BY <1>1, <1>2, <1>3, <1>4, <1>6, <1>9, DoneStep
  <1>12. UNCHANGED <<setting, base, rec, head, real, wt, crashes, reused>>
    BY DEF SetStreamConflicted, gitVars
  <1>13. TypeInv'
    <2>1. status' \in [Streams -> {"active", "paused", "conflicted", "abandoned"}]
          /\ cid' \in [Streams -> Conflicts \cup {None}]
      BY <1>4, <1>8 DEF TypeInv
    <2>2. \A q \in Procs : ~ Idle(q)' => call'[q].stream \in Streams
      BY <1>4, <1>11, CallTypes
    <2>3. QED
      BY <1>4, <1>11, <1>12, <2>1, <2>2 DEF TypeInv, Versions, CallRecord
  <1>14. Unawaited(s)
    BY <1>2, <1>5 DEF Failing
  <1>15. LocalStep(p, s, None)
    <2>1. \A d \in Conflicts : ~ Attends(p, d)
      BY <1>4 DEF Attends
    <2>2. QED
      BY <1>2, <1>4, <1>8, <1>11, <1>12, <1>14, <2>1 DEF LocalStep, TypeInv, Unawaited
  <1>16. StreamOK(s)'
    BY <1>7, <1>8, <1>12 DEF StreamOK
  <1>17. Clean => Based(s) /\ MainIs(p) /\ Holds(p)
    BY <1>2, <1>5 DEF Failing
  <1>18. CASE t = <<>>
    <2>1. ASSUME Clean PROVE Calm(s)'
      <3>1. Named(s)'
        BY <1>7, <1>8, <1>12 DEF Named, Live
      <3>2. ASSUME wt[Main].stream = s PROVE wt[Main].onto = v
        <4>1. p = Main /\ wt[p].stream # None
          BY <1>2, <1>17, <2>1, <3>2, ConflictsAssumption DEF MainIs
        <4>2. QED
          BY <1>3, <1>17, <2>1, <4>1 DEF Holds, Rebasing
      <3>3. MainKnows(s)'
        BY <1>7, <1>8, <1>12, <3>2 DEF MainKnows
      <3>4. QED
        BY <1>12, <1>17, <2>1, <3>1, <3>3 DEF Calm, Based
    <2>2. QED
      BY <1>11, <1>13, <1>15, <1>16, <1>18, <2>1, LocalKeeps DEF AwaitOK, ActiveOK
  <1>19. CASE t \in {<<"abort">>, <<"start", "await">>}
    <2>1. /\ ~ Idle(p)' /\ call'[p].todo = t /\ call'[p].stream = s
          /\ call'[p].conflict = c /\ call'[p].target = v
      BY <1>11, <1>19
    <2>2. Head(t) # "await"
      BY <1>19
    <2>3. Active(p)' /\ ~ Awaiting(p)'
      BY <2>1, <2>2 DEF Active, Awaiting
    <2>4. Failing(p)'
      <3>1. Unawaited(s)'
        BY <1>11, <1>14, <2>3 DEF Unawaited, Awaiting, Idle
      <3>2. Clean' => Based(s)' /\ MainIs(p)'
        BY <1>2, <1>12, <1>17, <2>1 DEF Clean, Based, MainIs
      <3>3. Clean' => Holds(p)'
        BY <1>2, <1>3, <1>12, <1>17, <2>1 DEF Holds, Rebasing, Clean
      <3>4. Named(s)' /\ Recorded(p)'
        BY <1>7, <1>8, <1>12, <2>1 DEF Named, Live, Recorded
      <3>5. Aborting(p)' \/ Starting(p)'
        BY <1>7, <1>8, <1>12, <1>19, <2>1, <3>4 DEF Aborting, Starting
      <3>6. QED
        BY <2>1, <3>1, <3>2, <3>3, <3>5 DEF Failing
    <2>5. QED
      BY <1>13, <1>15, <1>16, <2>3, <2>4, LocalKeeps DEF AwaitOK, ActiveOK
  <1>20. QED
    BY <1>10, <1>18, <1>19

\* What the UPDATE of a conflict does to the records.
LEMMA SetRecordKeeps ==
  ASSUME TypeInv, NEW c \in Conflicts \cup {None},
         NEW st \in {"in_progress", "abandoned", "resolved", "deleted"}, SetRecord(c, st)
  PROVE  /\ rec' \in [Conflicts -> [status : ConflictStatus, stream : Streams \cup {None},
                                    target : Versions]]
         /\ \A d \in Conflicts : /\ rec'[d].status = "none" => rec'[d] = Unused
                                 /\ rec'[d].status # "none" => rec'[d].stream \in Streams
                                 /\ rec'[d].stream = rec[d].stream
                                 /\ rec'[d].target = rec[d].target
                                 /\ d # c => rec'[d] = rec[d]
         /\ c # None => /\ Known(c) => rec'[c].status = st
                        /\ ~ Known(c) => rec'[c].status = rec[c].status
  <1>0. None \notin Conflicts
    BY ConflictsAssumption
  <1>1. CASE c = None \/ ~ Known(c)
    <2>1. rec' = rec
      BY <1>1 DEF SetRecord, Known
    <2>2. QED
      BY <1>0, <1>1, <2>1 DEF TypeInv, Known
  <1>2. CASE c # None /\ Known(c)
    <2>1. rec' = [rec EXCEPT ![c].status = st] /\ c \in Conflicts
      BY <1>2 DEF SetRecord, Known
    <2>2. PICK r \in [status : ConflictStatus, stream : Streams \cup {None}, target : Versions] :
            r = rec[c]
      BY <2>1 DEF TypeInv
    <2>3. PICK n : n = [r EXCEPT !.status = st]
      OBVIOUS
    <2>4. /\ n \in [status : ConflictStatus, stream : Streams \cup {None}, target : Versions]
          /\ n.status = st /\ n.stream = r.stream /\ n.target = r.target
      BY <2>3 DEF ConflictStatus
    <2>5. rec' = [rec EXCEPT ![c] = n]
      BY <2>1, <2>2, <2>3
    <2>6. r.stream \in Streams
      BY <1>2, <2>1, <2>2 DEF TypeInv, Known
    <2>7. rec'[c] = n /\ \A d \in Conflicts : d # c => rec'[d] = rec[d]
      BY <2>1, <2>5 DEF TypeInv
    <2>8. rec' \in [Conflicts -> [status : ConflictStatus, stream : Streams \cup {None},
                                    target : Versions]]
      BY <2>4, <2>5 DEF TypeInv
    <2>9. QED
      BY <1>2, <2>1, <2>2, <2>4, <2>6, <2>7, <2>8 DEF TypeInv
  <1>3. QED
    BY <1>1, <1>2
LEMMA UpdateTypes ==
  ASSUME ConfInv, NEW p \in Procs, UpdateConflict(p)
  PROVE  TypeInv'
  <1>1. PICK x \in {"start", "abandon", "resolve", "delete"},
             st \in {"in_progress", "abandoned", "resolved", "deleted"} :
          Does(p, x) /\ SetRecord(call[p].conflict, st) /\ Done(p)
    BY DEF UpdateConflict
  <1>2. PICK s \in Streams : s = call[p].stream
    BY <1>1, Doing
  <1>3. PICK c \in Conflicts \cup {None} : c = call[p].conflict
    BY <1>1, Doing
  <1>4. TypeInv /\ ~ Idle(p) /\ SetRecord(c, st)
    BY <1>1, <1>3, Doing DEF ConfInv
  <1>5. PICK t : Tail(call[p].todo) = t
    OBVIOUS
  <1>6. /\ ~ Idle(p)' => call'[p].stream = s
        /\ call' \in [Procs -> CallRecord]
        /\ \A q \in Procs : q # p => call'[q] = call[q]
    BY <1>1, <1>2, <1>4, <1>5, DoneStep
  <1>7. \A q \in Procs : ~ Idle(q)' => call'[q].stream \in Streams
    BY <1>4, <1>6, CallTypes
  <1>8. /\ rec' \in [Conflicts -> [status : ConflictStatus, stream : Streams \cup {None},
                                  target : Versions]]
        /\ \A d \in Conflicts : /\ rec'[d].status = "none" => rec'[d] = Unused
                                /\ rec'[d].status # "none" => rec'[d].stream \in Streams
    BY <1>4, SetRecordKeeps
  <1>9. UNCHANGED <<setting, base, status, cid, head, real, wt, crashes, reused>>
    BY DEF UpdateConflict, gitVars
  <1>10. QED
    BY <1>4, <1>6, <1>7, <1>8, <1>9 DEF TypeInv, Versions, CallRecord

LEMMA UpdateIsLocal ==
  ASSUME ConfInv, NEW p \in Procs, UpdateConflict(p),
         NEW s \in Streams, s = call[p].stream, NEW c \in Conflicts \cup {None},
         c = call[p].conflict, Unawaited(s), c # None => rec[c].stream = s
  PROVE  LocalStep(p, s, c) /\ StreamOK(s)'
  <1>1. PICK x \in {"start", "abandon", "resolve", "delete"},
             st \in {"in_progress", "abandoned", "resolved", "deleted"} :
          Does(p, x) /\ SetRecord(c, st) /\ Done(p)
    BY DEF UpdateConflict
  <1>2. TypeInv /\ ~ Idle(p) /\ ThreadFree(p)
    BY <1>1, Doing DEF ConfInv
  <1>3. PICK t : Tail(call[p].todo) = t
    OBVIOUS
  <1>4. /\ ~ Idle(p)' => call'[p].stream = s
        /\ \A q \in Procs : q # p => call'[q] = call[q]
    BY <1>1, <1>2, <1>3, DoneStep
  <1>5. \A d \in Conflicts : rec'[d].stream = rec[d].stream /\ (d # c => rec'[d] = rec[d])
    BY <1>1, <1>2, SetRecordKeeps
  <1>6. UNCHANGED <<setting, base, status, cid, head, real, wt, crashes, reused>>
    BY DEF UpdateConflict, gitVars
  <1>7. LocalStep(p, s, c)
    BY <1>2, <1>4, <1>5, <1>6 DEF LocalStep, Unawaited, Attends
  <1>8. StreamOK(s)'
    BY <1>2, <1>5, <1>6 DEF StreamOK, ConfInv, TypeInv
  <1>9. QED
    BY <1>7, <1>8

LEMMA StartKeeps ==
  ASSUME ConfInv, NEW p \in Procs, UpdateConflict(p), Does(p, "start")
  PROVE  ConfInv'
  <1> USE Literals
  <1>1. PICK s \in Streams : s = call[p].stream
    BY Doing
  <1>2. PICK v \in Versions : v = call[p].target
    BY Doing
  <1>3. /\ ThreadFree(p) /\ ~ Idle(p) /\ Head(call[p].todo) = "start" /\ TypeInv
        /\ Moving(p) \/ Failing(p) \/ Ending(p) \/ Recovering(p)
    BY Doing DEF ConfInv
  <1>4. Failing(p) /\ Starting(p)
    BY <1>3 DEF Moving, Failing, Unrecorded, Unmarked, Aborting, Starting,
                Ending, Leaving, Left, Closed, Finished, Recovering
  <1>5. PICK c \in Conflicts : c = call[p].conflict
    BY <1>4, Doing DEF Starting, Recorded
  <1>6. /\ rec[c].stream = s /\ rec[c].target = v /\ Live(c) /\ c # None
        /\ status[s] = "conflicted" /\ cid[s] = c
    BY <1>1, <1>2, <1>4, <1>5 DEF Starting, Recorded
  <1>7. SetRecord(c, "in_progress") /\ Done(p)
    BY <1>3, <1>5 DEF UpdateConflict, Does
  <1>8. /\ rec'[c].status = "in_progress" /\ rec'[c].stream = s /\ rec'[c].target = v
    BY <1>3, <1>6, <1>7, SetRecordKeeps DEF Live, Known
  <1>9. PICK t : Tail(call[p].todo) = t
    OBVIOUS
  <1>10. t = <<"await">>
    <2>1. PICK d : d = call[p].todo
      OBVIOUS
    <2>2. d = <<"start", "await">>
      BY <1>4, <2>1 DEF Starting
    <2>3. QED
      BY <1>9, <2>1, <2>2
  <1>11. /\ ~ Idle(p)' /\ call'[p].todo = t /\ call'[p].stream = s
         /\ call'[p].conflict = c /\ call'[p].target = v
         /\ \A q \in Procs : q # p => call'[q] = call[q]
    <2>1. t # <<>>
      BY <1>10
    <2>2. QED
      BY <1>1, <1>2, <1>3, <1>5, <1>7, <1>9, <2>1, DoneStep
  <1>12. UNCHANGED <<setting, base, status, cid, head, real, wt, crashes, reused>>
    BY DEF UpdateConflict, gitVars
  <1>13. Unawaited(s)
    BY <1>1, <1>4 DEF Failing
  <1>14. LocalStep(p, s, c) /\ StreamOK(s)' /\ TypeInv'
    BY <1>1, <1>5, <1>6, <1>13, UpdateIsLocal, UpdateTypes
  <1>15. Awaiting(p)' /\ ~ Active(p)'
    BY <1>10, <1>11 DEF Awaiting, Active
  <1>16. Clean => Based(s) /\ MainIs(p) /\ Holds(p)
    BY <1>1, <1>4 DEF Failing
  <1>17. AwaitOK(p)'
    <2>1. Recorded(p)'
      BY <1>6, <1>8, <1>11 DEF Recorded, Live
    <2>2. Clean' => MainIs(p)' /\ Holds(p)'
      BY <1>1, <1>2, <1>11, <1>12, <1>16 DEF Holds, Rebasing, MainIs, Clean
    <2>3. \A q \in Procs : Awaiting(q)' /\ call'[q].stream = s => p = q
      BY <1>11, <1>13 DEF Unawaited, Awaiting, Idle
    <2>4. QED
      BY <1>6, <1>10, <1>11, <1>12, <2>1, <2>2, <2>3 DEF AwaitOK
  <1>18. Attended(c)'
    <2>1. Attends(p, c)'
      BY <1>10, <1>11 DEF Attends
    <2>2. QED
      BY <2>1 DEF Attended
  <1>19. ASSUME Clean PROVE Calm(s)'
    <2>1. ASSUME wt[Main].stream = s PROVE wt[Main].onto = v
      <3>1. p = Main /\ wt[p].stream # None
        BY <1>1, <1>16, <1>19, <2>1, ConflictsAssumption DEF MainIs
      <3>2. QED
        BY <1>2, <1>16, <1>19, <3>1 DEF Holds, Rebasing
    <2>2. Named(s)' /\ MainKnows(s)'
      BY <1>6, <1>8, <1>12, <2>1 DEF Named, Live, MainKnows
    <2>3. QED
      BY <1>12, <1>16, <1>19, <2>2 DEF Calm, Based
  <1>20. QED
    BY <1>14, <1>15, <1>17, <1>18, <1>19, LocalKeeps DEF ActiveOK
LEMMA CloseKeeps ==
  ASSUME ConfInv, NEW p \in Procs, UpdateConflict(p), ~ Does(p, "start"), ~ Recovering(p)
  PROVE  ConfInv'
  <1> USE Literals
  <1>1. PICK x \in {"abandon", "resolve", "delete"}, st \in {"abandoned", "resolved", "deleted"} :
          /\ Does(p, x) /\ SetRecord(call[p].conflict, st) /\ Done(p)
          /\ x = "abandon" => st = "abandoned"
    BY DEF UpdateConflict
  <1>2. PICK s \in Streams : s = call[p].stream
    BY <1>1, Doing
  <1>3. PICK v \in Versions : v = call[p].target
    BY <1>1, Doing
  <1>4. PICK c \in Conflicts \cup {None} : c = call[p].conflict
    BY <1>1, Doing
  <1>5. /\ ThreadFree(p) /\ ~ Idle(p) /\ Head(call[p].todo) = x /\ TypeInv
        /\ Moving(p) \/ Failing(p) \/ Ending(p)
    BY <1>1, Doing DEF ConfInv
  <1>6. /\ Ending(p)
        /\ \/ Left(p)
           \/ Finished(p) /\ call[p].todo = <<"resolve", "clear", "update_base">>
    <2>1. Ending(p)
      BY <1>5 DEF Moving, Failing, Unrecorded, Unmarked, Aborting, Starting
    <2>2. ~ Leaving(p) /\ ~ Closed(p) /\ call[p].todo # <<"clear", "update_base">>
      BY <1>5 DEF Leaving, Closed
    <2>3. QED
      BY <2>1, <2>2 DEF Ending, Finished
  <1>7. /\ Unawaited(s) /\ (status[s] = "conflicted" => cid[s] = c)
        /\ c # None => rec[c].stream = s
    BY <1>2, <1>4, <1>6 DEF Ending, Theirs, Owned
  <1>8. LocalStep(p, s, c) /\ StreamOK(s)' /\ TypeInv'
    BY <1>2, <1>4, <1>7, UpdateIsLocal, UpdateTypes
  <1>9. c # None => /\ rec'[c].stream = s /\ Over(c)'
                    /\ Live(c) => rec'[c].status = st
    <2>1. c # None => /\ rec'[c].stream = rec[c].stream
                      /\ Known(c) => rec'[c].status = st
                      /\ ~ Known(c) => rec'[c].status = rec[c].status
      BY <1>1, <1>4, <1>5, SetRecordKeeps
    <2>2. QED
      BY <1>7, <2>1 DEF Over, Live, Known
  <1>10. UNCHANGED <<setting, base, status, cid, head, real, wt, crashes, reused>>
    BY DEF UpdateConflict, gitVars
  <1>11. status[s] = "conflicted" => c # None
    BY <1>7 DEF ConfInv, StreamOK
  <1>12. PICK t : Tail(call[p].todo) = t
    OBVIOUS
  <1>13. \/ t = <<"clear">> /\ Left(p)
         \/ t = <<>> /\ Left(p) /\ x = "abandon"
         \/ t = <<"clear", "update_base">> /\ Finished(p)
    <2>1. PICK d : d = call[p].todo
      OBVIOUS
    <2>2. CASE Left(p)
      <3>1. d \in {<<"abandon", "clear">>, <<"abandon">>, <<"delete", "clear">>} /\ Head(d) = x
        BY <1>5, <2>1, <2>2 DEF Left
      <3>2. CASE d = <<"abandon", "clear">>
        BY <1>12, <2>1, <2>2, <3>2
      <3>3. CASE d = <<"delete", "clear">>
        BY <1>12, <2>1, <2>2, <3>3
      <3>4. CASE d = <<"abandon">>
        <4>1. Tail(d) = <<>> /\ Head(d) = "abandon"
          BY <3>4
        <4>2. QED
          BY <1>12, <2>1, <2>2, <3>1, <4>1
      <3>5. QED
        BY <3>1, <3>2, <3>3, <3>4
    <2>3. CASE d = <<"resolve", "clear", "update_base">> /\ Finished(p)
      BY <1>12, <2>1, <2>3
    <2>4. QED
      BY <1>6, <2>1, <2>2, <2>3
  <1>14. /\ t = <<>> => Idle(p)' /\ ~ Active(p)' /\ ~ Awaiting(p)'
         /\ t # <<>> => /\ ~ Idle(p)' /\ call'[p].todo = t /\ call'[p].stream = s
                        /\ call'[p].conflict = c /\ call'[p].target = v
         /\ \A q \in Procs : q # p => call'[q] = call[q]
    BY <1>1, <1>2, <1>3, <1>4, <1>5, <1>12, DoneStep
  <1>15. c # None => Attended(c)'
    BY <1>9 DEF Attended, Over
  <1>16. CASE t # <<>>
    <2>1. /\ ~ Idle(p)' /\ call'[p].todo = t /\ call'[p].stream = s
          /\ call'[p].conflict = c /\ call'[p].target = v
      BY <1>14, <1>16
    <2>2. Head(t) # "await"
      BY <1>13, <1>16
    <2>3. Active(p)' /\ ~ Awaiting(p)'
      BY <2>1, <2>2 DEF Active, Awaiting
    <2>4. Unawaited(s)'
      BY <1>7, <1>14, <2>3 DEF Unawaited, Awaiting, Idle
    <2>5. Theirs(p)' /\ Owned(p)'
      BY <1>7, <1>9, <1>10, <2>1 DEF Theirs, Owned
    <2>6. status'[s] = "conflicted" => Over(c)'
      BY <1>9, <1>10, <1>11
    <2>7. Closed(p)' \/ Finished(p)'
      <3>1. CASE t = <<"clear">> /\ Left(p)
        <4>1. Clean => Based(s) /\ MainElsewhere(s)
          BY <1>2, <3>1 DEF Left
        <4>2. Clean' => Based(s)' /\ MainElsewhere(s)'
          BY <1>10, <4>1 DEF Clean, Based, MainElsewhere
        <4>3. QED
          BY <2>1, <2>6, <3>1, <4>2 DEF Closed
      <3>2. CASE t = <<"clear", "update_base">> /\ Finished(p)
        <4>1. Clean => real[s] = v /\ MainElsewhere(s)
          BY <1>2, <1>3, <3>2 DEF Finished
        <4>2. Clean' => real'[s] = v /\ MainElsewhere(s)'
          BY <1>10, <4>1 DEF Clean, MainElsewhere
        <4>3. QED
          BY <2>1, <2>6, <3>2, <4>2 DEF Finished
      <3>3. QED
        BY <1>13, <1>16, <3>1, <3>2
    <2>8. Ending(p)'
      BY <2>1, <2>4, <2>5, <2>7 DEF Ending
    <2>9. QED
      BY <1>8, <1>15, <2>3, <2>8, LocalKeeps DEF AwaitOK, ActiveOK
  <1>17. CASE t = <<>>
    <2>1. Left(p) /\ st = "abandoned"
      <3>1. t # <<"clear">> /\ t # <<"clear", "update_base">>
        BY <1>17
      <3>2. QED
        BY <1>1, <1>13, <3>1
    <2>2. ASSUME Clean PROVE Calm(s)'
      <3>1. Based(s) /\ Named(s) /\ MainElsewhere(s)
        BY <1>2, <2>1, <2>2 DEF Left
      <3>2. Named(s)'
        BY <1>1, <1>7, <1>9, <1>10, <1>11, <2>1, <3>1 DEF Named, Live
      <3>3. QED
        BY <1>10, <3>1, <3>2 DEF Calm, Based, MainElsewhere, MainKnows
    <2>3. QED
      BY <1>8, <1>14, <1>15, <1>17, <2>2, LocalKeeps DEF AwaitOK, ActiveOK
  <1>18. QED
    BY <1>16, <1>17

(* Recovery, which happens after a crash only *)

LEMMA RecoverKeeps ==
  ASSUME ConfInv, ~ Clean, NEW p \in Procs, ThreadFree(p), ~ Awaiting(p), ~ Awaiting(p)',
         NEW c \in Conflicts,
         \A q \in Procs : Awaiting(q) => call[q].conflict # c,
         UNCHANGED <<setting, head, base, real, wt, crashes, reused>>,
         \A q \in Procs : q # p => call'[q] = call[q],
         \A d \in Conflicts : /\ rec'[d].stream = rec[d].stream
                              /\ d # c => rec'[d] = rec[d],
         \A s \in Streams : \/ status'[s] = status[s] /\ cid'[s] = cid[s]
                            \/ status'[s] # "conflicted" /\ cid[s] = c /\ cid'[s] = None,
         TypeInv', ActiveOK(p)'
  PROVE  ConfInv'
  <1>1. \A q \in Procs : q # p => /\ Awaiting(q)' <=> Awaiting(q)
                                  /\ ~ Active(q) /\ ~ Active(q)'
    BY DEF ThreadFree, Idle, Awaiting, Active
  <1>2. OneActive' /\ \A q \in Procs : ActiveOK(q)'
    BY <1>1 DEF OneActive, ActiveOK
  <1>3. ~ Clean'
    BY DEF Clean
  <1>4. ASSUME NEW s \in Streams PROVE StreamOK(s)'
    <2>1. StreamOK(s) /\ cid[s] \in Conflicts \cup {None}
      BY DEF ConfInv, TypeInv
    <2>2. QED
      BY <2>1 DEF StreamOK
  <1>5. ASSUME NEW q \in Procs, q # p, Awaiting(q) PROVE AwaitOK(q)'
    <2>1. PICK t \in Streams : t = call[q].stream
      BY <1>5 DEF ConfInv, TypeInv, Awaiting
    <2>2. PICK d \in Conflicts : d = call[q].conflict
      BY <1>5 DEF ConfInv, TypeInv, AwaitOK, Recorded, CallRecord
    <2>3. d # c /\ rec'[d] = rec[d] /\ call'[q] = call[q]
      BY <1>5, <2>2
    <2>4. /\ call[q].todo = <<"await">> /\ status[t] = "conflicted" /\ cid[t] = d
          /\ Recorded(q)
          /\ \A r \in Procs : Awaiting(r) /\ call[r].stream = t => q = r
      BY <1>5, <2>1, <2>2 DEF ConfInv, AwaitOK
    <2>5. status'[t] = "conflicted" /\ cid'[t] = d
      BY <2>3, <2>4
    <2>6. Recorded(q)'
      BY <2>1, <2>2, <2>3, <2>4 DEF Recorded, Live
    <2>7. \A r \in Procs : Awaiting(r)' /\ call'[r].stream = t => q = r
      BY <1>1, <2>4
    <2>8. QED
      BY <1>3, <2>1, <2>2, <2>3, <2>4, <2>5, <2>6, <2>7 DEF AwaitOK
  <1>6. \A q \in Procs : AwaitOK(q)'
    BY <1>1, <1>5 DEF AwaitOK
  <1>7. QED
    BY <1>2, <1>3, <1>4, <1>6 DEF ConfInv

LEMMA RecoverAbandonKeeps ==
  ASSUME ConfInv, NEW p \in Procs, UpdateConflict(p), Recovering(p)
  PROVE  ConfInv'
  <1> USE Literals
  <1>1. PICK x \in {"start", "abandon", "resolve", "delete"},
             st \in {"in_progress", "abandoned", "resolved", "deleted"} :
          /\ Does(p, x) /\ SetRecord(call[p].conflict, st) /\ Done(p)
          /\ x = "abandon" => st = "abandoned"
    BY DEF UpdateConflict
  <1>2. PICK s \in Streams : s = call[p].stream
    BY <1>1, Doing
  <1>3. PICK c \in Conflicts : c = call[p].conflict
    BY <1>1, Doing DEF Recovering
  <1>4. /\ ThreadFree(p) /\ ~ Idle(p) /\ Head(call[p].todo) = x /\ TypeInv /\ Active(p)
    BY <1>1, Doing DEF ConfInv
  <1>5. call[p].todo = <<"abandon", "recover_clear">> /\ x = "abandon" /\ ~ Clean
    BY <1>4 DEF Recovering
  <1>6. \A q \in Procs : Awaiting(q) => call[q].conflict # c
    BY <1>3 DEF Recovering
  <1>7. PICK t : Tail(call[p].todo) = t
    OBVIOUS
  <1>8. t = <<"recover_clear">>
    <2>1. PICK d : d = call[p].todo
      OBVIOUS
    <2>2. QED
      BY <1>5, <1>7, <2>1
  <1>9. /\ ~ Idle(p)' /\ call'[p].todo = t /\ call'[p].stream = s /\ call'[p].conflict = c
        /\ \A q \in Procs : q # p => call'[q] = call[q]
    <2>1. t # <<>>
      BY <1>8
    <2>2. QED
      BY <1>1, <1>2, <1>3, <1>4, <1>7, <2>1, DoneStep
  <1>10. Active(p)' /\ ~ Awaiting(p)'
    BY <1>8, <1>9 DEF Active, Awaiting
  <1>11. /\ \A d \in Conflicts : rec'[d].stream = rec[d].stream /\ (d # c => rec'[d] = rec[d])
         /\ Over(c)'
    <2>1. /\ \A d \in Conflicts : rec'[d].stream = rec[d].stream /\ (d # c => rec'[d] = rec[d])
          /\ Known(c) => rec'[c].status = st
          /\ ~ Known(c) => rec'[c].status = rec[c].status
      BY <1>1, <1>3, <1>4, SetRecordKeeps, ConflictsAssumption
    <2>2. QED
      BY <1>1, <1>5, <2>1 DEF Over, Known
  <1>12. UNCHANGED <<setting, base, status, cid, head, real, wt, crashes, reused>>
    BY DEF UpdateConflict, gitVars
  <1>13. ActiveOK(p)'
    <2>1. \A q \in Procs : Awaiting(q)' => call'[q].conflict # c
      BY <1>6, <1>9, <1>10 DEF Awaiting, Idle
    <2>2. c # None /\ ~ Clean'
      BY <1>5, <1>12, ConflictsAssumption DEF Clean
    <2>3. Recovering(p)'
      BY <1>8, <1>9, <1>11, <2>1, <2>2 DEF Recovering
    <2>4. QED
      BY <2>3 DEF ActiveOK
  <1>14. QED
    BY <1>4, <1>5, <1>6, <1>9, <1>10, <1>11, <1>12, <1>13, UpdateTypes, RecoverKeeps DEF Active

LEMMA UpdateConflictKeeps ==
  ASSUME ConfInv, NEW p \in Procs, UpdateConflict(p)
  PROVE  ConfInv'
  BY StartKeeps, CloseKeeps, RecoverAbandonKeeps
LEMMA RebaseAbortKeeps ==
  ASSUME ConfInv, NEW p \in Procs, RebaseAbort(p)
  PROVE  ConfInv'
  <1> USE Literals
  <1>1. PICK x \in {"abort", "abort_seen"} : Does(p, x)
    BY DEF RebaseAbort
  <1>2. PICK s \in Streams : s = call[p].stream
    BY <1>1, Doing
  <1>3. PICK v \in Versions : v = call[p].target
    BY <1>1, Doing
  <1>4. PICK c \in Conflicts \cup {None} : c = call[p].conflict
    BY <1>1, Doing
  <1>5. /\ ThreadFree(p) /\ ~ Idle(p) /\ Head(call[p].todo) = x /\ TypeInv /\ Done(p)
        /\ Moving(p) \/ Failing(p) \/ Ending(p) \/ Recovering(p)
    BY <1>1, Doing DEF ConfInv, RebaseAbort
  <1>6. \/ Failing(p) /\ Aborting(p)
        \/ Ending(p) /\ Leaving(p)
    BY <1>5 DEF Moving, Failing, Unrecorded, Unmarked, Aborting, Starting,
                Ending, Left, Closed, Finished, Recovering
  <1>7. Unawaited(s) /\ (Clean => Based(s) /\ Named(s) /\ MainIs(p))
    BY <1>2, <1>6 DEF Failing, Aborting, Ending, Leaving
  <1>8. UNCHANGED <<setting, head, base, real, status, cid, rec, crashes, reused>>
    BY DEF RebaseAbort, dbVars
  <1>9. /\ wt' \in [Procs -> [stream : Streams \cup {None}, onto : Versions, files : BOOLEAN]]
        /\ \A q \in Procs : q # p => wt'[q] = wt[q]
        /\ wt'[p].stream = None \/ wt'[p] = wt[p]
        /\ MainIs(p) => wt'[Main].stream # s
    <2>1. CASE wt' = [wt EXCEPT ![p] = NoRebase]
      <3>1. NoRebase \in [stream : Streams \cup {None}, onto : Versions, files : BOOLEAN]
            /\ NoRebase.stream = None
        BY <1>5 DEF NoRebase, Versions, TypeInv, Setting
      <3>2. wt'[p] = NoRebase /\ \A q \in Procs : q # p => wt'[q] = wt[q]
        BY <1>5, <2>1 DEF TypeInv
      <3>3. wt' \in [Procs -> [stream : Streams \cup {None}, onto : Versions, files : BOOLEAN]]
        BY <1>5, <2>1, <3>1 DEF TypeInv
      <3>4. MainIs(p) => wt'[Main].stream # s
        BY <1>2, <3>1, <3>2, ConflictsAssumption DEF MainIs
      <3>5. QED
        BY <3>1, <3>2, <3>3, <3>4
    <2>2. CASE ~ RebaseSeen(p) /\ UNCHANGED wt
      BY <1>2, <1>5, <2>2, ConflictsAssumption DEF MainIs, RebaseSeen, Rebasing, TypeInv
    <2>3. QED
      BY <2>1, <2>2 DEF RebaseAbort
  <1>10. PICK t : Tail(call[p].todo) = t
    OBVIOUS
  <1>11. \/ t = <<>> /\ Aborting(p)
         \/ t \in {<<"abandon", "clear">>, <<"abandon">>, <<"delete", "clear">>} /\ Ending(p)
    <2>1. PICK d : d = call[p].todo
      OBVIOUS
    <2>2. CASE Aborting(p)
      <3>1. d = <<"abort">>
        BY <2>1, <2>2 DEF Aborting
      <3>2. Tail(d) = <<>>
        BY <3>1
      <3>3. QED
        BY <1>10, <2>1, <2>2, <3>2
    <2>3. CASE Ending(p) /\ Leaving(p)
      <3>1. d \in {<<"abort", "abandon", "clear">>, <<"abort", "abandon">>,
                   <<"abort_seen", "abandon", "clear">>, <<"abort_seen", "delete", "clear">>}
        BY <2>1, <2>3 DEF Leaving
      <3>2. CASE d = <<"abort", "abandon", "clear">>
        BY <1>10, <2>1, <2>3, <3>2
      <3>3. CASE d = <<"abort", "abandon">>
        BY <1>10, <2>1, <2>3, <3>3
      <3>4. CASE d = <<"abort_seen", "abandon", "clear">>
        BY <1>10, <2>1, <2>3, <3>4
      <3>5. CASE d = <<"abort_seen", "delete", "clear">>
        BY <1>10, <2>1, <2>3, <3>5
      <3>6. QED
        BY <3>1, <3>2, <3>3, <3>4, <3>5
    <2>4. QED
      BY <1>6, <2>2, <2>3
  <1>12. /\ t = <<>> => Idle(p)' /\ ~ Active(p)' /\ ~ Awaiting(p)'
         /\ t # <<>> => /\ ~ Idle(p)' /\ call'[p].todo = t /\ call'[p].stream = s
                        /\ call'[p].conflict = c /\ call'[p].target = v
         /\ ~ Idle(p)' => call'[p].stream = s
         /\ call' \in [Procs -> CallRecord]
         /\ \A q \in Procs : q # p => call'[q] = call[q]
    BY <1>2, <1>3, <1>4, <1>5, <1>10, DoneStep
  <1>13. TypeInv'
    <2>1. \A q \in Procs : ~ Idle(q)' => call'[q].stream \in Streams
      BY <1>5, <1>12, CallTypes
    <2>2. QED
      BY <1>5, <1>8, <1>9, <1>12, <2>1 DEF TypeInv, Versions, CallRecord
  <1>14. StreamOK(s)'
    BY <1>8 DEF StreamOK, ConfInv
  <1>15. ASSUME NEW e \in {c, None},
                \A d \in Conflicts : Attends(p, d) => d = e, e # None => rec[e].stream = s
         PROVE  LocalStep(p, s, e)
    BY <1>2, <1>5, <1>7, <1>8, <1>9, <1>12, <1>15 DEF LocalStep, Unawaited
  <1>16. CASE t = <<>>
    <2>1. Aborting(p)
      <3>1. t \notin {<<"abandon", "clear">>, <<"abandon">>, <<"delete", "clear">>}
        BY <1>16
      <3>2. QED
        BY <1>11, <3>1
    <2>2. LocalStep(p, s, None)
      <3>1. \A d \in Conflicts : ~ Attends(p, d)
        BY <2>1 DEF Aborting, Attends
      <3>2. QED
        BY <1>15, <3>1
    <2>3. Clean => Calm(s)'
      BY <1>7, <1>8, <1>9 DEF Calm, Based, Named, Live, MainKnows
    <2>4. QED
      BY <1>12, <1>13, <1>14, <1>16, <2>2, <2>3, LocalKeeps DEF AwaitOK, ActiveOK
  <1>17. CASE t \in {<<"abandon", "clear">>, <<"abandon">>, <<"delete", "clear">>} /\ Ending(p)
    <2>1. /\ ~ Idle(p)' /\ call'[p].todo = t /\ call'[p].stream = s
          /\ call'[p].conflict = c /\ call'[p].target = v
      BY <1>12, <1>17
    <2>2. Head(t) \in {"abandon", "delete"} /\ t # <<"abort">>
      BY <1>17
    <2>3. Active(p)' /\ ~ Awaiting(p)'
      BY <2>1, <2>2 DEF Active, Awaiting
    <2>4. (status[s] = "conflicted" => cid[s] = c) /\ (c # None => rec[c].stream = s)
      BY <1>2, <1>4, <1>17 DEF Ending, Theirs, Owned
    <2>5. LocalStep(p, s, c)
      BY <1>4, <1>15, <2>4 DEF Attends
    <2>6. c # None => Attended(c)'
      BY <2>1, <2>2 DEF Attended, Attends
    <2>7. Ending(p)'
      <3>1. Unawaited(s)'
        BY <1>7, <1>12, <2>3 DEF Unawaited, Awaiting, Idle
      <3>2. Theirs(p)' /\ Owned(p)'
        BY <1>8, <2>1, <2>4 DEF Theirs, Owned
      <3>3. Clean' => Based(s)' /\ Named(s)' /\ MainElsewhere(s)'
        BY <1>7, <1>8, <1>9 DEF Clean, Based, Named, Live, MainElsewhere
      <3>4. Left(p)'
        BY <1>17, <2>1, <3>3 DEF Left
      <3>5. QED
        BY <2>1, <3>1, <3>2, <3>4 DEF Ending
    <2>8. QED
      BY <1>13, <1>14, <2>3, <2>5, <2>6, <2>7, LocalKeeps DEF AwaitOK, ActiveOK
  <1>18. QED
    BY <1>11, <1>16, <1>17
LEMMA ClearTypes ==
  ASSUME ConfInv, NEW p \in Procs, ClearStreamConflicted(p),
         NEW s \in Streams, s = call[p].stream
  PROVE  /\ TypeInv'
         /\ \A t \in Streams : t # s => status'[t] = status[t] /\ cid'[t] = cid[t]
         /\ \/ /\ status[s] = "conflicted" /\ Owns(p)
               /\ status'[s] = "active" /\ cid'[s] = None
            \/ /\ status[s] # "conflicted" \/ ~ Owns(p)
               /\ status'[s] = status[s] /\ cid'[s] = cid[s]
  <1>1. PICK x \in {"clear", "recover_clear"} : Does(p, x)
    BY DEF ClearStreamConflicted
  <1>2. TypeInv /\ ~ Idle(p) /\ Done(p)
    BY <1>1, Doing DEF ConfInv, ClearStreamConflicted
  <1>3. PICK t : Tail(call[p].todo) = t
    OBVIOUS
  <1>4. /\ ~ Idle(p)' => call'[p].stream = s
        /\ call' \in [Procs -> CallRecord]
        /\ \A q \in Procs : q # p => call'[q] = call[q]
    BY <1>2, <1>3, DoneStep
  <1>5. \A q \in Procs : ~ Idle(q)' => call'[q].stream \in Streams
    BY <1>2, <1>4, CallTypes
  <1>6. UNCHANGED <<setting, base, rec, head, real, wt, crashes, reused>>
    BY DEF ClearStreamConflicted, gitVars
  <1>7. CASE status[s] = "conflicted" /\ Owns(p)
    <2>1. /\ status' = [status EXCEPT ![s] = "active"] /\ cid' = [cid EXCEPT ![s] = None]
      BY <1>7 DEF ClearStreamConflicted
    <2>2. /\ status' \in [Streams -> {"active", "paused", "conflicted", "abandoned"}]
          /\ cid' \in [Streams -> Conflicts \cup {None}]
          /\ status'[s] = "active" /\ cid'[s] = None
          /\ \A u \in Streams : u # s => status'[u] = status[u] /\ cid'[u] = cid[u]
      BY <1>2, <2>1 DEF TypeInv
    <2>3. TypeInv'
      BY <1>2, <1>4, <1>5, <1>6, <2>2 DEF TypeInv, Versions, CallRecord
    <2>4. QED
      BY <1>7, <2>2, <2>3
  <1>8. CASE ~ (status[s] = "conflicted" /\ Owns(p))
    <2>1. status' = status /\ cid' = cid
      BY <1>8 DEF ClearStreamConflicted
    <2>2. TypeInv'
      BY <1>2, <1>4, <1>5, <1>6, <2>1 DEF TypeInv, Versions, CallRecord
    <2>3. QED
      BY <1>8, <2>1, <2>2
  <1>9. QED
    BY <1>7, <1>8

LEMMA ClearKeeps ==
  ASSUME ConfInv, NEW p \in Procs, ClearStreamConflicted(p), Does(p, "clear")
  PROVE  ConfInv'
  <1> USE Literals
  <1>1. PICK s \in Streams : s = call[p].stream
    BY Doing
  <1>2. PICK v \in Versions : v = call[p].target
    BY Doing
  <1>3. /\ ThreadFree(p) /\ ~ Idle(p) /\ Head(call[p].todo) = "clear" /\ TypeInv /\ Done(p)
        /\ Moving(p) \/ Failing(p) \/ Ending(p) \/ Recovering(p)
    BY Doing DEF ConfInv, ClearStreamConflicted
  <1>4. Ending(p) /\ (Closed(p) \/ Finished(p))
    <2>1. Ending(p)
      BY <1>3 DEF Moving, Failing, Unrecorded, Unmarked, Aborting, Starting, Recovering
    <2>2. ~ Leaving(p) /\ ~ Left(p)
      BY <1>3 DEF Leaving, Left
    <2>3. QED
      BY <2>1, <2>2 DEF Ending
  <1>5. Owns(p)
    BY <1>3 DEF Owns, Does
  <1>6. /\ TypeInv' /\ status'[s] # "conflicted"
        /\ \A t \in Streams : t # s => status'[t] = status[t] /\ cid'[t] = cid[t]
        /\ cid'[s] \in {cid[s], None}
    BY <1>1, <1>5, ClearTypes
  <1>7. Unawaited(s) /\ (Clean => MainElsewhere(s))
    BY <1>1, <1>4 DEF Ending, Closed, Finished
  <1>8. UNCHANGED <<setting, base, rec, head, real, wt, crashes, reused>>
    BY DEF ClearStreamConflicted, gitVars
  <1>9. PICK t : Tail(call[p].todo) = t
    OBVIOUS
  <1>10. \/ t = <<>> /\ Closed(p)
         \/ t = <<"update_base">> /\ (Clean => real[s] = v)
    <2>1. PICK d : d = call[p].todo
      OBVIOUS
    <2>2. CASE Closed(p)
      <3>1. d = <<"clear">>
        BY <2>1, <2>2 DEF Closed
      <3>2. Tail(d) = <<>>
        BY <3>1
      <3>3. QED
        BY <1>9, <2>1, <2>2, <3>2
    <2>3. CASE Finished(p)
      <3>1. Head(<<"resolve", "clear", "update_base">>) = "resolve"
        OBVIOUS
      <3>2. d = <<"clear", "update_base">>
        BY <1>3, <2>1, <2>3, <3>1 DEF Finished
      <3>3. Clean => real[s] = v
        BY <1>1, <1>2, <2>3 DEF Finished
      <3>4. QED
        BY <1>9, <2>1, <3>2, <3>3
    <2>4. QED
      BY <1>4, <2>2, <2>3
  <1>11. /\ t = <<>> => Idle(p)' /\ ~ Active(p)' /\ ~ Awaiting(p)'
         /\ t # <<>> => /\ ~ Idle(p)' /\ call'[p].todo = t /\ call'[p].stream = s
                        /\ call'[p].target = v
         /\ ~ Idle(p)' => call'[p].stream = s
         /\ \A q \in Procs : q # p => call'[q] = call[q]
    BY <1>1, <1>2, <1>3, <1>9, DoneStep
  <1>12. LocalStep(p, s, None)
    <2>1. \A d \in Conflicts : ~ Attends(p, d)
      BY <1>3 DEF Attends
    <2>2. QED
      BY <1>1, <1>3, <1>6, <1>7, <1>8, <1>11, <2>1 DEF LocalStep, Unawaited
  <1>13. StreamOK(s)'
    BY <1>6, <1>8 DEF StreamOK, ConfInv
  <1>14. CASE t = <<>>
    <2>1. Closed(p)
      <3>1. t # <<"update_base">>
        BY <1>14
      <3>2. QED
        BY <1>10, <3>1
    <2>2. Clean => Calm(s)'
      BY <1>1, <1>6, <1>7, <1>8, <2>1 DEF Closed, Calm, Based, Named, MainKnows, MainElsewhere
    <2>3. QED
      BY <1>6, <1>11, <1>12, <1>13, <1>14, <2>2, LocalKeeps DEF AwaitOK, ActiveOK
  <1>15. CASE t = <<"update_base">> /\ (Clean => real[s] = v)
    <2>1. /\ ~ Idle(p)' /\ call'[p].todo = t /\ call'[p].stream = s /\ call'[p].target = v
      BY <1>11, <1>15
    <2>2. Active(p)' /\ ~ Awaiting(p)'
      BY <1>15, <2>1 DEF Active, Awaiting
    <2>3. Moving(p)'
      <3>1. Unawaited(s)'
        BY <1>7, <1>11, <2>2 DEF Unawaited, Awaiting, Idle
      <3>2. Clean' => Named(s)' /\ MainKnows(s)' /\ real'[s] = v
        BY <1>6, <1>7, <1>8, <1>15 DEF Clean, Named, MainKnows, MainElsewhere
      <3>3. QED
        BY <1>15, <2>1, <3>1, <3>2 DEF Moving
    <2>4. QED
      BY <1>6, <1>12, <1>13, <2>2, <2>3, LocalKeeps DEF AwaitOK, ActiveOK
  <1>16. QED
    BY <1>10, <1>14, <1>15

LEMMA RecoverClearKeeps ==
  ASSUME ConfInv, NEW p \in Procs, ClearStreamConflicted(p), Does(p, "recover_clear")
  PROVE  ConfInv'
  <1> USE Literals
  <1>1. PICK s \in Streams : s = call[p].stream
    BY Doing
  <1>2. /\ ThreadFree(p) /\ ~ Idle(p) /\ Active(p) /\ Head(call[p].todo) = "recover_clear"
        /\ TypeInv /\ Done(p)
        /\ Moving(p) \/ Failing(p) \/ Ending(p) \/ Recovering(p)
    BY Doing DEF ConfInv, ClearStreamConflicted
  <1>3. Recovering(p)
    BY <1>2 DEF Moving, Failing, Unrecorded, Unmarked, Aborting, Starting,
                Ending, Leaving, Left, Closed, Finished
  <1>4. PICK c \in Conflicts : c = call[p].conflict
    BY <1>3, Doing DEF Recovering
  <1>5. call[p].todo = <<"recover_clear">> /\ ~ Clean
    BY <1>2, <1>3 DEF Recovering
  <1>6. \A q \in Procs : Awaiting(q) => call[q].conflict # c
    BY <1>3, <1>4 DEF Recovering
  <1>7. PICK t : Tail(call[p].todo) = t
    OBVIOUS
  <1>8. t = <<>>
    BY <1>5, <1>7
  <1>9. /\ Idle(p)' /\ ~ Active(p)' /\ ~ Awaiting(p)'
        /\ \A q \in Procs : q # p => call'[q] = call[q]
    BY <1>2, <1>7, <1>8, DoneStep
  <1>10. UNCHANGED <<setting, base, rec, head, real, wt, crashes, reused>>
    BY DEF ClearStreamConflicted, gitVars
  <1>11. /\ TypeInv'
         /\ \A u \in Streams : \/ status'[u] = status[u] /\ cid'[u] = cid[u]
                               \/ status'[u] # "conflicted" /\ cid[u] = c /\ cid'[u] = None
    BY <1>1, <1>2, <1>4, ClearTypes DEF Owns
  <1>12. QED
    BY <1>2, <1>4, <1>5, <1>6, <1>9, <1>10, <1>11, RecoverKeeps DEF Active, ActiveOK

LEMMA ClearStreamConflictedKeeps ==
  ASSUME ConfInv, NEW p \in Procs, ClearStreamConflicted(p)
  PROVE  ConfInv'
  BY ClearKeeps, RecoverClearKeeps DEF ClearStreamConflicted
-----------------------------------------------------------------------------
(* The answer of a handler *)

LEMMA NobodyActive ==
  ASSUME ConfInv, NEW p \in Procs, ThreadFree(p), Idle(p) \/ Awaiting(p)
  PROVE  /\ \A q \in Procs : ~ Active(q)
         /\ Clean => \A s \in Streams : Calm(s)
  <1>1. \A q \in Procs : ~ Active(q)
    BY DEF ThreadFree, Active
  <1>2. QED
    BY <1>1 DEF ConfInv

LEMMA Answer ==
  ASSUME ConfInv, NEW p \in Procs, Does(p, "await")
  PROVE  /\ ThreadFree(p) /\ ~ Idle(p) /\ Awaiting(p)
         /\ call[p].stream \in Streams /\ call[p].conflict \in Conflicts
         /\ call[p].target \in Versions
         /\ status[call[p].stream] = "conflicted" /\ cid[call[p].stream] = call[p].conflict
         /\ Recorded(p)
         /\ \A q \in Procs : Awaiting(q) /\ call[q].stream = call[p].stream => p = q
         /\ Clean => Calm(call[p].stream) /\ MainIs(p) /\ Holds(p)
  <1>1. ThreadFree(p) /\ ~ Idle(p) /\ Awaiting(p)
    BY DEF Does, Awaiting
  <1>2. call[p].stream \in Streams /\ call[p] \in CallRecord
    BY <1>1 DEF ConfInv, TypeInv
  <1>3. Clean => Calm(call[p].stream)
    BY <1>1, <1>2, NobodyActive
  <1>4. QED
    BY <1>1, <1>2, <1>3 DEF ConfInv, AwaitOK, Recorded, CallRecord

LEMMA AnswerIsLocal ==
  ASSUME ConfInv, NEW p \in Procs, Does(p, "await"), NEW s \in Streams, s = call[p].stream,
         NEW c \in Conflicts, c = call[p].conflict,
         NEW t \in Todos, Proceed(p, t),
         UNCHANGED <<setting, head, base, status, cid, rec, crashes, reused>>,
         wt' \in [Procs -> [stream : Streams \cup {None}, onto : Versions, files : BOOLEAN]],
         real' \in [Streams -> Versions],
         \A q \in Procs : q # p => wt'[q] = wt[q],
         wt'[p].stream = None \/ wt'[p] = wt[p],
         Clean => \A u \in Streams : u # s => real'[u] = real[u]
  PROVE  /\ TypeInv' /\ LocalStep(p, s, c) /\ StreamOK(s)'
         /\ call'[p].todo = t /\ call'[p].stream = s /\ call'[p].conflict = c
         /\ call'[p].target = call[p].target /\ ~ Idle(p)'
         /\ \A q \in Procs : q # p => call'[q] = call[q]
         /\ Head(t) # "await" => Unawaited(s)' /\ Active(p)' /\ ~ Awaiting(p)'
  <1>1. TypeInv /\ t # <<>>
    BY TodoFacts DEF ConfInv
  <1>2. /\ call'[p].todo = t /\ call'[p].stream = s /\ call'[p].conflict = c
        /\ call'[p].target = call[p].target /\ ~ Idle(p)'
        /\ call' \in [Procs -> CallRecord]
        /\ \A q \in Procs : q # p => call'[q] = call[q]
    BY <1>1, ProceedTypes DEF Idle
  <1>3. TypeInv'
    <2>1. \A q \in Procs : ~ Idle(q)' => call'[q].stream \in Streams
      BY <1>1, <1>2, CallTypes
    <2>2. QED
      BY <1>1, <1>2, <2>1 DEF TypeInv, Versions, CallRecord
  <1>4. \A q \in Procs : q # p /\ Awaiting(q) => call[q].stream # s
    BY Answer
  <1>5. ThreadFree(p) /\ rec[c].stream = s
    BY Answer DEF Recorded
  <1>6. LocalStep(p, s, c)
    BY <1>2, <1>4, <1>5 DEF LocalStep, Attends
  <1>7. StreamOK(s)'
    BY DEF StreamOK, ConfInv
  <1>8. Head(t) # "await" => Unawaited(s)' /\ Active(p)' /\ ~ Awaiting(p)'
    BY <1>2, <1>4 DEF Unawaited, Awaiting, Idle, Active
  <1>9. QED
    BY <1>2, <1>3, <1>6, <1>7, <1>8

\* The rebase is given up.
LEMMA GiveUpKeeps ==
  ASSUME ConfInv, NEW p \in Procs, Does(p, "await"),
         NEW t \in {<<"abort", "abandon", "clear">>, <<"abort", "abandon">>}, Proceed(p, t),
         UNCHANGED <<setting, head, base, real, wt, status, cid, rec, crashes, reused>>
  PROVE  ConfInv'
  <1> USE Literals
  <1>1. PICK s \in Streams : s = call[p].stream
    BY Answer
  <1>2. PICK c \in Conflicts : c = call[p].conflict
    BY Answer
  <1>3. t \in Todos /\ Head(t) = "abort" /\ t # <<"abort">>
    <2>1. CASE t = <<"abort", "abandon">>
      <3>1. Tail(t) = <<"abandon">> /\ Head(t) = "abort"
        BY <2>1
      <3>2. Tail(<<"abort">>) = <<>> /\ <<"abandon">> # <<>>
        OBVIOUS
      <3>3. QED
        BY <2>1, <3>1, <3>2 DEF Todos, TwoLeft
    <2>2. CASE t = <<"abort", "abandon", "clear">>
      <3>1. Tail(t) = <<"abandon", "clear">> /\ Head(t) = "abort"
        BY <2>2
      <3>2. Tail(<<"abort">>) = <<>> /\ <<"abandon", "clear">> # <<>>
        OBVIOUS
      <3>3. QED
        BY <2>2, <3>1, <3>2 DEF Todos, ThreeLeft
    <2>3. QED
      BY <2>1, <2>2
  <1>4. TypeInv
    BY DEF ConfInv
  <1>5. /\ TypeInv' /\ LocalStep(p, s, c) /\ StreamOK(s)'
        /\ call'[p].todo = t /\ call'[p].stream = s /\ call'[p].conflict = c /\ ~ Idle(p)'
        /\ Unawaited(s)' /\ Active(p)' /\ ~ Awaiting(p)'
    <2>1. /\ wt' \in [Procs -> [stream : Streams \cup {None}, onto : Versions, files : BOOLEAN]]
          /\ real' \in [Streams -> Versions] /\ Head(t) # "await"
          /\ \A q \in Procs : wt'[q] = wt[q]
          /\ \A u \in Streams : real'[u] = real[u]
      BY <1>3, <1>4 DEF TypeInv
    <2>2. QED
      BY <1>1, <1>2, <1>3, <2>1, AnswerIsLocal
  <1>6. status[s] = "conflicted" /\ cid[s] = c /\ rec[c].stream = s
    BY <1>1, <1>2, Answer DEF Recorded
  <1>7. Clean => Based(s) /\ Named(s) /\ MainIs(p)
    BY <1>1, Answer DEF Calm
  <1>8. Ending(p)'
    <2>1. Theirs(p)' /\ Owned(p)'
      BY <1>5, <1>6 DEF Theirs, Owned
    <2>2. Clean' => Based(s)' /\ Named(s)' /\ MainIs(p)'
      BY <1>1, <1>5, <1>7 DEF Clean, Based, Named, Live, MainIs
    <2>3. Leaving(p)'
      BY <1>5, <2>2 DEF Leaving
    <2>4. QED
      BY <1>5, <2>1, <2>3 DEF Ending
  <1>9. Attended(c)'
    BY <1>3, <1>5 DEF Attended, Attends
  <1>10. QED
    BY <1>5, <1>8, <1>9, LocalKeeps DEF AwaitOK, ActiveOK

LEMMA HandlerFailsKeeps ==
  ASSUME ConfInv, NEW p \in Procs, HandlerFails(p)
  PROVE  ConfInv'
  BY GiveUpKeeps DEF HandlerFails, dbVars, gitVars

LEMMA HandlerSucceedsKeeps ==
  ASSUME ConfInv, NEW p \in Procs, HandlerSucceeds(p)
  PROVE  ConfInv'
  <1> USE Literals
  <1>1. Does(p, "await")
    BY DEF HandlerSucceeds
  <1>2. UNCHANGED <<setting, head, base, status, cid, rec, crashes, reused>>
    BY DEF HandlerSucceeds, dbVars
  <1>3. CASE Proceed(p, <<"abort", "abandon">>) /\ UNCHANGED <<real, wt>>
    BY <1>1, <1>2, <1>3, GiveUpKeeps
  <1>4. CASE /\ Rebasing(p) /\ ~ wt[p].files
             /\ real' = [real EXCEPT ![wt[p].stream] = wt[p].onto]
             /\ wt' = [wt EXCEPT ![p] = NoRebase]
             /\ Proceed(p, <<"resolve", "clear", "update_base">>)
    <2>1. PICK s \in Streams : s = call[p].stream
      BY <1>1, Answer
    <2>2. PICK c \in Conflicts : c = call[p].conflict
      BY <1>1, Answer
    <2>3. PICK v \in Versions : v = call[p].target
      BY <1>1, Answer
    <2>4. TypeInv /\ (Clean => wt[p].stream = s /\ wt[p].onto = v)
      BY <1>1, <1>4, <2>1, <2>3, Answer DEF Holds, ConfInv
    <2>5. PICK r \in Streams, o \in Versions : r = wt[p].stream /\ o = wt[p].onto
      BY <1>4, <2>4 DEF TypeInv, Rebasing
    <2>6. /\ real' \in [Streams -> Versions] /\ (Clean => real'[s] = v)
          /\ Clean => \A u \in Streams : u # s => real'[u] = real[u]
      <3>1. real' = [real EXCEPT ![r] = o]
        BY <1>4, <2>5
      <3>2. QED
        BY <2>4, <2>5, <3>1 DEF TypeInv
    <2>7. NoRebase \in [stream : Streams \cup {None}, onto : Versions, files : BOOLEAN]
          /\ NoRebase.stream = None
      BY <2>4 DEF NoRebase, Versions, TypeInv, Setting
    <2>8. /\ wt' \in [Procs -> [stream : Streams \cup {None}, onto : Versions, files : BOOLEAN]]
          /\ wt'[p].stream = None
          /\ \A q \in Procs : q # p => wt'[q] = wt[q]
      BY <1>4, <2>4, <2>7 DEF TypeInv
    <2>9. PICK t : t = <<"resolve", "clear", "update_base">>
      OBVIOUS
    <2>10. t \in Todos /\ Head(t) = "resolve" /\ t # <<"abort">>
      <3>1. Head(t) = "resolve" /\ Head(<<"abort">>) = "abort"
        BY <2>9
      <3>2. QED
        BY <2>9, <3>1 DEF Todos, ThreeLeft
    <2>11. /\ TypeInv' /\ LocalStep(p, s, c) /\ StreamOK(s)'
           /\ call'[p].todo = t /\ call'[p].stream = s /\ call'[p].conflict = c
           /\ call'[p].target = v /\ ~ Idle(p)'
           /\ Unawaited(s)' /\ Active(p)' /\ ~ Awaiting(p)'
      BY <1>1, <1>2, <1>4, <2>1, <2>2, <2>3, <2>6, <2>8, <2>9, <2>10, AnswerIsLocal
    <2>12. cid[s] = c /\ rec[c].stream = s /\ (Clean => MainIs(p))
      BY <1>1, <2>1, <2>2, Answer DEF Recorded
    <2>13. Ending(p)'
      <3>1. Theirs(p)' /\ Owned(p)'
        BY <1>2, <2>11, <2>12 DEF Theirs, Owned
      <3>2. Clean' => MainElsewhere(s)'
        BY <1>2, <2>1, <2>8, <2>12, ConflictsAssumption DEF Clean, MainIs, MainElsewhere
      <3>3. Finished(p)'
        BY <1>2, <2>6, <2>9, <2>11, <3>2 DEF Finished, Clean
      <3>4. QED
        BY <2>11, <3>1, <3>3 DEF Ending
    <2>14. Attended(c)'
      BY <2>10, <2>11 DEF Attended, Attends
    <2>15. QED
      BY <2>11, <2>13, <2>14, LocalKeeps DEF AwaitOK, ActiveOK
  <1>5. QED
    BY <1>3, <1>4 DEF HandlerSucceeds
-----------------------------------------------------------------------------
(* The beginning of a call *)

LEMMA BeginIsLocal ==
  ASSUME ConfInv, NEW p \in Procs, Free(p), NEW s \in Streams, Unawaited(s),
         NEW c \in Conflicts \cup {None}, NEW v \in Versions,
         NEW t \in Todos, Head(t) # "await", Begin(p, s, c, v, t),
         UNCHANGED <<setting, head, base, status, cid, rec, crashes>>, reused => reused', reused' \in BOOLEAN,
         wt' \in [Procs -> [stream : Streams \cup {None}, onto : Versions, files : BOOLEAN]],
         real' \in [Streams -> Versions],
         \A q \in Procs : q # p => wt'[q] = wt[q],
         Clean' => wt'[p].stream = None \/ wt'[p] = wt[p] \/ wt'[p].stream = s,
         \A u \in Streams : u # s => real'[u] = real[u]
  PROVE  /\ TypeInv' /\ LocalStep(p, s, None) /\ StreamOK(s)'
         /\ call'[p].todo = t /\ call'[p].stream = s /\ call'[p].conflict = c
         /\ call'[p].target = v
         /\ Unawaited(s)' /\ Active(p)' /\ ~ Awaiting(p)'
  <1>1. TypeInv /\ t # <<>> /\ Idle(p) /\ ThreadFree(p)
    BY TodoFacts DEF ConfInv, Free
  <1>2. /\ call'[p].todo = t /\ call'[p].stream = s /\ call'[p].conflict = c
        /\ call'[p].target = v /\ ~ Idle(p)'
        /\ call' \in [Procs -> CallRecord]
        /\ \A q \in Procs : q # p => call'[q] = call[q]
    <2>1. /\ call' \in [Procs -> CallRecord]
          /\ call'[p] = [todo |-> t, stream |-> s, conflict |-> c, target |-> v]
          /\ \A q \in Procs : q # p => call'[q] = call[q]
      BY <1>1, BeginTypes
    <2>2. PICK r : r = [todo |-> t, stream |-> s, conflict |-> c, target |-> v]
      OBVIOUS
    <2>3. r.todo = t /\ r.stream = s /\ r.conflict = c /\ r.target = v /\ call'[p] = r
      BY <2>1, <2>2
    <2>4. QED
      BY <1>1, <2>1, <2>3 DEF Idle
  <1>3. TypeInv'
    <2>1. \A q \in Procs : ~ Idle(q)' => call'[q].stream \in Streams
      BY <1>1, <1>2, CallTypes
    <2>2. QED
      BY <1>1, <1>2, <2>1 DEF TypeInv, Versions, CallRecord
  <1>4. \A d \in Conflicts : ~ Attends(p, d)
    BY <1>1 DEF Attends
  <1>5. LocalStep(p, s, None)
    BY <1>1, <1>2, <1>4 DEF LocalStep, Unawaited
  <1>6. StreamOK(s)'
    BY DEF StreamOK, ConfInv
  <1>7. Unawaited(s)' /\ Active(p)' /\ ~ Awaiting(p)'
    BY <1>2 DEF Unawaited, Awaiting, Idle, Active
  <1>8. QED
    BY <1>2, <1>3, <1>5, <1>6, <1>7

\* A call that begins with an end: with c the conflict of the stream.
LEMMA BeginToEnd ==
  ASSUME ConfInv, NEW p \in Procs, Free(p), NEW s \in Streams, Unawaited(s),
         NEW c, c = cid[s], NEW v \in Versions, NEW t \in Todos, Head(t) # "await",
         Begin(p, s, c, v, t),
         UNCHANGED <<setting, head, base, status, cid, rec, crashes, reused>>,
         wt' \in [Procs -> [stream : Streams \cup {None}, onto : Versions, files : BOOLEAN]],
         real' \in [Streams -> Versions],
         \A q \in Procs : q # p => wt'[q] = wt[q],
         wt'[p].stream = None \/ wt'[p] = wt[p],
         \A u \in Streams : u # s => real'[u] = real[u],
         \/ Leaving(p)' \/ Left(p)' \/ Finished(p)'
  PROVE  ConfInv'
  <1>1. TypeInv /\ StreamOK(s)
    BY DEF ConfInv
  <1>2. c \in Conflicts \cup {None}
    BY <1>1 DEF TypeInv
  <1>3. /\ TypeInv' /\ LocalStep(p, s, None) /\ StreamOK(s)'
        /\ call'[p].stream = s /\ call'[p].conflict = c
        /\ Unawaited(s)' /\ Active(p)' /\ ~ Awaiting(p)'
    <2>1. (reused => reused') /\ reused' \in BOOLEAN
      BY <1>1 DEF TypeInv
    <2>2. QED
      BY <1>2, <2>1, BeginIsLocal
  <1>4. Theirs(p)' /\ Owned(p)'
    BY <1>1, <1>3 DEF Theirs, Owned, StreamOK
  <1>5. Ending(p)'
    BY <1>3, <1>4 DEF Ending
  <1>6. QED
    BY <1>3, <1>5, LocalKeeps DEF AwaitOK, ActiveOK

\* A call that begins with a failed rebase.
LEMMA BeginFailing ==
  ASSUME ConfInv, NEW p \in Procs, Free(p), NEW s \in Streams, status[s] # "conflicted",
         NEW x \in {"abort", "manual", "ours", "agent", "async"},
         Begin(p, s, None, head, OnFailure(x)),
         UNCHANGED <<setting, head, base, real, status, cid, rec, crashes>>,
         reused' = (reused \/ Rebasing(p)),
         wt' \in [Procs -> [stream : Streams \cup {None}, onto : Versions, files : BOOLEAN]],
         \A q \in Procs : q # p => wt'[q] = wt[q],
         ~ Rebasing(p) => \/ wt'[p] = wt[p]
                          \/ wt'[p].stream = s /\ wt'[p].onto = head
  PROVE  ConfInv'
  <1> USE Literals
  <1>1. TypeInv /\ (reused => reused') /\ reused' \in BOOLEAN /\ (Clean' => ~ Rebasing(p))
    BY DEF ConfInv, TypeInv, Clean, Rebasing
  <1>2. Unawaited(s)
    BY DEF ConfInv, AwaitOK, Unawaited
  <1>3. PICK t : t = OnFailure(x)
    OBVIOUS
  <1>4. t \in {<<"create_late", "set_conflicted">>, <<"create", "set_conflicted", "abort">>,
               <<"create", "set_conflicted", "start", "await">>, <<"abort">>}
    BY <1>3 DEF OnFailure
  <1>5. t \in Todos /\ Head(t) # "await"
    <2>1. t \in Todos
      BY <1>4 DEF Todos, OneLeft, LastOnes, TwoLeft, ThreeLeft, FourLeft
    <2>2. Head(t) # "await"
      BY <1>4
    <2>3. QED
      BY <2>1, <2>2
  <1>6. PICK h \in Versions : h = head
    BY <1>1 DEF TypeInv
  <1>7. Begin(p, s, None, h, t)
    BY <1>3, <1>6
  <1>8. /\ TypeInv' /\ LocalStep(p, s, None) /\ StreamOK(s)'
        /\ call'[p].todo = t /\ call'[p].stream = s /\ call'[p].conflict = None
        /\ call'[p].target = h
        /\ Unawaited(s)' /\ Active(p)' /\ ~ Awaiting(p)'
    <2>1. /\ None \in Conflicts \cup {None} /\ real' \in [Streams -> Versions]
          /\ \A u \in Streams : u # s => real'[u] = real[u]
          /\ Clean' => wt'[p].stream = None \/ wt'[p] = wt[p] \/ wt'[p].stream = s
      BY <1>1 DEF TypeInv
    <2>2. QED
      BY <1>1, <1>2, <1>5, <1>7, <2>1, BeginIsLocal
  <1>9. Failing(p)'
    <2>1. Clean => Calm(s)
      BY NobodyActive DEF Free
    <2>2. Clean => Based(s)' /\ wt[Main].stream # s
      BY <2>1 DEF Calm, Based, MainKnows
    <2>3. Clean' => MainIs(p)'
      BY <1>8, <2>2, ConflictsAssumption DEF MainIs, Clean
    <2>4. Clean' => Holds(p)'
      BY <1>1, <1>6, <1>8 DEF Holds, Rebasing
    <2>5. Clean' => Based(s)'
      BY <2>2 DEF Clean
    <2>6. Unrecorded(p)' \/ Aborting(p)'
      BY <1>4, <1>6, <1>8 DEF Unrecorded, Aborting, Named
    <2>7. QED
      BY <1>8, <2>3, <2>4, <2>5, <2>6 DEF Failing
  <1>10. QED
    BY <1>8, <1>9, LocalKeeps DEF AwaitOK, ActiveOK

LEMMA RebaseOntoStreamKeeps ==
  ASSUME ConfInv, NEW p \in Procs, NEW s \in Streams,
         NEW x \in {"abort", "manual", "ours", "agent", "async"}, RebaseOntoStream(p, s, x)
  PROVE  ConfInv'
  <1> USE Literals
  <1>1. /\ Free(p) /\ status[s] # "conflicted" /\ TypeInv
        /\ UNCHANGED <<setting, head, base, status, cid, rec, crashes>>
        /\ reused' = (reused \/ Rebasing(p)) /\ (reused => reused') /\ reused' \in BOOLEAN
        /\ Clean' => Clean /\ ~ Rebasing(p)
    BY DEF Clean, TypeInv, Rebasing, RebaseOntoStream, Rebasable, dbVars, ConfInv
  <1>2. Unawaited(s)
    BY <1>1 DEF ConfInv, AwaitOK, Unawaited
  <1>3. PICK h \in Versions : h = head
    BY <1>1 DEF TypeInv
  <1>4. Clean => Calm(s)
    BY <1>1, NobodyActive DEF Free
  <1>5. ASSUME NEW t \in {<<"update_base", "reset">>, <<"update_base">>},
               Begin(p, s, None, h, t), UNCHANGED wt, real' \in [Streams -> Versions],
               \A u \in Streams : u # s => real'[u] = real[u],
               t = <<"update_base">> => real'[s] = h
        PROVE  ConfInv'
    <2>1. t \in Todos /\ Head(t) # "await"
      <3>1. t \in Todos
        BY DEF Todos, OneLeft, LastOnes, TwoLeft
      <3>2. CASE t = <<"update_base">>
        BY <3>1, <3>2
      <3>3. CASE t = <<"update_base", "reset">>
        BY <3>1, <3>3
      <3>4. QED
        BY <3>2, <3>3
    <2>2. /\ TypeInv' /\ LocalStep(p, s, None) /\ StreamOK(s)'
          /\ call'[p].todo = t /\ call'[p].stream = s /\ call'[p].conflict = None
          /\ call'[p].target = h
          /\ Unawaited(s)' /\ Active(p)' /\ ~ Awaiting(p)'
      <3>1. /\ None \in Conflicts \cup {None} /\ wt'[p] = wt[p]
            /\ wt' \in [Procs -> [stream : Streams \cup {None}, onto : Versions,
                                 files : BOOLEAN]]
            /\ \A q \in Procs : q # p => wt'[q] = wt[q]
            /\ real' \in [Streams -> Versions] /\ \A u \in Streams : u # s => real'[u] = real[u]
            /\ Begin(p, s, None, h, t)
        BY <1>1, <1>5 DEF TypeInv
      <3>2. /\ Free(p) /\ Unawaited(s)
            /\ UNCHANGED <<setting, head, base, status, cid, rec, crashes>>
            /\ (reused => reused') /\ reused' \in BOOLEAN
        BY <1>1, <1>2
      <3>3. QED
        BY <2>1, <3>1, <3>2, BeginIsLocal
    <2>3. Clean' => Named(s)' /\ MainKnows(s)' /\ ~ Rebasing(p)'
      BY <1>1, <1>4, <1>5 DEF Calm, Named, MainKnows, Live, Rebasing
    <2>4. \/ t = <<"update_base", "reset">> /\ (Clean' => ~ Rebasing(p)')
          \/ t = <<"update_base">> /\ (Clean' => real'[s] = h)
      BY <1>5, <2>3
    <2>5. Moving(p)'
      BY <2>2, <2>3, <2>4 DEF Moving
    <2>6. QED
      BY <2>2, <2>5, LocalKeeps DEF AwaitOK, ActiveOK
  <1>6. CASE Begin(p, s, None, head, <<"update_base", "reset">>) /\ UNCHANGED <<real, wt>>
    <2>1. PICK t : t = <<"update_base", "reset">>
      OBVIOUS
    <2>2. t # <<"update_base">>
      <3>1. Tail(t) = <<"reset">> /\ Tail(<<"update_base">>) = <<>> /\ <<"reset">> # <<>>
        BY <2>1
      <3>2. QED
        BY <3>1
    <2>3. QED
      BY <1>1, <1>3, <1>5, <1>6, <2>1, <2>2 DEF TypeInv
  <1>7. CASE /\ real' = [real EXCEPT ![s] = head]
             /\ Begin(p, s, None, head, <<"update_base">>) /\ UNCHANGED wt
    <2>1. /\ real' \in [Streams -> Versions] /\ real'[s] = h
          /\ \A u \in Streams : u # s => real'[u] = real[u]
      BY <1>1, <1>3, <1>7 DEF TypeInv
    <2>2. QED
      BY <1>3, <1>5, <1>7, <2>1
  <1>8. CASE /\ wt' = IF x = "abort" THEN wt
                      ELSE [wt EXCEPT ![p] = [stream |-> s, onto |-> head, files |-> TRUE]]
             /\ Begin(p, s, None, head, OnFailure(x)) /\ UNCHANGED real
    <2>1. CASE x = "abort"
      <3>1. wt' = wt
        BY <1>8, <2>1
      <3>2. QED
        BY <1>1, <1>8, <3>1, BeginFailing DEF TypeInv
    <2>2. CASE x # "abort"
      <3>1. PICK r : r = [stream |-> s, onto |-> h, files |-> TRUE]
        OBVIOUS
      <3>2. /\ r \in [stream : Streams \cup {None}, onto : Versions, files : BOOLEAN]
            /\ r.stream = s /\ r.onto = h
        BY <3>1
      <3>3. wt' = [wt EXCEPT ![p] = r]
        BY <1>3, <1>8, <2>2, <3>1
      <3>4. /\ wt' \in [Procs -> [stream : Streams \cup {None}, onto : Versions, files : BOOLEAN]]
            /\ \A q \in Procs : q # p => wt'[q] = wt[q]
            /\ wt'[p].stream = s /\ wt'[p].onto = head
        BY <1>1, <1>3, <3>2, <3>3 DEF TypeInv
      <3>5. QED
        BY <1>1, <1>8, <3>4, BeginFailing
    <2>3. QED
      BY <2>1, <2>2
  <1>9. CASE Begin(p, s, None, head, OnFailure(x)) /\ UNCHANGED <<real, wt>>
    BY <1>1, <1>9, BeginFailing DEF TypeInv
  <1>10. CASE wt' = CheckedOut(p, real[s]) /\ Begin(p, s, None, head, OnFailure(x)) /\ UNCHANGED real
    <2>1. PICK v \in Versions : v = real[s]
      BY <1>1 DEF TypeInv
    <2>2. wt' = CheckedOut(p, v)
      BY <1>10, <2>1
    <2>3. /\ wt' \in [Procs -> [stream : Streams \cup {None}, onto : Versions, files : BOOLEAN]]
          /\ \A q \in Procs : q # p => wt'[q] = wt[q]
          /\ ~ Rebasing(p) => wt'[p] = wt[p]
      BY <1>1, <2>2, CheckedOutTypes
    <2>4. QED
      BY <1>1, <1>10, <2>3, BeginFailing
  <1>11. QED
    BY <1>6, <1>7, <1>8, <1>9, <1>10 DEF RebaseOntoStream

\* What a careful caller knows of the stream.
LEMMA Managed ==
  ASSUME ConfInv, NEW p \in Procs, NEW s \in Streams, Free(p), MayManage(p, s)
  PROVE  /\ TypeInv /\ Unawaited(s) /\ StreamOK(s)
         /\ wt[Main].stream = s => p = Main
         /\ wt[p].stream \in {s, None}
         /\ Clean => Based(s) /\ Named(s) /\ MainKnows(s)
  <1>1. Clean => Calm(s)
    BY NobodyActive DEF Free
  <1>2. QED
    BY <1>1, ConflictsAssumption DEF ConfInv, MayManage, Unawaited, Calm

LEMMA LeavingKeeps ==
  ASSUME ConfInv, NEW p \in Procs, NEW s \in Streams, Free(p), MayManage(p, s),
         NEW t \in {<<"abort_seen", "abandon", "clear">>, <<"abort_seen", "delete", "clear">>},
         Begin(p, s, cid[s], 0, t),
         UNCHANGED <<setting, head, base, real, status, cid, rec, wt, crashes, reused>>
  PROVE  ConfInv'
  <1> USE Literals
  <1>1. PICK c \in Conflicts \cup {None} : c = cid[s]
    BY Managed DEF TypeInv
  <1>2. /\ TypeInv /\ Unawaited(s) /\ 0 \in Versions
    BY Managed DEF TypeInv, Versions, Setting
  <1>3. t \in Todos /\ Head(t) # "await"
    <2>1. t \in Todos
      BY DEF Todos, ThreeLeft
    <2>2. CASE t = <<"abort_seen", "abandon", "clear">>
      BY <2>1, <2>2
    <2>3. CASE t = <<"abort_seen", "delete", "clear">>
      BY <2>1, <2>3
    <2>4. QED
      BY <2>2, <2>3
  <1>4. call'[p].todo = t /\ call'[p].stream = s
    <2>1. call' = [call EXCEPT ![p] = [todo |-> t, stream |-> s, conflict |-> c, target |-> 0]]
      BY <1>1, <1>2, <1>3, TodoFacts DEF Begin
    <2>2. QED
      BY <1>2, <2>1 DEF TypeInv
  <1>5. Leaving(p)'
    <2>1. Clean' => Based(s)' /\ Named(s)' /\ MainIs(p)'
      BY <1>4, Managed DEF Clean, Based, Named, Live, MainIs
    <2>2. QED
      BY <1>4, <2>1 DEF Leaving
  <1>6. QED
    BY <1>1, <1>2, <1>3, <1>5, BeginToEnd DEF TypeInv

LEMMA LeftKeeps ==
  ASSUME ConfInv, NEW p \in Procs, NEW s \in Streams, Free(p), MayManage(p, s),
         wt[Main].stream # s,
         NEW t \in {<<"abandon", "clear">>, <<"delete", "clear">>},
         Begin(p, s, cid[s], 0, t),
         UNCHANGED <<setting, head, base, real, status, cid, rec, wt, crashes, reused>>
  PROVE  ConfInv'
  <1> USE Literals
  <1>1. PICK c \in Conflicts \cup {None} : c = cid[s]
    BY Managed DEF TypeInv
  <1>2. /\ TypeInv /\ Unawaited(s) /\ 0 \in Versions
    BY Managed DEF TypeInv, Versions, Setting
  <1>3. t \in Todos /\ Head(t) # "await"
    <2>1. t \in Todos
      BY DEF Todos, TwoLeft
    <2>2. CASE t = <<"abandon", "clear">>
      BY <2>1, <2>2
    <2>3. CASE t = <<"delete", "clear">>
      BY <2>1, <2>3
    <2>4. QED
      BY <2>2, <2>3
  <1>4. call'[p].todo = t /\ call'[p].stream = s
    <2>1. call' = [call EXCEPT ![p] = [todo |-> t, stream |-> s, conflict |-> c, target |-> 0]]
      BY <1>1, <1>2, <1>3, TodoFacts DEF Begin
    <2>2. QED
      BY <1>2, <2>1 DEF TypeInv
  <1>5. Left(p)'
    <2>1. Clean' => Based(s)' /\ Named(s)' /\ MainElsewhere(s)'
      BY Managed DEF Clean, Based, Named, Live, MainElsewhere
    <2>2. QED
      BY <1>4, <2>1 DEF Left
  <1>6. QED
    BY <1>1, <1>2, <1>3, <1>5, BeginToEnd DEF TypeInv

LEMMA AbortConflictedRebaseKeeps ==
  ASSUME ConfInv, NEW p \in Procs, NEW s \in Streams, AbortConflictedRebase(p, s)
  PROVE  ConfInv'
  BY LeavingKeeps DEF AbortConflictedRebase, dbVars, gitVars

LEMMA ClearConflictKeeps ==
  ASSUME ConfInv, NEW p \in Procs, NEW s \in Streams, ClearConflict(p, s)
  PROVE  ConfInv'
  <1>1. /\ Free(p) /\ MayManage(p, s)
        /\ UNCHANGED <<setting, head, base, real, status, cid, rec, wt, crashes, reused>>
    BY DEF ClearConflict, dbVars, gitVars
  <1>2. CASE Begin(p, s, cid[s], 0, <<"abort_seen", "delete", "clear">>)
    BY <1>1, <1>2, LeavingKeeps
  <1>3. CASE NotRebasing(s) /\ Begin(p, s, cid[s], 0, <<"delete", "clear">>)
    BY <1>1, <1>3, LeftKeeps, ConflictsAssumption DEF NotRebasing
  <1>4. QED
    BY <1>2, <1>3 DEF ClearConflict

LEMMA ContinueRebaseKeeps ==
  ASSUME ConfInv, NEW p \in Procs, NEW s \in Streams, ContinueRebase(p, s)
  PROVE  ConfInv'
  <1> USE Literals
  <1>1. /\ Free(p) /\ MayManage(p, s) /\ status[s] = "conflicted"
        /\ UNCHANGED <<setting, head, base, status, cid, rec, crashes, reused>>
    BY DEF ContinueRebase, dbVars
  <1>2. /\ TypeInv /\ Unawaited(s)
        /\ wt[Main].stream = s => p = Main
        /\ wt[p].stream \in {s, None}
    BY <1>1, Managed
  <1>3. CASE /\ ~ RebaseSeen(p) /\ UNCHANGED <<real, wt>>
             /\ Begin(p, s, cid[s], 0, <<"abandon", "clear">>)
    <2>1. wt[Main].stream # s
      BY <1>2, <1>3, ConflictsAssumption DEF RebaseSeen, Rebasing
    <2>2. QED
      BY <1>1, <1>3, <2>1, LeftKeeps
  <1>4. CASE /\ RebaseSeen(p) /\ ~ wt[p].files
             /\ real' = [real EXCEPT ![wt[p].stream] = wt[p].onto]
             /\ wt' = [wt EXCEPT ![p] = NoRebase]
             /\ Begin(p, s, cid[s], TargetOf(cid[s]), <<"resolve", "clear", "update_base">>)
    <2>1. PICK c \in Conflicts : c = cid[s]
      BY <1>1, <1>2, Managed DEF TypeInv, StreamOK
    <2>2. PICK o \in Versions : o = wt[p].onto
      BY <1>2 DEF TypeInv
    <2>3. PICK v \in Versions : v = TargetOf(c)
      BY <1>2 DEF TargetOf, TypeInv
    <2>4. p = Main /\ wt[p].stream = s
      BY <1>2, <1>4 DEF RebaseSeen, Rebasing
    <2>5. Clean => v = o
      <3>1. Clean => Live(c) /\ rec[c].target = o
        BY <1>1, <2>1, <2>2, <2>4, Managed DEF Named, MainKnows
      <3>2. Live(c) => TargetOf(c) = rec[c].target
        BY ConflictsAssumption DEF TargetOf, Live
      <3>3. QED
        BY <2>3, <3>1, <3>2
    <2>6. real' = [real EXCEPT ![s] = o]
      BY <1>4, <2>2, <2>4
    <2>7. /\ real' \in [Streams -> Versions] /\ real'[s] = o
          /\ \A u \in Streams : u # s => real'[u] = real[u]
      BY <1>2, <2>6 DEF TypeInv
    <2>8. NoRebase \in [stream : Streams \cup {None}, onto : Versions, files : BOOLEAN]
          /\ NoRebase.stream = None
      BY <1>2 DEF NoRebase, Versions, TypeInv, Setting
    <2>9. /\ wt' \in [Procs -> [stream : Streams \cup {None}, onto : Versions, files : BOOLEAN]]
          /\ wt'[p].stream = None
          /\ \A q \in Procs : q # p => wt'[q] = wt[q]
      BY <1>2, <1>4, <2>8 DEF TypeInv
    <2>10. PICK t : t = <<"resolve", "clear", "update_base">>
      OBVIOUS
    <2>11. t \in Todos /\ Head(t) # "await"
      <3>1. Head(t) = "resolve"
        BY <2>10
      <3>2. QED
        BY <2>10, <3>1 DEF Todos, ThreeLeft
    <2>12. Begin(p, s, c, v, t)
      BY <1>4, <2>1, <2>3, <2>10
    <2>13. call'[p].todo = t /\ call'[p].stream = s /\ call'[p].target = v
      <3>1. call' = [call EXCEPT ![p] = [todo |-> t, stream |-> s, conflict |-> c, target |-> v]]
        BY <2>11, <2>12, TodoFacts DEF Begin
      <3>2. QED
        BY <1>2, <3>1 DEF TypeInv
    <2>14. Finished(p)'
      <3>1. Clean' => real'[s] = v /\ MainElsewhere(s)'
        BY <1>1, <2>4, <2>5, <2>7, <2>9, ConflictsAssumption DEF Clean, MainElsewhere
      <3>2. QED
        BY <2>10, <2>13, <3>1 DEF Finished
    <2>15. QED
      BY <1>1, <1>2, <2>1, <2>7, <2>9, <2>11, <2>12, <2>14, BeginToEnd
  <1>5. CASE wt' = [wt EXCEPT ![p].files = TRUE] /\ UNCHANGED <<real, call>> /\ RebaseSeen(p)
    <2>1. PICK r \in [stream : Streams \cup {None}, onto : Versions, files : BOOLEAN] :
            r = wt[p]
      BY <1>2 DEF TypeInv
    <2>2. PICK n : n = [r EXCEPT !.files = TRUE]
      OBVIOUS
    <2>3. /\ n \in [stream : Streams \cup {None}, onto : Versions, files : BOOLEAN]
          /\ n.stream = r.stream /\ n.onto = r.onto
      BY <2>2
    <2>4. wt' = [wt EXCEPT ![p] = n]
      BY <1>5, <2>1, <2>2
    <2>5. /\ wt' \in [Procs -> [stream : Streams \cup {None}, onto : Versions, files : BOOLEAN]]
          /\ wt'[p] = n /\ \A q \in Procs : q # p => wt'[q] = wt[q]
      BY <1>2, <2>3, <2>4 DEF TypeInv
    <2>6. n.stream = s /\ p = Main
      BY <1>2, <1>5, <2>1, <2>3 DEF RebaseSeen, Rebasing
    <2>7. TypeInv'
      BY <1>1, <1>2, <1>5, <2>5 DEF TypeInv, Versions, CallRecord, Idle
    <2>8. Idle(p) /\ Idle(p)' /\ ThreadFree(p)
      BY <1>1, <1>5 DEF Free, Idle
    <2>9. LocalStep(p, s, None)
      BY <1>1, <1>2, <1>5, <2>5, <2>6, <2>8 DEF LocalStep, Unawaited, Attends
    <2>10. StreamOK(s)' /\ AwaitOK(p)' /\ ActiveOK(p)'
      BY <1>1, <2>8, Managed DEF StreamOK, AwaitOK, ActiveOK, Awaiting, Active
    <2>11. Clean => Calm(s)'
      <3>1. wt'[Main].onto = wt[Main].onto
        BY <2>1, <2>3, <2>5, <2>6
      <3>2. Clean => Based(s) /\ Named(s) /\ rec[cid[s]].target = wt[Main].onto
        BY <1>1, <2>1, <2>3, <2>6, Managed DEF MainKnows
      <3>3. QED
        BY <1>1, <1>5, <3>1, <3>2 DEF Calm, Based, Named, Live, MainKnows
    <2>12. QED
      BY <2>7, <2>9, <2>10, <2>11, LocalKeeps
  <1>6. QED
    BY <1>3, <1>4, <1>5 DEF ContinueRebase
\* Of a history without crashes it is not one: somebody attends every conflict in progress.
LEMMA RecoverOrphanedConflictsKeeps ==
  ASSUME ConfInv, NEW p \in Procs, NEW c \in Conflicts, RecoverOrphanedConflicts(p, c)
  PROVE  ConfInv'
  <1> USE Literals
  <1>1. /\ TypeInv /\ ThreadFree(p) /\ Idle(p) /\ rec[c].status = "in_progress"
        /\ UNCHANGED <<setting, head, base, real, status, cid, rec, wt, crashes, reused>>
        /\ \A q \in Procs : Awaiting(q) => call[q].conflict # c
    BY DEF RecoverOrphanedConflicts, Free, dbVars, gitVars, ConfInv
  <1>2. ~ Clean
    <2>1. \A q \in Procs : ~ Attends(q, c)
      BY <1>1 DEF Attends, ThreadFree
    <2>2. QED
      BY <1>1, <2>1 DEF ConfInv, Attended
  <1>3. PICK s \in Streams : s = rec[c].stream
    BY <1>1 DEF TypeInv
  <1>4. PICK t : t = <<"abandon", "recover_clear">>
    OBVIOUS
  <1>5. t \in Todos /\ 0 \in Versions /\ Head(t) = "abandon"
    <2>1. Head(t) = "abandon"
      BY <1>4
    <2>2. QED
      BY <1>1, <1>4, <2>1 DEF Todos, TwoLeft, TypeInv, Versions, Setting
  <1>6. Begin(p, s, c, 0, t)
    BY <1>3, <1>4 DEF RecoverOrphanedConflicts
  <1>7. /\ call'[p].todo = t /\ call'[p].stream = s /\ call'[p].conflict = c
        /\ call' \in [Procs -> CallRecord]
        /\ \A q \in Procs : q # p => call'[q] = call[q]
    <2>1. /\ call' \in [Procs -> CallRecord]
          /\ call'[p] = [todo |-> t, stream |-> s, conflict |-> c, target |-> 0]
          /\ \A q \in Procs : q # p => call'[q] = call[q]
      BY <1>1, <1>5, <1>6, BeginTypes
    <2>2. PICK r : r = [todo |-> t, stream |-> s, conflict |-> c, target |-> 0]
      OBVIOUS
    <2>3. r.todo = t /\ r.stream = s /\ r.conflict = c /\ call'[p] = r
      BY <2>1, <2>2
    <2>4. QED
      BY <2>1, <2>3
  <1>8. ~ Awaiting(p) /\ ~ Awaiting(p)'
    BY <1>1, <1>5, <1>7 DEF Awaiting
  <1>9. TypeInv'
    <2>1. \A q \in Procs : ~ Idle(q)' => call'[q].stream \in Streams
      BY <1>1, <1>7, CallTypes
    <2>2. QED
      BY <1>1, <1>7, <2>1 DEF TypeInv, Versions, CallRecord
  <1>10. ActiveOK(p)'
    <2>1. \A q \in Procs : Awaiting(q)' => call'[q].conflict # c
      BY <1>1, <1>7, <1>8 DEF Awaiting, Idle
    <2>2. c # None /\ ~ Clean'
      BY <1>1, <1>2, ConflictsAssumption DEF Clean
    <2>3. Recovering(p)'
      BY <1>4, <1>7, <2>1, <2>2 DEF Recovering
    <2>4. QED
      BY <2>3 DEF ActiveOK
  <1>11. QED
    BY <1>1, <1>2, <1>7, <1>8, <1>9, <1>10, RecoverKeeps

-----------------------------------------------------------------------------
(* Everything else *)

\* What an agent does to the files of a rebase is of no matter.
LEMMA FilesKeep ==
  ASSUME ConfInv, UNCHANGED <<setting, head, real, base, status, cid, rec, call, crashes, reused>>,
         wt' \in [Procs -> [stream : Streams \cup {None}, onto : Versions, files : BOOLEAN]],
         \A q \in Procs : wt'[q].stream = wt[q].stream /\ wt'[q].onto = wt[q].onto
  PROVE  ConfInv'
  <1>1. UNCHANGED <<setting, head, real, base, status, cid, rec, call, crashes, reused>> /\ TypeInv
    BY DEF ConfInv
  <1>2. wt' \in [Procs -> [stream : Streams \cup {None}, onto : Versions, files : BOOLEAN]]
    OBVIOUS
  <1>3. \A q \in Procs : wt'[q].stream = wt[q].stream /\ wt'[q].onto = wt[q].onto
    OBVIOUS
  <1>4. TypeInv'
    BY <1>1, <1>2 DEF TypeInv, Versions, CallRecord, Idle
  <1>5. \A q \in Procs : /\ Idle(q)' <=> Idle(q)
                         /\ Awaiting(q)' <=> Awaiting(q)
                         /\ Active(q)' <=> Active(q)
    BY <1>1 DEF Idle, Awaiting, Active
  <1>6. /\ \A q \in Procs : (Holds(q)' <=> Holds(q)) /\ (MainIs(q)' <=> MainIs(q))
        /\ \A s \in Streams : /\ MainKnows(s)' <=> MainKnows(s)
                              /\ MainElsewhere(s)' <=> MainElsewhere(s)
                              /\ Named(s)' <=> Named(s)
                              /\ Based(s)' <=> Based(s)
                              /\ Unawaited(s)' <=> Unawaited(s)
                              /\ StreamOK(s)' <=> StreamOK(s)
    BY <1>1, <1>3, <1>5, ConflictsAssumption
       DEF Holds, MainIs, MainKnows, MainElsewhere, Named, Based, Unawaited, StreamOK, Live,
           Rebasing
  <1>7. \A q \in Procs : /\ Recorded(q)' <=> Recorded(q)
                         /\ Owned(q)' <=> Owned(q)
                         /\ Theirs(q)' <=> Theirs(q)
    BY <1>1 DEF Recorded, Owned, Theirs, Live
  <1>8. ASSUME NEW q \in Procs PROVE AwaitOK(q)'
    BY <1>1, <1>5, <1>6, <1>7 DEF ConfInv, AwaitOK, Clean
  <1>9. ASSUME NEW q \in Procs, Active(q) PROVE ActiveOK(q)'
    <2>1. call[q].stream \in Streams
      BY <1>1, <1>9 DEF TypeInv, Active
    <2>2. Moving(q) => Moving(q)'
      BY <1>1, <1>6, <2>1 DEF Moving, Clean, Rebasing
    <2>3. Failing(q) => Failing(q)'
      BY <1>1, <1>6, <1>7, <2>1
         DEF Failing, Clean, Unrecorded, Unmarked, Aborting, Starting
    <2>4. Ending(q) => Ending(q)'
      <3>1. /\ Leaving(q) => Leaving(q)'
            /\ Left(q) => Left(q)'
            /\ Closed(q) => Closed(q)'
            /\ Finished(q) => Finished(q)'
        BY <1>1, <1>6, <2>1 DEF Clean, Leaving, Left, Closed, Finished, Over
      <3>2. QED
        BY <1>1, <1>6, <1>7, <2>1, <3>1 DEF Ending
    <2>5. Recovering(q) => Recovering(q)'
      BY <1>1, <1>5 DEF Recovering, Clean, Over
    <2>6. QED
      BY <1>9, <2>2, <2>3, <2>4, <2>5 DEF ConfInv, ActiveOK
  <1>10. \A q \in Procs : ActiveOK(q)'
    BY <1>5, <1>9 DEF ActiveOK
  <1>11. /\ \A c \in Conflicts : Attended(c)' <=> Attended(c)
         /\ \A s \in Streams : Calm(s)' <=> Calm(s)
    BY <1>1, <1>6 DEF Attended, Attends, Idle, Calm
  <1>12. QED
    BY <1>1, <1>4, <1>5, <1>6, <1>8, <1>10, <1>11 DEF ConfInv, OneActive, Clean

LEMMA ResolveFilesKeeps ==
  ASSUME ConfInv, NEW p \in Procs, ResolveFiles(p)
  PROVE  ConfInv'
  <1>1. UNCHANGED <<setting, head, real, base, status, cid, rec, call, crashes, reused>> /\ TypeInv
    BY DEF ResolveFiles, dbVars, ConfInv
  <1>2. PICK r \in [stream : Streams \cup {None}, onto : Versions, files : BOOLEAN] : r = wt[p]
    BY <1>1 DEF TypeInv
  <1>3. PICK n : n = [r EXCEPT !.files = FALSE]
    OBVIOUS
  <1>4. /\ n \in [stream : Streams \cup {None}, onto : Versions, files : BOOLEAN]
        /\ n.stream = r.stream /\ n.onto = r.onto
    BY <1>3
  <1>5. wt' = [wt EXCEPT ![p] = n]
    BY <1>2, <1>3 DEF ResolveFiles
  <1>6. wt' \in [Procs -> [stream : Streams \cup {None}, onto : Versions, files : BOOLEAN]]
    BY <1>1, <1>4, <1>5 DEF TypeInv
  <1>7. \A q \in Procs : wt'[q].stream = wt[q].stream /\ wt'[q].onto = wt[q].onto
    BY <1>1, <1>2, <1>4, <1>5 DEF TypeInv
  <1>8. QED
    BY <1>1, <1>6, <1>7, FilesKeep

LEMMA StutterKeeps == ConfInv /\ UNCHANGED vars => ConfInv'
  <1> SUFFICES ASSUME ConfInv, UNCHANGED vars PROVE ConfInv'
    OBVIOUS
  <1>1. /\ UNCHANGED <<setting, head, real, base, status, cid, rec, call, crashes, reused>>
        /\ wt' = wt
    BY DEF vars
  <1>2. wt' \in [Procs -> [stream : Streams \cup {None}, onto : Versions, files : BOOLEAN]]
    BY <1>1 DEF ConfInv, TypeInv, Versions
  <1>3. QED
    BY <1>1, <1>2, FilesKeep

LEMMA ChangeStatusKeeps ==
  ASSUME ConfInv, NEW s \in Streams, ChangeStatus(s)
  PROVE  ConfInv'
  <1>1. UNCHANGED <<setting, head, base, real, cid, rec, wt, call, crashes, reused>> /\ TypeInv
    BY DEF ChangeStatus, gitVars, ConfInv
  <1>2. PICK new \in {"active", "paused", "abandoned"} : status' = [status EXCEPT ![s] = new]
    BY DEF ChangeStatus, PauseStream, ResumeStream, AbandonStream
  <1>3. /\ status' \in [Streams -> {"active", "paused", "conflicted", "abandoned"}]
        /\ status'[s] # "conflicted"
        /\ \A t \in Streams : t # s => status'[t] = status[t]
    BY <1>1, <1>2 DEF TypeInv
  <1>4. TypeInv'
    BY <1>1, <1>3 DEF TypeInv, Versions, CallRecord, Idle
  <1>5. \A q \in Procs : /\ ~ Active(q) /\ ~ Active(q)'
                         /\ Awaiting(q)' <=> Awaiting(q)
    BY <1>1 DEF ChangeStatus, Quiet, Idle, Awaiting, Active
  <1>6. \A q \in Procs : Awaiting(q) => call[q].stream # s
    <2>1. CASE status[s] \in {"active", "paused"}
      BY <2>1 DEF ConfInv, AwaitOK
    <2>2. CASE AbandonStream(s)
      BY <2>2 DEF AbandonStream
    <2>3. QED
      BY <2>1, <2>2 DEF ChangeStatus, PauseStream, ResumeStream
  <1>7. ASSUME NEW q \in Procs PROVE AwaitOK(q)'
    <2>1. SUFFICES ASSUME Awaiting(q)' PROVE AwaitOK(q)'
      BY DEF AwaitOK
    <2>2. Awaiting(q) /\ AwaitOK(q) /\ call[q].stream # s /\ call[q].stream \in Streams
      BY <1>1, <1>5, <1>6, <2>1 DEF ConfInv, TypeInv, Awaiting
    <2>3. status'[call[q].stream] = status[call[q].stream]
      BY <1>3, <2>2
    <2>4. /\ Recorded(q)' <=> Recorded(q)
          /\ Holds(q)' <=> Holds(q)
          /\ MainIs(q)' <=> MainIs(q)
          /\ Clean' <=> Clean
      BY <1>1 DEF Recorded, Holds, MainIs, Clean, Live, Rebasing
    <2>5. QED
      BY <1>1, <1>5, <2>2, <2>3, <2>4 DEF AwaitOK
  <1>8. ASSUME NEW t \in Streams PROVE StreamOK(t)'
    BY <1>1, <1>3 DEF ConfInv, StreamOK
  <1>9. ASSUME Clean, NEW t \in Streams PROVE Calm(t)'
    <2>1. Calm(t)
      BY <1>5, <1>9 DEF ConfInv
    <2>2. CASE t # s
      <3>1. status'[t] = status[t]
        BY <1>3, <2>2
      <3>2. QED
        BY <1>1, <2>1, <3>1 DEF Calm, Based, Named, MainKnows, Live
    <2>3. CASE t = s
      <3>1. wt[Main].stream # s
        <4>1. CASE AbandonStream(s)
          BY <4>1, ConflictsAssumption DEF AbandonStream, NotRebasing
        <4>2. CASE status[s] \in {"active", "paused"}
          BY <2>1, <2>3, <4>2 DEF Calm, MainKnows
        <4>3. QED
          BY <4>1, <4>2 DEF ChangeStatus, PauseStream, ResumeStream
      <3>2. QED
        BY <1>1, <1>3, <2>1, <2>3, <3>1 DEF Calm, Based, Named, MainKnows
    <2>4. QED
      BY <2>2, <2>3
  <1>10. \A c \in Conflicts : Attended(c)' <=> Attended(c)
    BY <1>1 DEF Attended, Attends, Idle
  <1>11. QED
    BY <1>1, <1>4, <1>5, <1>7, <1>8, <1>9, <1>10 DEF ConfInv, OneActive, ActiveOK, Clean

LEMMA AdvanceKeeps == ConfInv /\ Advance => ConfInv'
  <1> SUFFICES ASSUME ConfInv, Advance PROVE ConfInv'
    OBVIOUS
  <1>1. UNCHANGED <<setting, base, real, status, cid, rec, wt, call, crashes, reused>> /\ TypeInv
    BY DEF Advance, dbVars, ConfInv
  <1>2. head' \in Versions
    BY <1>1 DEF Advance, TypeInv, Versions, Setting
  <1>3. TypeInv'
    BY <1>1, <1>2 DEF TypeInv, Versions, CallRecord, Idle
  <1>4. \A q \in Procs : /\ ~ Active(q)'
                         /\ Awaiting(q)' <=> Awaiting(q)
                         /\ ~ Active(q)
    BY <1>1 DEF Advance, Quiet, Idle, Awaiting, Active
  <1>5. \A q \in Procs : AwaitOK(q)'
    BY <1>1, <1>4 DEF ConfInv, AwaitOK, Recorded, Holds, MainIs, Clean, Live, Rebasing
  <1>6. \A t \in Streams : StreamOK(t)' /\ (Clean => Calm(t)')
    BY <1>1, <1>4 DEF ConfInv, StreamOK, Calm, Based, Named, MainKnows, Live
  <1>7. \A c \in Conflicts : Attended(c)' <=> Attended(c)
    BY <1>1 DEF Attended, Attends, Idle
  <1>8. QED
    BY <1>1, <1>3, <1>4, <1>5, <1>6, <1>7 DEF ConfInv, OneActive, ActiveOK, Clean
\* A crash ends the clean history, and whatever the call was about stays as it is.
LEMMA CrashKeeps ==
  ASSUME ConfInv, NEW p \in Procs, Crash(p)
  PROVE  ConfInv'
  <1>1. /\ UNCHANGED <<setting, head, base, real, status, cid, rec, wt, reused>> /\ TypeInv
        /\ call' = [call EXCEPT ![p] = NoCall] /\ crashes' = crashes + 1
        /\ crashes < setting.crashes
    BY DEF Crash, dbVars, gitVars, ConfInv
  <1>2. /\ call' \in [Procs -> CallRecord] /\ call'[p] = NoCall
        /\ \A q \in Procs : q # p => call'[q] = call[q]
    BY <1>1, NoCallType DEF TypeInv
  <1>3. crashes' \in 0 .. setting.crashes /\ ~ Clean'
    BY <1>1 DEF TypeInv, Setting, Clean
  <1>4. Idle(p)' /\ ~ Active(p)' /\ ~ Awaiting(p)'
    BY <1>2 DEF NoCall, Idle, Active, Awaiting
  <1>5. TypeInv'
    <2>1. \A q \in Procs : ~ Idle(q)' => call'[q].stream \in Streams
      BY <1>1, <1>2, <1>4, CallTypes
    <2>2. QED
      BY <1>1, <1>2, <1>3, <2>1 DEF TypeInv, Versions, CallRecord
  <1>6. \A q \in Procs : q # p => /\ Idle(q)' <=> Idle(q)
                                  /\ Awaiting(q)' <=> Awaiting(q)
                                  /\ Active(q)' <=> Active(q)
    BY <1>2 DEF Idle, Awaiting, Active
  <1>7. OneActive' /\ \A s \in Streams : StreamOK(s)'
    BY <1>1, <1>4, <1>6 DEF ConfInv, OneActive, StreamOK
  <1>8. ASSUME NEW q \in Procs PROVE AwaitOK(q)'
    <2>1. SUFFICES ASSUME Awaiting(q)' PROVE AwaitOK(q)'
      BY DEF AwaitOK
    <2>2. q # p /\ Awaiting(q) /\ AwaitOK(q) /\ call'[q] = call[q]
      BY <1>2, <1>4, <1>6, <2>1 DEF ConfInv
    <2>3. Recorded(q)'
      BY <1>1, <2>2 DEF AwaitOK, Recorded, Live
    <2>4. \A r \in Procs : Awaiting(r)' /\ call'[r].stream = call[q].stream => q = r
      BY <1>2, <1>4, <1>6, <2>2 DEF AwaitOK
    <2>5. QED
      BY <1>1, <1>3, <2>2, <2>3, <2>4 DEF AwaitOK
  <1>9. ASSUME NEW q \in Procs PROVE ActiveOK(q)'
    <2>1. SUFFICES ASSUME Active(q)' PROVE ActiveOK(q)'
      BY DEF ActiveOK
    <2>2. /\ q # p /\ call'[q] = call[q]
          /\ Moving(q) \/ Failing(q) \/ Ending(q) \/ Recovering(q)
      BY <1>2, <1>4, <1>6, <2>1 DEF ConfInv, ActiveOK
    <2>3. \A r \in Procs : Awaiting(r)' => Awaiting(r) /\ call'[r] = call[r]
      BY <1>2, <1>4, <1>6
    <2>4. \A s : Unawaited(s) => Unawaited(s)'
      BY <2>3 DEF Unawaited
    <2>5. /\ Recorded(q)' <=> Recorded(q)
          /\ Holds(q)' <=> Holds(q)
          /\ Owned(q)' <=> Owned(q)
          /\ Theirs(q)' <=> Theirs(q)
      BY <1>1, <2>2 DEF Recorded, Holds, Owned, Theirs, Live, Rebasing
    <2>6. Moving(q) => Moving(q)'
      BY <1>1, <1>3, <2>2, <2>4 DEF Moving
    <2>7. Failing(q) => Failing(q)'
      BY <1>1, <1>3, <2>2, <2>4, <2>5
         DEF Failing, Unrecorded, Unmarked, Aborting, Starting
    <2>8. Ending(q) => Ending(q)'
      BY <1>1, <1>3, <2>2, <2>4, <2>5 DEF Ending, Leaving, Left, Closed, Finished, Over
    <2>9. Recovering(q) => Recovering(q)'
      BY <1>1, <1>3, <2>2, <2>3 DEF Recovering, Over
    <2>10. QED
      BY <2>2, <2>6, <2>7, <2>8, <2>9 DEF ActiveOK
  <1>10. QED
    BY <1>3, <1>5, <1>7, <1>8, <1>9 DEF ConfInv

LEMMA InitConf == Init => ConfInv
  <1> SUFFICES ASSUME Init PROVE ConfInv
    OBVIOUS
  <1>1. TypeInv
    BY InitTypes
  <1>2. \A p \in Procs : Idle(p) /\ ~ Awaiting(p) /\ ~ Active(p)
    BY DEF Init, NoCall, Idle, Awaiting, Active
  <1>3. \A p \in Procs : wt[p].stream = None
    BY DEF Init, NoRebase
  <1>4. \A s \in Streams : StreamOK(s) /\ Calm(s)
    BY <1>3, ConflictsAssumption DEF Init, StreamOK, Calm, Based, Named, MainKnows
  <1>5. \A c \in Conflicts : Attended(c)
    BY DEF Init, Unused, Attended
  <1>6. QED
    BY <1>1, <1>2, <1>4, <1>5 DEF ConfInv, OneActive, AwaitOK, ActiveOK

LEMMA NextConf == ConfInv /\ [Next]_vars => ConfInv'
  <1> SUFFICES ASSUME ConfInv, [Next]_vars PROVE ConfInv'
    OBVIOUS
  <1>1. setting.streams \subseteq Streams
    BY DEF ConfInv, TypeInv, Setting
  <1>2. ASSUME NEW p \in Procs, Call(p) PROVE ConfInv'
    BY <1>1, <1>2, RebaseOntoStreamKeeps, ContinueRebaseKeeps, AbortConflictedRebaseKeeps,
       ClearConflictKeeps, RecoverOrphanedConflictsKeeps DEF Call
  <1>3. ASSUME NEW p \in Procs, Statement(p) PROVE ConfInv'
    BY <1>3, CreateConflictKeeps, SetStreamConflictedKeeps, UpdateConflictKeeps, RebaseAbortKeeps,
       ClearStreamConflictedKeeps, UpdateBaseCommitKeeps, ResetHardKeeps DEF Statement
  <1>4. ASSUME NEW p \in Procs, HandlerFails(p) \/ HandlerSucceeds(p) PROVE ConfInv'
    BY <1>4, HandlerFailsKeeps, HandlerSucceedsKeeps
  <1>5. ASSUME NEW p \in Procs, ResolveFiles(p) \/ Crash(p) PROVE ConfInv'
    BY <1>5, ResolveFilesKeeps, CrashKeeps
  <1>6. ASSUME NEW s \in setting.streams, ChangeStatus(s) PROVE ConfInv'
    BY <1>1, <1>6, ChangeStatusKeeps
  <1>7. QED
    BY <1>2, <1>3, <1>4, <1>5, <1>6, AdvanceKeeps, StutterKeeps DEF Next

LEMMA ConfAlways == Spec => []ConfInv
  BY InitConf, NextConf, PTL DEF Spec

-----------------------------------------------------------------------------
(* What follows *)

LEMMA ConfGivesConflict == ConfInv => ConflictInv
  <1> SUFFICES ASSUME ConfInv PROVE ConflictInv
    OBVIOUS
  <1>1. TypeOK
    BY TypesOK DEF ConfInv
  <1>2. ConflictedHasRecord
    <2>1. SUFFICES ASSUME Quiet, Clean, NEW s \in Streams, status[s] = "conflicted"
                   PROVE  /\ cid[s] # None /\ rec[cid[s]].stream = s
                          /\ rec[cid[s]].status \in {"pending", "in_progress", "abandoned"}
      BY DEF ConflictedHasRecord, Clean, Careful
    <2>2. Calm(s) /\ StreamOK(s) /\ cid[s] \in Conflicts \cup {None}
      BY <2>1 DEF ConfInv, Quiet, Active, TypeInv
    <2>3. cid[s] # None => rec[cid[s]].status \in ConflictStatus
      BY <2>2 DEF ConfInv, TypeInv
    <2>4. QED
      BY <2>1, <2>2, <2>3 DEF Calm, Named, Live, StreamOK, ConflictStatus
  <1>3. ResolvedWasRebased
    <2>1. SUFFICES ASSUME Clean, NEW p \in Procs, ~ Idle(p), Head(call[p].todo) = "resolve"
                   PROVE  real[call[p].stream] = call[p].target
      BY DEF ResolvedWasRebased, Clean, Careful
    <2>2. Moving(p) \/ Failing(p) \/ Ending(p) \/ Recovering(p)
      BY <2>1 DEF ConfInv, ActiveOK, Active, Awaiting
    <2>3. Finished(p)
      BY <2>1, <2>2, Literals
         DEF Moving, Failing, Unrecorded, Unmarked, Aborting, Starting,
             Ending, Leaving, Left, Closed, Recovering
    <2>4. QED
      BY <2>1, <2>3 DEF Finished
  <1>4. QED
    BY <1>1, <1>2, <1>3 DEF ConflictInv

LEMMA ConfGivesBase == ConfInv => BaseCommitTrue
  <1> SUFFICES ASSUME ConfInv, Quiet, Clean PROVE base = real
    BY DEF BaseCommitTrue, Clean, Careful
  <1>1. \A s \in Streams : base[s] = real[s]
    BY DEF ConfInv, Quiet, Active, Calm, Based
  <1>2. QED
    BY <1>1 DEF ConfInv, TypeInv

\* The only statement that makes a conflicted stream active closes no open conflict.
LEMMA ClearedStep ==
  ASSUME ConfInv, [Next]_vars, NEW s \in Streams, status[s] = "conflicted", status'[s] = "active"
  PROVE  rec[cid[s]].status \notin {"pending", "in_progress"}
  <1>1. TypeInv /\ status' # status
    BY DEF ConfInv
  <1>2. PICK p \in Procs : ClearStreamConflicted(p)
    <2>1. ASSUME NEW p \in Procs, Call(p) PROVE status' = status
      BY <2>1 DEF Call, RebaseOntoStream, ContinueRebase, AbortConflictedRebase, ClearConflict,
                  RecoverOrphanedConflicts, dbVars
    <2>2. ASSUME NEW p \in Procs, Statement(p) PROVE ClearStreamConflicted(p)
      <3>1. CASE SetStreamConflicted(p)
        <4>1. status'[s] \in {status[s], "conflicted"}
          BY <1>1, <3>1 DEF SetStreamConflicted, TypeInv
        <4>2. QED
          BY <4>1
      <3>2. QED
        BY <1>1, <2>2, <3>1 DEF Statement, CreateConflict, UpdateConflict, RebaseAbort,
                                UpdateBaseCommit, ResetHard, dbVars
    <2>3. ASSUME NEW p \in Procs,
                 HandlerFails(p) \/ HandlerSucceeds(p) \/ ResolveFiles(p) \/ Crash(p)
          PROVE  status' = status
      BY <2>3 DEF HandlerFails, HandlerSucceeds, ResolveFiles, Crash, dbVars
    <2>4. ASSUME NEW u \in setting.streams, ChangeStatus(u) PROVE FALSE
      <3>1. u \in Streams
        BY <1>1, <2>4 DEF TypeInv, Setting
      <3>2. status'[s] = status[s] \/ status'[s] \in {"paused", "abandoned"} \/ status[s] = "paused"
        BY <1>1, <2>4, <3>1 DEF ChangeStatus, PauseStream, ResumeStream, AbandonStream, TypeInv
      <3>3. QED
        BY <3>2
    <2>5. QED
      BY <1>1, <2>1, <2>2, <2>3, <2>4 DEF Next, Advance, vars, dbVars
  <1>3. s = call[p].stream /\ Owns(p)
    <2>1. PICK u \in Streams : u = call[p].stream
      BY <1>2, Doing DEF ClearStreamConflicted
    <2>2. QED
      BY <1>2, <2>1, ClearTypes
  <1>4. PICK x \in {"clear", "recover_clear"} : Does(p, x)
    BY <1>2 DEF ClearStreamConflicted
  <1>5. /\ Head(call[p].todo) = x
        /\ Moving(p) \/ Failing(p) \/ Ending(p) \/ Recovering(p)
    BY <1>4, Doing
  <1>6. CASE Ending(p)
    <2>1. cid[s] = call[p].conflict
      BY <1>3, <1>6 DEF Ending, Theirs
    <2>2. Over(call[p].conflict)
      BY <1>3, <1>5, <1>6, Literals DEF Ending, Leaving, Left, Closed, Finished
    <2>3. QED
      BY <2>1, <2>2 DEF Over
  <1>7. CASE Recovering(p)
    <2>1. x = "recover_clear" /\ Over(call[p].conflict)
      BY <1>5, <1>7, Literals DEF Recovering
    <2>2. cid[s] = call[p].conflict
      BY <1>3, <1>4, <2>1 DEF Owns
    <2>3. QED
      BY <2>1, <2>2 DEF Over
  <1>8. QED
    BY <1>5, <1>6, <1>7, Literals DEF Moving, Failing, Unrecorded, Unmarked, Aborting, Starting

\* As long as no call was cut short or made where a rebase was left behind: between calls a
\* conflicted stream names a record of its own that is not closed as resolved, and what
\* continueRebase and the handler of rebaseOntoStreamAsync mark resolved is a rebase onto the
\* target of the conflict.
THEOREM ConflictsAreSound == Spec => []ConflictInv
  BY ConfAlways, ConfGivesConflict, PTL

\* base_commit is what each branch is based on in git, whatever the agents did while handlers
\* were at work, as long as no call was cut short or made where a rebase was left behind
\* (updateBaseCommit, git rebase --continue, git reset).
THEOREM BaseCommitIsTrue == Spec => []BaseCommitTrue
  BY ConfAlways, ConfGivesBase, PTL

\* Nothing but clearStreamConflicted makes a conflicted stream active, and it finds the conflict
\* resolved, abandoned or deleted, crashes and recovery included.
THEOREM ConflictsAreClosedFirst == Spec => ClearedIsOver
  <1>1. ConfInv /\ [Next]_vars =>
          [\A s \in Streams : status[s] = "conflicted" /\ status'[s] = "active" =>
             rec[cid[s]].status \notin {"pending", "in_progress"}]_vars
    BY ClearedStep
  <1>2. QED
    BY <1>1, ConfAlways, PTL DEF Spec, ClearedIsOver
=============================================================================
