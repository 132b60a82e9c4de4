-------------------------- MODULE InProcessProofs ---------------------------
(***************************************************************************)
(* Theorems about InProcess, for every set of activities, runs and         *)
(* deliveries, however deeply the runs nest.                               *)
(***************************************************************************)
EXTENDS InProcess, SequenceTheorems, TLAPS

-----------------------------------------------------------------------------
(***************************************************************************)
(* Lemmas about the scopes of one activity.                                *)
(***************************************************************************)

\* What leaving the innermost scope leaves as it was.
LEMMA Quit ==
    ASSUME NEW S, NEW s \in Seq(S), s # <<>>
    PROVE  /\ SubSeq(s, 1, Len(s) - 1) \in Seq(S)
           /\ Len(SubSeq(s, 1, Len(s) - 1)) = Len(s) - 1
           /\ \A k \in 1..(Len(s) - 1) : SubSeq(s, 1, Len(s) - 1)[k] = s[k]
           /\ Len(s) \in Nat \ {0}
           /\ \A k \in 1..Len(s) : s[k] \in S
           /\ SubSeq(s, 1, Len(s) - 1) = <<>> <=> Len(s) = 1
PROOF
<1>1. Len(s) \in Nat \ {0}
  BY EmptySeq
<1>2. \A k \in 1..Len(s) : s[k] \in S
  BY ElementOfSeq
<1>3. \A k \in 1..(Len(s) - 1) : s[k] \in S
  BY <1>1, <1>2, SMT
<1> DEFINE n == Len(s)
           t == SubSeq(s, 1, n - 1)
<1>4. /\ t \in Seq(S)
      /\ Len(t) = IF 1 <= n - 1 THEN (n - 1) - 1 + 1 ELSE 0
      /\ \A k \in 1..(n - 1) - 1 + 1 : t[k] = s[1 + k - 1]
  <2>1. 1 \in Int /\ n - 1 \in Int
    BY <1>1, SMT
  <2>2. QED
    BY <1>3, <2>1, SubSeqProperties
<1>5. n \in Nat \ {0} /\ (t = <<>> => Len(t) = 0) /\ (Len(t) = 0 => t = <<>>)
  BY <1>1, <1>4, EmptySeq
<1>6. /\ Len(t) = n - 1
      /\ \A k \in 1..(n - 1) : t[k] = s[k]
      /\ t = <<>> <=> n = 1
  <2> HIDE DEF n, t
  <2>1. Len(t) = n - 1
    BY <1>4, <1>5
  <2>2. \A k \in 1..(n - 1) : k \in 1..(n - 1) - 1 + 1 /\ 1 + k - 1 = k
    BY <1>5
  <2>3. \A k \in 1..(n - 1) : t[k] = s[k]
    BY <1>4, <2>2, Zenon
  <2>4. QED
    BY <1>5, <2>1, <2>3
<1>7. QED
  BY <1>1, <1>2, <1>4, <1>6

\* The loop of an activity: its own run's while it is in one, else the one it was spawned on.
LEMMA LoopOfType ==
    ASSUME TypeOK, NEW a \in Activities
    PROVE  /\ LoopOf(a) \in Loops
           /\ LoopOf(a) = NoLoop => /\ loop[a] = NoLoop
                                    /\ \A i \in DOMAIN frames[a] : ~frames[a][i].own
PROOF
<1> DEFINE own == {i \in DOMAIN frames[a] : frames[a][i].own}
<1>1. frames[a] \in Seq(Frames)
  BY DEF TypeOK
<1>2. \A i \in DOMAIN frames[a] : frames[a][i] \in Frames
  BY <1>1, ElementOfSeq, LenProperties
<1>3. CASE own = {}
  <2>1. LoopOf(a) = loop[a]
    BY <1>3 DEF LoopOf
  <2>2. QED
    BY <1>3, <2>1 DEF TypeOK
<1>4. CASE own # {}
  <2>1. PICK i \in own : LoopOf(a) = frames[a][i].run
    BY <1>4 DEF LoopOf
  <2>2. LoopOf(a) \in Runs
    BY <1>2, <2>1 DEF Frames
  <2>3. QED
    BY <2>2, InProcessAssumption DEF Loops
<1>5. QED
  BY <1>3, <1>4

-----------------------------------------------------------------------------
(***************************************************************************)
(* Type correctness.                                                       *)
(***************************************************************************)

\* TypeOK is an invariant of InProcess.
THEOREM TypeCorrect == Spec => []TypeOK
PROOF
<1>1. Init => TypeOK
  <2> SUFFICES ASSUME Init
               PROVE  TypeOK
    OBVIOUS
  <2>1. 0 \in 0..MaxEdits /\ NoLoop \in Loops /\ Main \in Loops
    BY InProcessAssumption, SMT DEF Loops
  <2>2. frames \in [Activities -> Seq(Frames)]
    BY EmptySeq DEF Init
  <2>3. QED
    BY <2>1, <2>2 DEF Init, TypeOK
<1>2. TypeOK /\ [Next]_vars => TypeOK'
  <2> SUFFICES ASSUME TypeOK, [Next]_vars
               PROVE  TypeOK'
    OBVIOUS
  <2> USE DEF runVars, deliveryVars
  <2>1. ASSUME NEW a \in Activities, NEW r \in Runs, NEW own \in BOOLEAN, PushImmediate(a, r, own)
        PROVE  TypeOK'
    <3>1. [run |-> r, token |-> current[a], own |-> own] \in Frames
      BY DEF TypeOK, Frames
    <3>2. Append(frames[a], [run |-> r, token |-> current[a], own |-> own]) \in Seq(Frames)
      BY <3>1, AppendProperties DEF TypeOK
    <3>3. QED
      BY <2>1, <3>2 DEF TypeOK, PushImmediate
  <2>2. ASSUME NEW a \in Activities, NEW how, Finish(a, how)
        PROVE  TypeOK'
    <3>1. frames[a] \in Seq(Frames) /\ frames[a] # <<>>
      BY <2>2 DEF TypeOK, Finish, InFrame
    <3>2. Top(a) \in Frames /\ SubSeq(frames[a], 1, Len(frames[a]) - 1) \in Seq(Frames)
      BY <3>1, Quit DEF Top
    <3>3. Top(a).token \in Runs \cup {NoRun} /\ Top(a).run \in Runs /\ Top(a).own \in BOOLEAN
      BY <3>2 DEF Frames
    <3>4. current' \in [Activities -> Runs \cup {NoRun}]
      BY <2>2, <3>3 DEF TypeOK, Finish, Reset
    <3>5. frames' \in [Activities -> Seq(Frames)]
      BY <2>2, <3>2, EmptySeq DEF TypeOK, Finish
    <3>6. /\ status' \in [Activities -> {"unused", "active", "ended"}]
          /\ delivery' \in [Deliveries ->
                               {"unpushed", "scheduled", "sending", "done", "freed", "lost"}]
          /\ held' \subseteq Deliveries /\ closed' \subseteq Runs
      BY <2>2, <3>3 DEF TypeOK, Finish
    <3>7. QED
      BY <2>2, <3>4, <3>5, <3>6 DEF TypeOK, Finish
  <2>3. ASSUME NEW a \in Activities, NEW b \in Activities, NEW thread \in BOOLEAN,
               Spawn(a, b, thread)
        PROVE  TypeOK'
    <3>1. LoopOf(a) \in Loops /\ NoLoop \in Loops
      BY LoopOfType DEF Loops
    <3>2. base' \in [Activities -> Runs \cup {NoRun}] /\ base'[b] \in Runs \cup {NoRun}
      BY <2>3 DEF TypeOK, Spawn
    <3>3. QED
      BY <2>3, <3>1, <3>2 DEF TypeOK, Spawn
  <2>4. ASSUME NEW a \in Activities, End(a)
        PROVE  TypeOK'
    BY <2>4 DEF TypeOK, End
  <2>5. ASSUME NEW a \in Activities, NEW d \in Deliveries, NEW sync \in BOOLEAN,
               PushRemote(a, d, sync)
        PROVE  TypeOK'
    BY <2>5, LoopOfType DEF TypeOK, PushRemote, Hold, Loops
  <2>6. ASSUME NEW d \in Deliveries, Edit(d) \/ SetTimeout(d)
        PROVE  TypeOK'
    <3>1. CASE Edit(d)
      <4>1. args[d] + 1 \in 0..MaxEdits
        BY <3>1, InProcessAssumption DEF TypeOK, Edit
      <4>2. args' \in [Deliveries -> 0..MaxEdits]
        BY <3>1, <4>1 DEF TypeOK, Edit
      <4>3. QED
        BY <3>1, <4>2 DEF TypeOK, Edit
    <3>2. CASE SetTimeout(d)
      <4>1. timed' \in [Deliveries -> BOOLEAN]
        BY <3>2, Zenon DEF TypeOK, SetTimeout
      <4>2. QED
        BY <3>2, <4>1 DEF TypeOK, SetTimeout
    <3>3. QED
      BY <2>6, <3>1, <3>2
  <2>7. ASSUME NEW d \in Deliveries, Send(d) \/ Delivered(d) \/ Discard(d) \/ Collect(d)
        PROVE  TypeOK'
    <3>1. CASE Send(d)
      <4>1. posted[d] \cup {Body(d)} \in SUBSET (0..MaxEdits)
        BY DEF TypeOK, Body
      <4>2. QED
        BY <3>1, <4>1 DEF TypeOK, Send
    <3>2. CASE Delivered(d) \/ Discard(d) \/ Collect(d)
      BY <3>2 DEF TypeOK, Delivered, Discard, Collect
    <3>3. QED
      BY <2>7, <3>1, <3>2
  <2>8. CASE Exit
    BY <2>8 DEF TypeOK, Exit
  <2>9. CASE UNCHANGED vars
    BY <2>9 DEF TypeOK, vars
  <2>10. QED
    BY <2>1, <2>2, <2>3, <2>4, <2>5, <2>6, <2>7, <2>8, <2>9 DEF Next
<1>3. QED
  BY <1>1, <1>2, PTL DEF Spec

-----------------------------------------------------------------------------
(***************************************************************************)
(* The task context.                                                       *)
(***************************************************************************)

\* Each token holds what the scope below set, the lowest what the activity began with; only a
\* thread runs a loop of its own, so that asyncio.run never ends the activity that called it.
Nested(a) ==
    /\ status[a] = "unused" => frames[a] = <<>>
    /\ \A k \in 1..Len(frames[a]) :
          /\ frames[a][k].own => loop[a] = NoLoop
          /\ frames[a][k].token = IF k = 1 THEN base[a] ELSE frames[a][k - 1].run
    /\ current[a] = IF InFrame(a) THEN Top(a).run ELSE base[a]

ContextInv == \A a \in Activities : Nested(a)

\* A step that leaves an activity's scopes alone leaves it nested.
LEMMA NestedFrame ==
    ASSUME NEW b \in Activities, Nested(b),
           frames'[b] = frames[b], current'[b] = current[b], base'[b] = base[b],
           loop'[b] = loop[b], status'[b] = "unused" => status[b] = "unused"
    PROVE  Nested(b)'
PROOF
  BY DEF Nested, InFrame, Top

\* An activity outside of every scope is nested if it has what it began with.
LEMMA NestedOutside ==
    ASSUME NEW b \in Activities, frames'[b] = <<>>, current'[b] = base'[b]
    PROVE  Nested(b)'
PROOF
<1>1. Len(frames'[b]) = 0
  BY EmptySeq
<1>2. QED
  BY <1>1 DEF Nested, InFrame

LEMMA PushNests ==
    ASSUME TypeOK, ContextInv, NEW a \in Activities, NEW r \in Runs, NEW own \in BOOLEAN,
           PushImmediate(a, r, own)
    PROVE  ContextInv'
PROOF
<1> DEFINE e == [run |-> r, token |-> current[a], own |-> own]
           n == Len(frames[a])
<1>1. e \in Frames /\ frames[a] \in Seq(Frames)
  BY DEF TypeOK, Frames
<1>2. /\ frames'[a] = Append(frames[a], e)
      /\ current'[a] = r
      /\ base' = base /\ loop' = loop /\ status' = status
  BY DEF PushImmediate, TypeOK, runVars
<1>3. /\ n \in Nat
      /\ Len(frames'[a]) = n + 1 /\ frames'[a] # <<>>
      /\ frames'[a][n + 1] = e
      /\ \A k \in 1..n : frames'[a][k] = frames[a][k]
  BY <1>1, <1>2, AppendProperties, LenProperties
<1>4. current[a] = IF n = 0 THEN base[a] ELSE frames[a][n].run
  <2>1. frames[a] = <<>> <=> n = 0
    BY <1>1, EmptySeq
  <2>2. QED
    BY <2>1 DEF ContextInv, Nested, InFrame, Top
<1>5. Nested(a)'
  <2>1. status'[a] # "unused"
    BY <1>2 DEF PushImmediate, Runnable
  <2>2. current'[a] = IF InFrame(a)' THEN Top(a)'.run ELSE base'[a]
    BY <1>2, <1>3 DEF InFrame, Top
  <2>3. own => loop[a] = NoLoop
    BY LoopOfType DEF PushImmediate
  <2>4. ASSUME NEW k \in 1..(n + 1)
        PROVE  /\ frames'[a][k].own => loop[a] = NoLoop
               /\ frames'[a][k].token = IF k = 1 THEN base[a] ELSE frames'[a][k - 1].run
    <3>1. CASE k \in 1..n
      <4>1. frames'[a][k] = frames[a][k] /\ (k # 1 => frames'[a][k - 1] = frames[a][k - 1])
        <5>1. k # 1 => k - 1 \in 1..n
          BY <1>3, <3>1
        <5> HIDE DEF n
        <5>2. QED
          BY <1>3, <3>1, <5>1
      <4>2. /\ frames[a][k].own => loop[a] = NoLoop
            /\ frames[a][k].token = IF k = 1 THEN base[a] ELSE frames[a][k - 1].run
        BY <3>1 DEF ContextInv, Nested
      <4>3. QED
        BY <4>1, <4>2
    <3>2. CASE k = n + 1
      <4>1. frames'[a][k].own = own /\ frames'[a][k].token = current[a]
        BY <1>3, <3>2
      <4>2. n # 0 => frames'[a][n] = frames[a][n]
        BY <1>3
      <4>3. (k = 1 <=> n = 0) /\ k - 1 = n
        BY <1>3, <3>2
      <4>4. QED
        BY <1>4, <2>3, <4>1, <4>2, <4>3
    <3>3. QED
      BY <1>3, <3>1, <3>2
  <2>5. QED
    BY <1>2, <1>3, <2>1, <2>2, <2>4 DEF Nested
<1>6. ASSUME NEW b \in Activities, b # a
      PROVE  Nested(b)'
  <2>1. frames'[b] = frames[b] /\ current'[b] = current[b]
    BY <1>6 DEF PushImmediate, TypeOK
  <2>2. QED
    BY <1>2, <2>1, NestedFrame DEF ContextInv
<1>7. QED
  BY <1>5, <1>6 DEF ContextInv

LEMMA FinishNests ==
    ASSUME TypeOK, ContextInv, NEW a \in Activities, NEW how, Finish(a, how)
    PROVE  ContextInv'
PROOF
<1> DEFINE s == frames[a]
           n == Len(frames[a])
           t == SubSeq(frames[a], 1, Len(frames[a]) - 1)
           left == {b \in Activities : Top(a).own /\ loop[b] = Top(a).run /\ status[b] = "active"}
<1>1. s \in Seq(Frames) /\ s # <<>>
  BY DEF TypeOK, Finish, InFrame
<1>2. /\ t \in Seq(Frames) /\ Len(t) = n - 1
      /\ \A k \in 1..(n - 1) : t[k] = s[k]
      /\ n \in Nat \ {0}
      /\ \A k \in 1..n : s[k] \in Frames
      /\ t = <<>> <=> n = 1
  BY <1>1, Quit
<1>3. Top(a) = s[n] /\ n \in 1..n
  BY <1>2 DEF Top
<1>4. a \notin left
  <2>1. Top(a).own => loop[a] = NoLoop
    BY <1>3 DEF ContextInv, Nested
  <2>2. Top(a).run # NoLoop
    BY <1>2, <1>3, InProcessAssumption DEF Frames
  <2>3. QED
    BY <2>1, <2>2
<1>5. /\ base' = base /\ loop' = loop
      /\ status' = [b \in Activities |-> IF b \in left THEN "ended" ELSE status[b]]
      /\ current' = [b \in Activities |->
            CASE b = a -> Top(a).token [] b \in left -> base[b] [] OTHER -> current[b]]
      /\ frames' = [b \in Activities |->
            CASE b = a -> t [] b \in left -> <<>> [] OTHER -> frames[b]]
  BY DEF Finish, Reset
<1>6. Nested(a)'
  <2>1. frames'[a] = t /\ current'[a] = s[n].token /\ status'[a] = status[a] /\ status[a] # "unused"
    BY <1>3, <1>4, <1>5 DEF Finish, Runnable
  <2>2. s[n].token = IF n = 1 THEN base[a] ELSE s[n - 1].run
    BY <1>3 DEF ContextInv, Nested
  <2>3. InFrame(a)' <=> n # 1
    BY <1>2, <2>1 DEF InFrame
  <2>4. n # 1 => Top(a)' = s[n - 1]
    BY <1>2, <2>1 DEF Top
  <2>5. current'[a] = IF InFrame(a)' THEN Top(a)'.run ELSE base'[a]
    BY <1>5, <2>1, <2>2, <2>3, <2>4
  <2>6. ASSUME NEW k \in 1..(n - 1)
        PROVE  /\ t[k].own => loop[a] = NoLoop
               /\ t[k].token = IF k = 1 THEN base[a] ELSE t[k - 1].run
    <3>1. t[k] = s[k] /\ (k # 1 => t[k - 1] = s[k - 1]) /\ k \in 1..n
      BY <1>2
    <3>2. /\ s[k].own => loop[a] = NoLoop
          /\ s[k].token = IF k = 1 THEN base[a] ELSE s[k - 1].run
      BY <3>1 DEF ContextInv, Nested
    <3>3. QED
      BY <3>1, <3>2
  <2>7. QED
    BY <1>2, <1>5, <2>1, <2>5, <2>6 DEF Nested
<1>7. ASSUME NEW b \in left
      PROVE  Nested(b)'
  BY <1>4, <1>5, <1>7, NestedOutside
<1>8. ASSUME NEW b \in Activities, b # a, b \notin left
      PROVE  Nested(b)'
  BY <1>5, <1>8, NestedFrame DEF ContextInv
<1>9. QED
  BY <1>6, <1>7, <1>8 DEF ContextInv

LEMMA SpawnNests ==
    ASSUME TypeOK, ContextInv, NEW a \in Activities, NEW b \in Activities,
           NEW thread \in BOOLEAN, Spawn(a, b, thread)
    PROVE  ContextInv'
PROOF
<1>1. frames'[b] = <<>>
  BY DEF Spawn, ContextInv, Nested
<1>2. current'[b] = base'[b]
  BY DEF Spawn, TypeOK
<1>3. ASSUME NEW c \in Activities, c # b
      PROVE  Nested(c)'
  BY <1>3, NestedFrame DEF Spawn, TypeOK, ContextInv
<1>4. QED
  BY <1>1, <1>2, <1>3, NestedOutside DEF ContextInv

\* A step that changes no scope.
LEMMA OthersNest ==
    ASSUME ContextInv, UNCHANGED <<loop, current, frames, base>>,
           \A b \in Activities : status'[b] = "unused" => status[b] = "unused"
    PROVE  ContextInv'
PROOF
  BY NestedFrame DEF ContextInv

THEOREM ContextCorrect == Spec => []ContextInv
PROOF
<1>1. Init => ContextInv
  <2> SUFFICES ASSUME Init, NEW a \in Activities
               PROVE  Nested(a)
    BY DEF ContextInv
  <2>1. frames[a] = <<>> /\ current[a] = base[a]
    BY DEF Init
  <2>2. Len(frames[a]) = 0
    BY <2>1, EmptySeq
  <2>3. QED
    BY <2>1, <2>2 DEF Nested, InFrame
<1>2. TypeOK /\ ContextInv /\ [Next]_vars => ContextInv'
  <2> SUFFICES ASSUME TypeOK, ContextInv, [Next]_vars
               PROVE  ContextInv'
    OBVIOUS
  <2> USE DEF runVars
  <2>1. ASSUME NEW a \in Activities, End(a)
        PROVE  ContextInv'
    BY <2>1, OthersNest DEF End, TypeOK
  <2>2. ASSUME NEW a \in Activities, NEW d \in Deliveries, NEW sync \in BOOLEAN,
               PushRemote(a, d, sync)
        PROVE  ContextInv'
    BY <2>2, OthersNest DEF PushRemote
  <2>3. ASSUME NEW d \in Deliveries,
               \/ Edit(d) \/ SetTimeout(d) \/ Send(d) \/ Delivered(d) \/ Discard(d) \/ Collect(d)
        PROVE  ContextInv'
    BY <2>3, OthersNest DEF Edit, SetTimeout, Send, Delivered, Discard, Collect
  <2>4. CASE Exit
    BY <2>4, OthersNest DEF Exit
  <2>5. CASE UNCHANGED vars
    BY <2>5, OthersNest DEF vars
  <2>6. QED
    BY <2>1, <2>2, <2>3, <2>4, <2>5, PushNests, FinishNests, SpawnNests DEF Next
<1>3. QED
  BY <1>1, <1>2, TypeCorrect, PTL DEF Spec

(***************************************************************************)
(* current_task() is the innermost task that its activity runs, and what   *)
(* the activity inherited outside of every task, however the scopes nest   *)
(* and whatever ends, is cancelled or is spawned in between.               *)
(***************************************************************************)
THEOREM ContextIsInnermost == Spec => []ContextOfRun
PROOF
<1>1. ContextInv => ContextOfRun
  BY DEF ContextInv, Nested, ContextOfRun
<1>2. QED
  BY <1>1, ContextCorrect, PTL

-----------------------------------------------------------------------------
(***************************************************************************)
(* Remote deliveries.                                                      *)
(***************************************************************************)

\* What is under way on a loop is held until it ends; nothing is posted before it is pushed.
Kept(d) ==
    /\ delivery[d] \in {"scheduled", "sending"} /\ home[d] # NoLoop => d \in held
    /\ delivery[d] = "lost" => exited \/ home[d] \in closed
    /\ delivery[d] = "unpushed" => posted[d] = {}
    /\ posted[d] \subseteq {payload[d]}

DeliveriesKept == \A d \in Deliveries : Kept(d)

LEMMA PushRemoteKeeps ==
    ASSUME TypeOK, DeliveriesKept, NEW a \in Activities, NEW d \in Deliveries,
           NEW sync \in BOOLEAN, PushRemote(a, d, sync)
    PROVE  DeliveriesKept'
PROOF
<1> USE DEF PushRemote, TypeOK, DeliveriesKept, Kept, Hold
<1>1. Kept(d)'
  <2>1. delivery'[d] = "scheduled" /\ (home'[d] # NoLoop => d \in held')
    OBVIOUS
  <2>2. posted'[d] = {}
    OBVIOUS
  <2>3. QED
    BY <2>1, <2>2
<1>2. ASSUME NEW x \in Deliveries, x # d
      PROVE  Kept(x)'
  <2>1. /\ delivery'[x] = delivery[x] /\ home'[x] = home[x] /\ payload'[x] = payload[x]
        /\ x \in held => x \in held'
    BY <1>2
  <2>2. QED
    BY <2>1
<1>3. QED
  BY <1>1, <1>2

LEMMA FinishKeeps ==
    ASSUME TypeOK, DeliveriesKept, NEW a \in Activities, NEW how, Finish(a, how)
    PROVE  DeliveriesKept'
PROOF
<1>1. /\ home' = home /\ payload' = payload /\ posted' = posted /\ exited' = exited
      /\ closed \subseteq closed'
  BY DEF Finish
<1>2. ASSUME NEW d \in Deliveries,
             Top(a).own, home[d] = Top(a).run, delivery[d] \in {"scheduled", "sending"}
      PROVE  Kept(d)'
  <2>1. delivery'[d] = "lost" /\ home[d] \in closed'
    BY <1>2 DEF Finish, Cancelled
  <2>2. QED
    BY <1>1, <2>1 DEF DeliveriesKept, Kept
<1>3. ASSUME NEW d \in Deliveries,
             ~(Top(a).own /\ home[d] = Top(a).run /\ delivery[d] \in {"scheduled", "sending"})
      PROVE  Kept(d)'
  <2>1. delivery'[d] = delivery[d]
    BY <1>3 DEF Finish, Cancelled
  <2>2. delivery[d] \in {"scheduled", "sending"} /\ d \in held => d \in held'
    BY <1>3 DEF Finish
  <2>3. QED
    BY <1>1, <2>1, <2>2 DEF DeliveriesKept, Kept
<1>4. QED
  BY <1>2, <1>3 DEF DeliveriesKept

\* A step of the deliveries themselves.
LEMMA DeliveryKeeps ==
    ASSUME TypeOK, DeliveriesKept, NEW d \in Deliveries,
           \/ Edit(d) \/ SetTimeout(d) \/ Send(d) \/ Delivered(d) \/ Discard(d) \/ Collect(d)
    PROVE  DeliveriesKept'
PROOF
<1>1. CASE Edit(d) \/ SetTimeout(d)
  BY <1>1 DEF Edit, SetTimeout, DeliveriesKept, Kept
<1>2. CASE Send(d)
  <2>1. ASSUME NEW x \in Deliveries
        PROVE  Kept(x)'
    <3>1. /\ delivery'[x] = IF x = d THEN "sending" ELSE delivery[x]
          /\ posted'[x] = IF x = d THEN posted[x] \cup {payload[x]} ELSE posted[x]
          /\ UNCHANGED <<home, held, closed, exited, payload>>
          /\ delivery[d] = "scheduled"
      BY <1>2 DEF Send, Body, TypeOK
    <3>2. QED
      BY <3>1 DEF DeliveriesKept, Kept
  <2>2. QED
    BY <2>1 DEF DeliveriesKept
<1>3. CASE Delivered(d)
  BY <1>3 DEF Delivered, TypeOK, DeliveriesKept, Kept
<1>4. CASE Discard(d)
  BY <1>4 DEF Discard, TypeOK, DeliveriesKept, Kept
<1>5. CASE Collect(d)
  <2>1. delivery[d] = "done" /\ delivery' = [delivery EXCEPT ![d] = "freed"]
    BY <1>5 DEF Collect, DeliveriesKept, Kept
  <2>2. QED
    BY <1>5, <2>1 DEF Collect, TypeOK, DeliveriesKept, Kept
<1>6. QED
  BY <1>1, <1>2, <1>3, <1>4, <1>5

THEOREM DeliveriesCorrect == Spec => []DeliveriesKept
PROOF
<1>1. Init => DeliveriesKept
  BY DEF Init, DeliveriesKept, Kept
<1>2. TypeOK /\ DeliveriesKept /\ [Next]_vars => DeliveriesKept'
  <2> SUFFICES ASSUME TypeOK, DeliveriesKept, [Next]_vars
               PROVE  DeliveriesKept'
    OBVIOUS
  <2>1. ASSUME UNCHANGED <<deliveryVars, closed, exited>>
        PROVE  DeliveriesKept'
    BY <2>1 DEF deliveryVars, DeliveriesKept, Kept
  <2>2. CASE \/ \E a \in Activities, r \in Runs, own \in BOOLEAN : PushImmediate(a, r, own)
             \/ \E a, b \in Activities, thread \in BOOLEAN : Spawn(a, b, thread)
             \/ \E a \in Activities : End(a)
             \/ UNCHANGED vars
    BY <2>1, <2>2 DEF PushImmediate, Spawn, End, vars
  <2>3. CASE Exit
    BY <2>3 DEF Exit, TypeOK, DeliveriesKept, Kept
  <2>4. QED
    BY <2>2, <2>3, FinishKeeps, PushRemoteKeeps, DeliveryKeeps DEF Next
<1>3. QED
  BY <1>1, <1>2, TypeCorrect, PTL DEF Spec

(***************************************************************************)
(* A delivery is lost only with the process or with its own loop: the      *)
(* garbage collector never takes an unfinished one (_background_tasks).    *)
(***************************************************************************)
THEOREM NothingCollectedEarly == Spec => []LostOnlyWithLoop
PROOF
<1>1. DeliveriesKept => LostOnlyWithLoop
  BY DEF DeliveriesKept, Kept, LostOnlyWithLoop
<1>2. QED
  BY <1>1, DeliveriesCorrect, PTL

\* What is POSTed is what was pushed, however the arguments change before the delivery.
THEOREM PostedAsPushed == Spec => []DeliveredAsPushed
PROOF
<1>1. DeliveriesKept => DeliveredAsPushed
  BY DEF DeliveriesKept, Kept, DeliveredAsPushed
<1>2. QED
  BY <1>1, DeliveriesCorrect, PTL
=============================================================================
