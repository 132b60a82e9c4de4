--------------------------- MODULE RecorderProofs ---------------------------
(***************************************************************************)
(* Theorems about Recorder, for any pushers, blocks, pushes and names.     *)
(* What record mode refuses and the types hold whoever is a thread. What   *)
(* blocks restore needs them nested. What a list holds needs coroutines.   *)
(***************************************************************************)
EXTENDS Recorder, SequenceTheorems, TLAPS

-----------------------------------------------------------------------------
(***************************************************************************)
(* The inductive invariants                                                *)
(***************************************************************************)

\* A block whose body runs is among the open ones.
InsideIsOpen ==
    \A b \in Blocks : state[b] = "inside" => \E k \in 1..Len(open) : open[k] = b

\* Pushers and blocks are each in states of their own.
ProperStates ==
    /\ \A p \in Pushers : state[p] \in
          {"idle", "building", "ready", "calling", "listing", "checking", "appending"}
    /\ \A b \in Blocks : state[b] \in
          {"outside", "saved", "switched", "replaced", "inside", "leaving", "left"}

TypeInv == TypeOK /\ ProperStates /\ InsideIsOpen

\* A push goes the way of the mode it read, and past the checks it passed.
RecordingInv ==
    \A p \in Pushers :
        /\ state[p] \in {"building", "ready", "calling"} => mode[p] = "production"
        /\ state[p] \in {"listing", "checking", "appending"} => mode[p] = "record"
        /\ state[p] \in {"checking", "appending"} => RecordFault(task[p]) = "none"
        /\ state[p] # "idle" => result[p] = "none"

\* The list and the mode of the client within the blocks of s.
TopList(s) == IF s = <<>> THEN ClientList ELSE s[Len(s)]
ModeIn(s) == IF s = <<>> THEN first ELSE "record"

HalfWay(b) == state[b] \in {"saved", "switched", "replaced", "leaving"}

\* The open blocks are nested: each saved what the one around it had set.
Chain ==
    /\ \A j, k \in 1..Len(open) : open[j] = open[k] => j = k
    /\ \A k \in 1..Len(open) :
          /\ state[open[k]] = "inside"
          /\ saved[open[k]].mode = IF k = 1 THEN first ELSE "record"
          /\ saved[open[k]].list = IF k = 1 THEN ClientList ELSE open[k - 1]

OneHalfWay == \A a, b \in Blocks : HalfWay(a) /\ HalfWay(b) => a = b

\* What the client's two attributes are, between blocks and on the way in and out of one.
ClientInv ==
    /\ (\A b \in Blocks : ~HalfWay(b)) => eager = ModeIn(open) /\ pushed = TopList(open)
    /\ \A b \in Blocks :
          /\ HalfWay(b) => /\ saved[b].mode = ModeIn(open)
                           /\ saved[b].list = TopList(open)
          /\ state[b] \in {"saved", "leaving"} => eager = ModeIn(open)
          /\ state[b] \in {"switched", "replaced"} => eager = "record"
          /\ state[b] \in {"saved", "switched"} => pushed = TopList(open)
          /\ state[b] \in {"replaced", "leaving"} => pushed = b
          /\ state[b] \in {"inside", "leaving", "left"} => yielded[b] = b

BlockInv == Chain /\ OneHalfWay /\ ClientInv

\* What a push found still holds when it goes on.
PushInv ==
    \A p \in Pushers :
        /\ state[p] \in {"building", "ready"} => eager = "production"
        /\ state[p] \in {"ready", "calling"} => parent[p]
        /\ state[p] = "appending" =>
              /\ number[p] = Len(lists[into[p]]) + 1
              /\ task[p].name # NoName =>
                    \A i \in 1..Len(lists[into[p]]) : lists[into[p]][i].name # task[p].name

\* recorded-N is the place in the list.
Numbered == \A l \in Lists : \A i \in 1..Len(lists[l]) : lists[l][i].number = i

\* A name is in a list once.
NamedOnce ==
    \A l \in Lists : \A i, j \in 1..Len(lists[l]) :
        lists[l][i].name # NoName /\ lists[l][i].name = lists[l][j].name => i = j

ListInv == PushInv /\ Numbered /\ NamedOnce /\ NoSpuriousError

\* A push that records does so within the block it began in.
OwnList ==
    \A p \in Pushers :
        /\ state[p] \in {"listing", "checking", "appending"} => inside[p] = TopList(open)
        /\ state[p] \in {"checking", "appending"} => into[p] = inside[p]

OwnInv == OwnList /\ RecordedInOwnBlock

-----------------------------------------------------------------------------
(***************************************************************************)
(* Lemmas about the operators                                              *)
(***************************************************************************)

\* Without drops one place of the sequence and moves up those behind it.
LEMMA WithoutIs ==
    ASSUME NEW S, NEW s \in Seq(S), NEW b, \E k \in 1..Len(s) : s[k] = b
    PROVE  \E i \in 1..Len(s) :
              /\ s[i] = b
              /\ Without(s, b) \in Seq(S)
              /\ Len(Without(s, b)) = Len(s) - 1
              /\ \A k \in 1..(i - 1) : Without(s, b)[k] = s[k]
              /\ \A k \in i..(Len(s) - 1) : Without(s, b)[k] = s[k + 1]
<1> DEFINE i == CHOOSE j \in 1..Len(s) : s[j] = b
           front == SubSeq(s, 1, i - 1)
           back == SubSeq(s, i + 1, Len(s))
<1>1. i \in 1..Len(s) /\ s[i] = b
  OBVIOUS
<1>2. Without(s, b) = front \o back
  BY DEF Without
<1> HIDE DEF i
<1>3. Len(s) \in Nat
  BY LenProperties
<1>4. /\ front \in Seq(S) /\ Len(front) = i - 1
      /\ \A k \in 1..(i - 1) : front[k] = s[k]
  <2>1. 1 \in 1..(Len(s) + 1) /\ i - 1 \in (1 - 1)..Len(s)
    BY <1>1, <1>3
  <2> QED
    BY <2>1, <1>1, <1>3, SubSeqProperties
<1>5. /\ back \in Seq(S) /\ Len(back) = Len(s) - i
      /\ \A k \in 1..(Len(s) - i) : back[k] = s[i + k]
  <2>1. i + 1 \in 1..(Len(s) + 1) /\ Len(s) \in ((i + 1) - 1)..Len(s)
    BY <1>1, <1>3
  <2> QED
    BY <2>1, <1>1, <1>3, SubSeqProperties
<1> HIDE DEF front, back
<1>6. /\ front \o back \in Seq(S)
      /\ Len(front \o back) = Len(front) + Len(back)
      /\ \A k \in 1..(Len(front) + Len(back)) :
            (front \o back)[k] = IF k <= Len(front) THEN front[k] ELSE back[k - Len(front)]
  BY <1>4, <1>5, ConcatProperties
<1>7. Len(front \o back) = Len(s) - 1
  BY <1>1, <1>3, <1>4, <1>5, <1>6
<1>8. \A k \in 1..(i - 1) : (front \o back)[k] = s[k]
  BY <1>1, <1>3, <1>4, <1>5, <1>6
<1>9. ASSUME NEW k \in i..(Len(s) - 1)
      PROVE  (front \o back)[k] = s[k + 1]
  <2>1. k \in 1..(Len(front) + Len(back)) /\ ~(k <= Len(front))
    BY <1>1, <1>3, <1>4, <1>5
  <2>2. (front \o back)[k] = back[k - Len(front)]
    BY <1>6, <2>1
  <2>3. k - Len(front) \in 1..(Len(s) - i) /\ i + (k - Len(front)) = k + 1
    BY <1>1, <1>3, <1>4
  <2> QED
    BY <1>5, <2>2, <2>3
<1> QED
  BY <1>1, <1>2, <1>6, <1>7, <1>8, <1>9

\* The other elements stay.
LEMMA WithoutKeeps ==
    ASSUME NEW S, NEW s \in Seq(S), NEW b, \E k \in 1..Len(s) : s[k] = b
    PROVE  /\ Without(s, b) \in Seq(S)
           /\ \A a : a # b /\ (\E k \in 1..Len(s) : s[k] = a) =>
                 \E k \in 1..Len(Without(s, b)) : Without(s, b)[k] = a
<1> DEFINE w == Without(s, b)
<1>1. PICK i \in 1..Len(s) :
         /\ s[i] = b /\ w \in Seq(S) /\ Len(w) = Len(s) - 1
         /\ \A k \in 1..(i - 1) : w[k] = s[k]
         /\ \A k \in i..(Len(s) - 1) : w[k] = s[k + 1]
  BY WithoutIs, SMTT(30)
<1> HIDE DEF w
<1>2. Len(s) \in Nat
  BY LenProperties
<1>3. ASSUME NEW a, a # b, NEW k \in 1..Len(s), s[k] = a
      PROVE  \E j \in 1..Len(w) : w[j] = a
  <2>1. CASE k < i
    <3>1. k \in 1..(i - 1) /\ k \in 1..Len(w)
      BY <1>1, <1>2, <2>1
    <3> QED
      BY <1>1, <1>3, <3>1
  <2>2. CASE k > i
    <3>1. k - 1 \in i..(Len(s) - 1) /\ k - 1 \in 1..Len(w) /\ (k - 1) + 1 = k
      BY <1>1, <1>2, <2>2
    <3>2. w[k - 1] = s[k]
      BY <1>1, <3>1
    <3> QED
      BY <1>3, <3>1, <3>2
  <2>3. k # i
    BY <1>1, <1>3
  <2>4. k < i \/ k > i \/ k = i
    BY <1>2
  <2> QED
    BY <2>1, <2>2, <2>3, <2>4
<1>4. \A a : a # b /\ (\E k \in 1..Len(s) : s[k] = a) => \E k \in 1..Len(w) : w[k] = a
  BY <1>3
<1> QED
  BY <1>1, <1>4 DEF w

\* Of nested blocks it drops the last.
LEMMA WithoutLast ==
    ASSUME NEW S, NEW s \in Seq(S), s # <<>>,
           \A j, k \in 1..Len(s) : s[j] = s[k] => j = k
    PROVE  /\ Without(s, s[Len(s)]) \in Seq(S)
           /\ Len(Without(s, s[Len(s)])) = Len(s) - 1
           /\ \A k \in 1..(Len(s) - 1) : Without(s, s[Len(s)])[k] = s[k]
<1> DEFINE b == s[Len(s)]
           w == Without(s, b)
<1>1. Len(s) \in Nat /\ Len(s) > 0
  BY LenProperties, EmptySeq
<1>2. Len(s) \in 1..Len(s)
  BY <1>1
<1>3. PICK i \in 1..Len(s) :
         /\ s[i] = b /\ w \in Seq(S) /\ Len(w) = Len(s) - 1
         /\ \A k \in 1..(i - 1) : w[k] = s[k]
  BY <1>2, WithoutIs
<1>4. i = Len(s)
  BY <1>2, <1>3
<1> QED
  BY <1>3, <1>4

\* The first failing check fails.
LEMMA FirstFaultIs ==
    ASSUME NEW t
    PROVE  /\ ProductionFault(t) \in {"none", "ValueError", "TaskPushError"}
           /\ RecordFault(t) = ProductionFault(t)
           /\ ProductionFault(t) = "TaskPushError" => "body" \in t.faults
           /\ \A m : /\ EagerFault(m, t) \in {"none", "ValueError", "TaskPushError"}
                     /\ EagerFault(m, t) = "TaskPushError" => "body" \in t.faults
<1>1. \A c : FirstFault(c, t) \in {"none", "ValueError", "TaskPushError"}
  BY DEF FirstFault
<1>2. ASSUME NEW c, NEW n \in 0..4, Len(c) = n, FirstFault(c, t) = "TaskPushError"
      PROVE  "body" \in t.faults
  <2> DEFINE failing == {j \in 1..Len(c) : c[j] \in t.faults}
             i == CHOOSE j \in failing : \A k \in failing : j <= k
  <2>1. failing # {} /\ c[i] = "body"
    BY <1>2 DEF FirstFault
  <2>2. failing \subseteq 1..4
    BY <1>2
  <2>3. \E j \in failing : \A k \in failing : j <= k
    <3> HIDE DEF failing
    <3>1. CASE 1 \in failing
      BY <2>2, <3>1
    <3>2. CASE 1 \notin failing /\ 2 \in failing
      BY <2>2, <3>2
    <3>3. CASE 1 \notin failing /\ 2 \notin failing /\ 3 \in failing
      BY <2>2, <3>3
    <3>4. CASE 1 \notin failing /\ 2 \notin failing /\ 3 \notin failing
      <4>1. PICK j \in failing : TRUE
        BY <2>1
      <4>2. j = 4 /\ \A k \in failing : k = 4
        BY <2>2, <3>4
      <4> QED
        BY <4>2
    <3> QED
      BY <3>1, <3>2, <3>3, <3>4
  <2>4. i \in failing
    BY <2>3
  <2> QED
    BY <2>1, <2>4
<1>3. Len(<<"name", "header", "body", "timeout">>) = 4 /\ Len(<<"header", "body">>) = 2
      /\ Len(<<"header">>) = 1
  OBVIOUS
<1>4. ASSUME NEW m PROVE EagerFault(m, t) = "TaskPushError" => "body" \in t.faults
  BY <1>2, <1>3 DEF EagerFault
<1> QED
  BY <1>1, <1>2, <1>3, <1>4 DEF ProductionFault, RecordFault, EagerFault

-----------------------------------------------------------------------------
(***************************************************************************)
(* Types, and what record mode refuses                                     *)
(***************************************************************************)

LEMMA InitTypes == Init => TypeInv /\ RecordingInv
<1> SUFFICES ASSUME Init PROVE TypeInv /\ RecordingInv
  OBVIOUS
<1> USE RecorderAssumption
<1>1. <<>> \in Seq(Recording) /\ <<>> \in Seq(Blocks) /\ Len(<<>>) = 0
  OBVIOUS
<1>2. TypeOK
  BY <1>1 DEF Init, TypeOK, Modes, Lists, States, Results, Push, Faults
<1>3. ProperStates /\ InsideIsOpen
  BY <1>1 DEF Init, ProperStates, InsideIsOpen
<1>4. RecordingInv
  BY DEF Init, RecordingInv
<1> QED
  BY <1>2, <1>3, <1>4 DEF TypeInv

\* How a push begins: on the way of the mode it read, or at its end already.
LEMMA BeginIs ==
    ASSUME NEW p \in Pushers, Begin(p)
    PROVE  \E t \in Pushes :
              /\ task' = [task EXCEPT ![p] = t]
              /\ mode' = [mode EXCEPT ![p] = eager]
              /\ \/ /\ eager = "production" /\ Goto(p, "building")
                    /\ result' = [result EXCEPT ![p] = "none"]
                 \/ /\ eager = "record" /\ Goto(p, "listing")
                    /\ result' = [result EXCEPT ![p] = "none"]
                 \/ /\ eager # "record" /\ Goto(p, "idle")
                    /\ \E r \in {"sent", "ran", EagerFault(eager, t)} :
                          result' = [result EXCEPT ![p] = r]
<1>1. PICK t \in Pushes :
        /\ task' = [task EXCEPT ![p] = t]
        /\ CASE eager = "production" -> Goto(p, "building") /\ result' = [result EXCEPT ![p] = "none"]
             [] eager = "record" -> Goto(p, "listing") /\ result' = [result EXCEPT ![p] = "none"]
             [] OTHER -> Return(p, IF EagerFault(eager, t) # "none" THEN EagerFault(eager, t)
                                   ELSE IF eager = "remote" THEN "sent" ELSE "ran")
  BY DEF Begin
<1>2. mode' = [mode EXCEPT ![p] = eager]
  BY DEF Begin
<1>3. CASE eager = "production"
  BY <1>1, <1>2, <1>3
<1>4. CASE eager = "record"
  BY <1>1, <1>2, <1>4
<1>5. CASE eager \notin {"production", "record"}
  <2>1. Return(p, IF EagerFault(eager, t) # "none" THEN EagerFault(eager, t)
                  ELSE IF eager = "remote" THEN "sent" ELSE "ran")
    BY <1>1, <1>5
  <2> QED
    BY <1>1, <1>2, <1>5, <2>1 DEF Return
<1> QED
  BY <1>3, <1>4, <1>5

\* A push moves itself only.
LEMMA OtherPushes ==
    ASSUME TypeOK, NEW p \in Pushers, NEW q \in Pushers \ {p},
           \/ Begin(p) \/ Build(p) \/ CallService(p) \/ Reply(p)
           \/ ReadList(p) \/ Check(p) \/ Record(p)
    PROVE  /\ state'[q] = state[q] /\ mode'[q] = mode[q] /\ task'[q] = task[q]
           /\ result'[q] = result[q] /\ parent'[q] = parent[q]
           /\ into'[q] = into[q] /\ inside'[q] = inside[q]
<1>1. CASE Begin(p)
  <2>1. parent' = parent /\ into' = into /\ inside'[q] = inside[q]
    BY <1>1 DEF Begin, TypeOK
  <2>2. /\ \E t : task' = [task EXCEPT ![p] = t]
        /\ \E s : state' = [state EXCEPT ![p] = s]
        /\ \E r : result' = [result EXCEPT ![p] = r]
        /\ mode' = [mode EXCEPT ![p] = eager]
    BY <1>1, BeginIs DEF Goto
  <2> QED
    BY <2>1, <2>2 DEF TypeOK
<1>2. CASE Build(p) \/ CallService(p) \/ Reply(p) \/ ReadList(p) \/ Check(p) \/ Record(p)
  <2>1. UNCHANGED <<task, mode, inside>>
    BY <1>2 DEF Build, CallService, Reply, ReadList, Check, Record
  <2>2. state'[q] = state[q] /\ result'[q] = result[q]
    BY <1>2 DEF Build, CallService, Reply, ReadList, Check, Record, Goto, Return, TypeOK
  <2>3. parent'[q] = parent[q] /\ into'[q] = into[q]
    BY <1>2 DEF Build, CallService, Reply, ReadList, Check, Record, TypeOK
  <2> QED
    BY <2>1, <2>2, <2>3
<1> QED
  BY <1>1, <1>2

\* A step of a push keeps the types and goes the way of its mode.
LEMMA PushTypes ==
    ASSUME TypeInv, RecordingInv, NEW p \in Pushers,
           \/ Begin(p) \/ Build(p) \/ CallService(p) \/ Reply(p)
           \/ ReadList(p) \/ Check(p) \/ Record(p)
    PROVE  TypeInv' /\ RecordingInv'
<1> USE RecorderAssumption
<1>1. PICK s \in {"idle", "building", "ready", "calling", "listing", "checking", "appending"} :
         Goto(p, s)
  BY DEF Begin, Build, CallService, Reply, ReadList, Check, Record, Return
<1>2. /\ state' \in [Pushers \cup Blocks -> States] /\ state'[p] = s
      /\ \A q \in Pushers \cup Blocks : q # p => state'[q] = state[q]
  BY <1>1 DEF TypeInv, TypeOK, Goto, States
<1>3. UNCHANGED <<eager, pushed, saved, yielded, open, first>>
  BY DEF Begin, Build, CallService, Reply, ReadList, Check, Record, clientVars, blockVars
<1>4. ProperStates' /\ InsideIsOpen'
  BY <1>2, <1>3 DEF TypeInv, ProperStates, InsideIsOpen
<1>5. /\ ProductionFault(task[p]) \in Results /\ RecordFault(task[p]) \in Results
      /\ \A t, m : EagerFault(m, t) \in Results
      /\ \A t : Exists(t) \in Results
  BY FirstFaultIs DEF Results, Exists
<1>t. /\ result \in [Pushers -> Results] /\ number \in [Pushers -> Nat]
      /\ parent \in [Pushers -> BOOLEAN] /\ into \in [Pushers -> Lists] /\ pushed \in Lists
  BY DEF TypeInv, TypeOK
<1>r. ASSUME UNCHANGED result \/ \E r \in Results : result' = [result EXCEPT ![p] = r]
      PROVE  result' \in [Pushers -> Results]
  BY <1>r, <1>t
<1>6. CASE Begin(p)
  <2>1. UNCHANGED <<lists, google, parent, into, number>>
    BY <1>6 DEF Begin, clientVars
  <2>2. PICK t \in Pushes :
          /\ task' = [task EXCEPT ![p] = t]
          /\ mode' = [mode EXCEPT ![p] = eager]
          /\ \/ eager = "production" /\ s = "building" /\ result' = [result EXCEPT ![p] = "none"]
             \/ eager = "record" /\ s = "listing" /\ result' = [result EXCEPT ![p] = "none"]
             \/ s = "idle" /\ \E r \in Results : result' = [result EXCEPT ![p] = r]
    <3>1. \A r : Goto(p, r) => s = r
      BY <1>2 DEF Goto, TypeInv, TypeOK
    <3>2. {"sent", "ran"} \subseteq Results
      BY DEF Results
    <3> QED
      BY <1>5, <1>6, <3>1, <3>2, BeginIs
  <2>3. count' \in [Pushers -> 0..PushBound]
    BY <1>6 DEF Begin, TypeInv, TypeOK
  <2>4. inside' \in [Pushers -> Lists]
    <3>1. open # <<>> => open[Len(open)] \in Blocks
      BY ElementOfSeq, LenProperties, EmptySeq DEF TypeInv, TypeOK
    <3> QED
      BY <1>6, <3>1 DEF Begin, TypeInv, TypeOK, Lists
  <2>5. TypeOK'
    <3>1. result' \in [Pushers -> Results]
      BY <2>2 DEF TypeInv, TypeOK, Results
    <3> QED
      BY <1>2, <1>3, <2>1, <2>2, <2>3, <2>4, <3>1 DEF TypeInv, TypeOK
  <2>6. RecordingInv'
    BY <1>2, <2>2 DEF TypeInv, TypeOK, RecordingInv
  <2> QED
    BY <1>4, <2>5, <2>6 DEF TypeInv
<1>7. CASE Build(p) \/ CallService(p)
  <2>1. /\ UNCHANGED <<lists, google, task, mode, into, number, inside, count>>
        /\ parent' \in [Pushers -> BOOLEAN]
    <3>1. /\ UNCHANGED <<lists, google, task, mode, into, number, inside, count>>
          /\ parent' \in {parent, [parent EXCEPT ![p] = (eager = "production")]}
      BY <1>7 DEF Build, CallService, clientVars
    <3>2. (eager = "production") \in BOOLEAN
      OBVIOUS
    <3> QED
      BY <1>t, <3>1, <3>2
  <2>2. /\ state[p] \in {"building", "ready"}
        /\ \/ s \in {"ready", "calling"} /\ UNCHANGED result
           \/ s = "idle" /\ \E r \in Results : result' = [result EXCEPT ![p] = r]
    BY <1>2, <1>5, <1>7 DEF Build, CallService, Goto, Return, TypeInv, TypeOK, Results
  <2>3. TypeOK'
    <3>1. result' \in [Pushers -> Results]
      BY <2>2, <1>r
    <3> QED
      BY <1>2, <1>3, <2>1, <3>1 DEF TypeInv, TypeOK
  <2>4. RecordingInv'
    BY <1>2, <2>1, <2>2 DEF TypeInv, TypeOK, RecordingInv
  <2> QED
    BY <1>4, <2>3, <2>4 DEF TypeInv
<1>8. CASE Reply(p)
  <2>1. UNCHANGED <<lists, task, mode, parent, into, number, inside, count>>
    BY <1>8 DEF Reply
  <2>2. google' \subseteq Names
    BY <1>8 DEF Reply, TypeInv, TypeOK, Push
  <2>3. s = "idle" /\ \E r \in Results : result' = [result EXCEPT ![p] = r]
    BY <1>2, <1>5, <1>8 DEF Reply, Goto, Return, TypeInv, TypeOK, Results
  <2>4. TypeOK'
    <3>1. result' \in [Pushers -> Results]
      BY <2>3, <1>r
    <3> QED
      BY <1>2, <1>3, <2>1, <2>2, <3>1 DEF TypeInv, TypeOK
  <2>5. RecordingInv'
    BY <1>2, <2>1, <2>3 DEF TypeInv, TypeOK, RecordingInv
  <2> QED
    BY <1>4, <2>4, <2>5 DEF TypeInv
<1>9. CASE ReadList(p)
  <2>1. /\ UNCHANGED <<lists, google, task, mode, parent, number, inside, count>>
        /\ into' \in [Pushers -> Lists]
    <3>1. /\ UNCHANGED <<lists, google, task, mode, parent, number, inside, count>>
          /\ into' \in {into, [into EXCEPT ![p] = pushed]}
      BY <1>9 DEF ReadList, clientVars
    <3> QED
      BY <1>t, <3>1
  <2>2. /\ state[p] = "listing"
        /\ \/ s = "checking" /\ RecordFault(task[p]) = "none" /\ UNCHANGED result
           \/ s = "idle" /\ \E r \in Results : result' = [result EXCEPT ![p] = r]
    BY <1>2, <1>5, <1>9 DEF ReadList, Goto, Return, TypeInv, TypeOK
  <2>3. TypeOK'
    <3>1. result' \in [Pushers -> Results]
      BY <2>2, <1>r
    <3> QED
      BY <1>2, <1>3, <2>1, <3>1 DEF TypeInv, TypeOK
  <2>4. RecordingInv'
    BY <1>2, <2>1, <2>2 DEF TypeInv, TypeOK, RecordingInv
  <2> QED
    BY <1>4, <2>3, <2>4 DEF TypeInv
<1>10. CASE Check(p)
  <2>1. UNCHANGED <<lists, google, task, mode, parent, into, inside, count>>
    BY <1>10 DEF Check, clientVars
  <2>2. number' \in [Pushers -> Nat]
    <3>1. lists[into[p]] \in Seq(Recording)
      BY DEF TypeInv, TypeOK
    <3>2. Len(lists[into[p]]) + 1 \in Nat
      BY <3>1, LenProperties
    <3>3. number' \in {number, [number EXCEPT ![p] = Len(lists[into[p]]) + 1]}
      BY <1>10 DEF Check
    <3> QED
      BY <1>t, <3>2, <3>3
  <2>3. /\ state[p] = "checking"
        /\ \/ s = "appending" /\ UNCHANGED result
           \/ s = "idle" /\ \E r \in Results : result' = [result EXCEPT ![p] = r]
    BY <1>2, <1>5, <1>10 DEF Check, Goto, Return, TypeInv, TypeOK
  <2>4. TypeOK'
    <3>1. result' \in [Pushers -> Results]
      BY <2>3, <1>r
    <3> QED
      BY <1>2, <1>3, <2>1, <2>2, <3>1 DEF TypeInv, TypeOK
  <2>5. RecordingInv'
    BY <1>2, <2>1, <2>3 DEF TypeInv, TypeOK, RecordingInv
  <2> QED
    BY <1>4, <2>4, <2>5 DEF TypeInv
<1>11. CASE Record(p)
  <2>1. UNCHANGED <<google, task, mode, parent, into, number, inside, count>>
    BY <1>11 DEF Record
  <2>2. lists' \in [Lists -> Seq(Recording)]
    <3> DEFINE r == [name |-> task[p].name, number |-> number[p], inside |-> inside[p]]
    <3>1. r \in Recording
      BY DEF TypeInv, TypeOK, Push, Recording
    <3>2. lists' = [lists EXCEPT ![into[p]] = Append(@, r)]
      BY <1>11 DEF Record
    <3> HIDE DEF r
    <3>3. into[p] \in Lists /\ lists \in [Lists -> Seq(Recording)]
      BY DEF TypeInv, TypeOK
    <3>4. Append(lists[into[p]], r) \in Seq(Recording)
      BY <3>1, <3>3, AppendProperties
    <3> QED
      BY <3>2, <3>3, <3>4
  <2>3. s = "idle" /\ result' = [result EXCEPT ![p] = "recorded"]
    BY <1>2, <1>11 DEF Record, Goto, Return, TypeInv, TypeOK
  <2>4. TypeOK'
    BY <1>2, <1>3, <2>1, <2>2, <2>3 DEF TypeInv, TypeOK, Results
  <2>5. RecordingInv'
    BY <1>2, <2>1, <2>3 DEF TypeInv, TypeOK, RecordingInv
  <2> QED
    BY <1>4, <2>4, <2>5 DEF TypeInv
<1> QED
  BY <1>6, <1>7, <1>8, <1>9, <1>10, <1>11

\* A step of a block keeps the types.
LEMMA BlockTypes ==
    ASSUME TypeInv, RecordingInv, NEW b \in Blocks,
           Enter(b) \/ Switch(b) \/ Replace(b) \/ Yield(b) \/ Leave(b) \/ Restore(b)
    PROVE  TypeInv' /\ RecordingInv'
<1> USE RecorderAssumption
<1>1. PICK s \in {"saved", "switched", "replaced", "inside", "leaving", "left"} : Goto(b, s)
  BY DEF Enter, Switch, Replace, Yield, Leave, Restore
<1>2. /\ state' \in [Pushers \cup Blocks -> States] /\ state'[b] = s
      /\ \A q \in Pushers \cup Blocks : q # b => state'[q] = state[q]
  BY <1>1 DEF TypeInv, TypeOK, Goto, States
<1>3. UNCHANGED <<lists, google, task, mode, parent, into, number, inside, result, count, first>>
  BY DEF Enter, Switch, Replace, Yield, Leave, Restore, clientVars, pushVars
<1>4. RecordingInv' /\ ProperStates'
  BY <1>2, <1>3 DEF RecordingInv, TypeInv, ProperStates
<1>5. eager' \in Modes /\ pushed' \in Lists
  <2>1. /\ eager' \in {eager, "record", saved[b].mode}
        /\ pushed' \in {pushed, b, saved[b].list}
    BY DEF Enter, Switch, Replace, Yield, Leave, Restore, clientVars
  <2>2. saved[b].mode \in Modes /\ saved[b].list \in Lists
    BY DEF TypeInv, TypeOK
  <2> QED
    BY <2>1, <2>2 DEF TypeInv, TypeOK, Modes, Lists
<1>6. saved' \in [Blocks -> [mode : Modes, list : Lists]] /\ yielded' \in [Blocks -> Lists]
  <2>1. /\ saved' \in {saved, [saved EXCEPT ![b] = [mode |-> eager, list |-> pushed]]}
        /\ yielded' \in {yielded, [yielded EXCEPT ![b] = pushed]}
    BY DEF Enter, Switch, Replace, Yield, Leave, Restore, blockVars
  <2>2. [mode |-> eager, list |-> pushed] \in [mode : Modes, list : Lists] /\ pushed \in Lists
    BY DEF TypeInv, TypeOK
  <2>3. /\ saved \in [Blocks -> [mode : Modes, list : Lists]]
        /\ yielded \in [Blocks -> Lists]
    BY DEF TypeInv, TypeOK
  <2> QED
    BY <2>1, <2>2, <2>3
<1>7. open' \in Seq(Blocks) /\ InsideIsOpen'
  <2>1. CASE Yield(b)
    <3>1. open' = Append(open, b) /\ open \in Seq(Blocks)
      BY <2>1 DEF Yield, TypeInv, TypeOK
    <3>2. /\ open' \in Seq(Blocks) /\ Len(open') = Len(open) + 1 /\ Len(open) \in Nat
          /\ \A k \in 1..Len(open) : open'[k] = open[k]
          /\ open'[Len(open) + 1] = b
      BY <3>1, AppendProperties, LenProperties
    <3>3. \A k \in 1..Len(open) : k \in 1..Len(open')
      BY <3>2
    <3>4. Len(open) + 1 \in 1..Len(open')
      BY <3>2
    <3> QED
      BY <1>2, <3>2, <3>3, <3>4 DEF TypeInv, InsideIsOpen
  <2>2. CASE Leave(b)
    <3>1. /\ open' = Without(open, b) /\ open \in Seq(Blocks)
          /\ \E k \in 1..Len(open) : open[k] = b
      BY <2>2 DEF Leave, TypeInv, TypeOK, InsideIsOpen
    <3>2. s = "leaving"
      BY <1>2, <2>2 DEF Leave, Goto, TypeInv, TypeOK
    <3>3. /\ open' \in Seq(Blocks)
          /\ \A a : a # b /\ (\E k \in 1..Len(open) : open[k] = a) =>
                \E k \in 1..Len(open') : open'[k] = a
      BY <3>1, WithoutKeeps, SMTT(30)
    <3>4. ASSUME NEW a \in Blocks, state'[a] = "inside"
          PROVE  \E k \in 1..Len(open') : open'[k] = a
      <4>1. a # b /\ state[a] = "inside"
        BY <1>2, <3>2, <3>4
      <4> QED
        BY <3>3, <4>1 DEF TypeInv, InsideIsOpen
    <3> QED
      BY <3>3, <3>4 DEF InsideIsOpen
  <2>3. CASE Enter(b) \/ Switch(b) \/ Replace(b) \/ Restore(b)
    <3>1. UNCHANGED open /\ s # "inside"
      BY <1>2, <2>3 DEF Enter, Switch, Replace, Restore, blockVars, Goto, TypeInv, TypeOK
    <3> QED
      BY <1>2, <3>1 DEF TypeInv, TypeOK, InsideIsOpen
  <2> QED
    BY <2>1, <2>2, <2>3
<1>8. TypeOK'
  BY <1>2, <1>3, <1>5, <1>6, <1>7 DEF TypeInv, TypeOK
<1> QED
  BY <1>4, <1>7, <1>8 DEF TypeInv

LEMMA TypesKept == TypeInv /\ RecordingInv /\ [Next]_vars => TypeInv' /\ RecordingInv'
<1>1. ASSUME TypeInv, RecordingInv, UNCHANGED vars PROVE TypeInv' /\ RecordingInv'
  BY <1>1 DEF vars, clientVars, pushVars, blockVars, TypeInv, TypeOK, ProperStates,
              InsideIsOpen, RecordingInv
<1> QED
  BY <1>1, PushTypes, BlockTypes DEF Next

LEMMA PushesRecorded == Spec => [](TypeInv /\ RecordingInv)
<1> QED
  BY InitTypes, TypesKept, PTL DEF Spec

(***************************************************************************)
(* Recorder's type invariant, with any of the processes threads.           *)
(***************************************************************************)
THEOREM TypeCorrect == Spec => []TypeOK
<1>1. TypeInv => TypeOK
  BY DEF TypeInv
<1> QED
  BY <1>1, PushesRecorded, PTL

LEMMA RefusalsKept ==
    ASSUME TypeInv, RecordingInv, RecordsAsProduction, [Next]_vars
    PROVE  RecordsAsProduction'
<1> USE RecorderAssumption
<1>1. SUFFICES ASSUME NEW q \in Pushers,
                      state'[q] = "idle", mode'[q] = "record", result'[q] # "none"
               PROVE  IF ProductionFault(task'[q]) # "none"
                      THEN result'[q] = ProductionFault(task'[q])
                      ELSE result'[q] \in {"recorded", "exists", "TaskAlreadyExists"}
  BY DEF RecordsAsProduction, ProductionFault, FirstFault
<1>2. CASE /\ state'[q] = state[q] /\ mode'[q] = mode[q]
           /\ result'[q] = result[q] /\ task'[q] = task[q]
  BY <1>1, <1>2 DEF RecordsAsProduction
<1>3. CASE UNCHANGED vars
  BY <1>2, <1>3 DEF vars, pushVars
<1>4. ASSUME NEW b \in Blocks,
             Enter(b) \/ Switch(b) \/ Replace(b) \/ Yield(b) \/ Leave(b) \/ Restore(b)
      PROVE  state'[q] = state[q] /\ UNCHANGED <<mode, result, task>>
  BY <1>4 DEF Enter, Switch, Replace, Yield, Leave, Restore, Goto, pushVars, TypeInv, TypeOK
<1>5. ASSUME NEW p \in Pushers, p # q,
             \/ Begin(p) \/ Build(p) \/ CallService(p) \/ Reply(p)
             \/ ReadList(p) \/ Check(p) \/ Record(p)
      PROVE  /\ state'[q] = state[q] /\ mode'[q] = mode[q]
             /\ result'[q] = result[q] /\ task'[q] = task[q]
  BY <1>5, OtherPushes DEF TypeInv
<1>6. CASE Begin(q)
  <2>1. mode'[q] = eager
    BY <1>6 DEF Begin, TypeInv, TypeOK
  <2>2. result' = [result EXCEPT ![q] = "none"]
    BY <1>1, <1>6, <2>1, BeginIs
  <2> QED
    BY <1>1, <2>2 DEF TypeInv, TypeOK
<1>7. CASE Build(q) \/ CallService(q) \/ Reply(q)
  BY <1>1, <1>7 DEF Build, CallService, Reply, RecordingInv
<1>8. CASE ReadList(q)
  <2>1. task' = task /\ state[q] = "listing"
    BY <1>8 DEF ReadList
  <2>2. RecordFault(task[q]) # "none" /\ Return(q, RecordFault(task[q]))
    BY <1>1, <1>8 DEF ReadList, Goto, TypeInv, TypeOK
  <2>3. result'[q] = RecordFault(task[q])
    BY <2>2 DEF Return, TypeInv, TypeOK
  <2> QED
    BY <2>1, <2>2, <2>3, FirstFaultIs
<1>9. CASE Check(q) \/ Record(q)
  <2>1. task' = task /\ state[q] \in {"checking", "appending"}
    BY <1>9 DEF Check, Record
  <2>2. ProductionFault(task[q]) = "none"
    BY <2>1, FirstFaultIs DEF RecordingInv
  <2>3. result'[q] \in {"recorded", "exists", "TaskAlreadyExists"}
    BY <1>1, <1>9 DEF Check, Record, Goto, Return, Exists, TypeInv, TypeOK
  <2> QED
    BY <2>1, <2>2, <2>3
<1> QED
  BY <1>2, <1>3, <1>4, <1>5, <1>6, <1>7, <1>8, <1>9 DEF Next

(***************************************************************************)
(* Record mode refuses the pushes production refuses, with the exception   *)
(* of production, and records the others, whatever threads and blocks do   *)
(* to the client meanwhile: a push reads the mode once.                    *)
(***************************************************************************)
THEOREM RecordModeIsFaithful == Spec => []RecordsAsProduction
<1>1. Init => RecordsAsProduction
  BY DEF Init, RecordsAsProduction
<1> QED
  BY <1>1, InitTypes, TypesKept, RefusalsKept, PTL DEF Spec

-----------------------------------------------------------------------------
(***************************************************************************)
(* Nested blocks, of threads or of coroutines                              *)
(***************************************************************************)

\* A push touches nothing of a block, and not the client's two attributes.
LEMMA PushLeavesBlocks ==
    ASSUME TypeInv, NEW p \in Pushers,
           \/ Begin(p) \/ Build(p) \/ CallService(p) \/ Reply(p)
           \/ ReadList(p) \/ Check(p) \/ Record(p)
    PROVE  /\ UNCHANGED <<eager, pushed, saved, yielded, open, first>>
           /\ \A q \in (Pushers \cup Blocks) \ {p} : state'[q] = state[q]
           /\ p \notin Blocks
<1>1. PICK s : Goto(p, s)
  BY DEF Begin, Build, CallService, Reply, ReadList, Check, Record, Return
<1>2. UNCHANGED <<eager, pushed, saved, yielded, open, first>>
  BY DEF Begin, Build, CallService, Reply, ReadList, Check, Record, clientVars, blockVars
<1> QED
  BY <1>1, <1>2, RecorderAssumption DEF TypeInv, TypeOK, Goto

\* A step of a block moves that block only.
LEMMA BlockMoves ==
    ASSUME TypeInv, NEW b \in Blocks,
           Enter(b) \/ Switch(b) \/ Replace(b) \/ Yield(b) \/ Leave(b) \/ Restore(b)
    PROVE  /\ \A q \in (Pushers \cup Blocks) \ {b} : state'[q] = state[q]
           /\ Enter(b) => state'[b] = "saved"
           /\ Switch(b) => state'[b] = "switched"
           /\ Replace(b) => state'[b] = "replaced"
           /\ Yield(b) => state'[b] = "inside"
           /\ Leave(b) => state'[b] = "leaving"
           /\ Restore(b) => state'[b] = "left"
           /\ UNCHANGED <<lists, google, pushVars, first>>
<1>1. UNCHANGED <<lists, google, pushVars, first>>
  BY DEF Enter, Switch, Replace, Yield, Leave, Restore, clientVars
<1> QED
  BY <1>1 DEF Enter, Switch, Replace, Yield, Leave, Restore, Goto, TypeInv, TypeOK

LEMMA InitBlocks == Init => BlockInv
<1> SUFFICES ASSUME Init PROVE BlockInv
  OBVIOUS
<1>1. open = <<>> /\ Len(<<>>) = 0
  BY DEF Init
<1>2. \A b \in Blocks : state[b] = "outside"
  BY RecorderAssumption DEF Init
<1>3. eager = first /\ pushed = ClientList
  BY DEF Init
<1> QED
  BY <1>1, <1>2, <1>3 DEF BlockInv, Chain, OneHalfWay, ClientInv, HalfWay, ModeIn, TopList

\* Enter saves what the client has, Switch and Replace change it.
LEMMA EnterNests ==
    ASSUME TypeInv, BlockInv, Nested, NEW b \in Blocks, Enter(b) \/ Switch(b) \/ Replace(b)
    PROVE  BlockInv'
<1>1. UNCHANGED <<open, yielded, first>>
  BY DEF Enter, Switch, Replace, blockVars
<1>2. TopList(open)' = TopList(open) /\ ModeIn(open)' = ModeIn(open)
  BY <1>1 DEF TopList, ModeIn
<1>3. \A a \in Blocks \ {b} : state'[a] = state[a]
  BY BlockMoves
<1>4. state[b] # "inside"
  BY DEF Enter, Switch, Replace
<1>5. \A k \in 1..Len(open) : open[k] \in Blocks /\ open[k] # b
  BY <1>4, ElementOfSeq DEF BlockInv, Chain, TypeInv, TypeOK
<1>6. \A a \in Blocks \ {b} : saved'[a] = saved[a]
  BY DEF Enter, Switch, Replace, blockVars, TypeInv, TypeOK
<1>7. \A a \in Blocks \ {b} : ~HalfWay(a) /\ ~HalfWay(a)'
  BY <1>3 DEF Enter, Switch, Replace, Settled, BlockInv, OneHalfWay, HalfWay
<1>8. Chain'
  <2>1. \A k \in 1..Len(open) : /\ state'[open[k]] = state[open[k]]
                                /\ saved'[open[k]] = saved[open[k]]
    BY <1>3, <1>5, <1>6
  <2> QED
    BY <1>1, <2>1 DEF BlockInv, Chain
<1>9. OneHalfWay'
  BY <1>7 DEF OneHalfWay
<1>10. ClientInv'
  <2>1. CASE Enter(b)
    <3>1. state[b] = "outside" /\ state'[b] = "saved" /\ UNCHANGED <<eager, pushed>>
      BY <2>1, BlockMoves DEF Enter, clientVars
    <3>2. saved'[b] = [mode |-> eager, list |-> pushed]
      BY <2>1 DEF Enter, TypeInv, TypeOK
    <3>3. eager = ModeIn(open) /\ pushed = TopList(open)
      BY <1>7, <3>1 DEF BlockInv, ClientInv, HalfWay
    <3> QED
      BY <1>1, <1>2, <1>3, <1>6, <1>7, <3>1, <3>2, <3>3 DEF BlockInv, ClientInv, HalfWay
  <2>2. CASE Switch(b)
    <3>1. /\ state[b] = "saved" /\ state'[b] = "switched"
          /\ eager' = "record" /\ UNCHANGED <<pushed, saved>>
      BY <2>2, BlockMoves DEF Switch, blockVars
    <3> QED
      BY <1>1, <1>2, <1>3, <1>7, <3>1 DEF BlockInv, ClientInv, HalfWay
  <2>3. CASE Replace(b)
    <3>1. /\ state[b] = "switched" /\ state'[b] = "replaced"
          /\ pushed' = b /\ UNCHANGED <<eager, saved>>
      BY <2>3, BlockMoves DEF Replace, blockVars
    <3> QED
      BY <1>1, <1>2, <1>3, <1>7, <3>1 DEF BlockInv, ClientInv, HalfWay
  <2> QED
    BY <2>1, <2>2, <2>3
<1> QED
  BY <1>8, <1>9, <1>10 DEF BlockInv

\* Yield opens the block: its list is now the innermost one.
LEMMA YieldNests ==
    ASSUME TypeInv, BlockInv, Nested, NEW b \in Blocks, Yield(b)
    PROVE  BlockInv'
<1> DEFINE n == Len(open)
<1>1. /\ state[b] = "replaced" /\ state'[b] = "inside"
      /\ UNCHANGED <<eager, pushed, saved, first>>
      /\ open' = Append(open, b) /\ yielded' = [yielded EXCEPT ![b] = pushed]
  BY BlockMoves DEF Yield, clientVars
<1>2. \A a \in Blocks \ {b} : state'[a] = state[a]
  BY BlockMoves
<1>3. \A a \in Blocks \ {b} : ~HalfWay(a)
  BY <1>1 DEF BlockInv, OneHalfWay, HalfWay
<1>4. /\ n \in Nat /\ Len(open') = n + 1 /\ open' # <<>>
      /\ \A k \in 1..n : open'[k] = open[k]
      /\ open'[n + 1] = b
  <2>1. open \in Seq(Blocks) /\ n \in Nat
    BY LenProperties DEF TypeInv, TypeOK
  <2>2. /\ Len(open') = n + 1
        /\ \A k \in 1..n : open'[k] = open[k]
        /\ open'[n + 1] = b
    BY <1>1, <2>1, AppendProperties
  <2>3. Len(<<>>) = 0 /\ n + 1 # 0
    BY <2>1
  <2> QED
    BY <2>1, <2>2, <2>3
<1>5. \A k \in 1..n : open[k] \in Blocks /\ open[k] # b
  BY <1>1, ElementOfSeq DEF BlockInv, Chain, TypeInv, TypeOK
<1>6. pushed = b /\ eager = "record"
  BY <1>1 DEF BlockInv, ClientInv
<1>7. /\ saved[b].mode = IF n + 1 = 1 THEN first ELSE "record"
      /\ saved[b].list = IF n + 1 = 1 THEN ClientList ELSE open[n]
  <2>1. saved[b].mode = ModeIn(open) /\ saved[b].list = TopList(open)
    BY <1>1 DEF BlockInv, ClientInv, HalfWay
  <2>2. open = <<>> <=> n = 0
    BY EmptySeq DEF TypeInv, TypeOK
  <2>3. n + 1 = 1 <=> n = 0
    BY <1>4
  <2> QED
    BY <2>1, <2>2, <2>3 DEF ModeIn, TopList
<1>8. Chain'
  <2>1. ASSUME NEW j \in 1..(n + 1), NEW k \in 1..(n + 1), open'[j] = open'[k]
        PROVE  j = k
    <3> HIDE DEF n
    <3>1. (j \in 1..n \/ j = n + 1) /\ (k \in 1..n \/ k = n + 1)
      BY <1>4
    <3>2. j \in 1..n /\ k \in 1..n => open[j] = open[k]
      BY <1>4, <2>1
    <3> QED
      BY <1>4, <1>5, <2>1, <3>1, <3>2 DEF BlockInv, Chain, n
  <2>2. ASSUME NEW k \in 1..(n + 1)
        PROVE  /\ state'[open'[k]] = "inside"
               /\ saved'[open'[k]].mode = IF k = 1 THEN first ELSE "record"
               /\ saved'[open'[k]].list = IF k = 1 THEN ClientList ELSE open'[k - 1]
    <3>1. CASE k = n + 1
      <4>1. n # 0 => n \in 1..n /\ k - 1 = n
        BY <1>4, <3>1
      <4>2. k # 1 => open'[k - 1] = open[n]
        BY <1>4, <3>1, <4>1
      <4> QED
        BY <1>1, <1>4, <1>7, <3>1, <4>2
    <3>2. CASE k \in 1..n
      <4>1. open'[k] = open[k] /\ state'[open[k]] = state[open[k]]
        BY <1>2, <1>4, <1>5, <3>2
      <4>2. k # 1 => open'[k - 1] = open[k - 1]
        <5>1. k # 1 => k - 1 \in 1..n
          BY <1>4, <3>2
        <5> QED
          BY <1>4, <5>1
      <4>3. /\ state[open[k]] = "inside"
            /\ saved[open[k]].mode = IF k = 1 THEN first ELSE "record"
            /\ saved[open[k]].list = IF k = 1 THEN ClientList ELSE open[k - 1]
        BY <3>2 DEF BlockInv, Chain
      <4> QED
        BY <1>1, <4>1, <4>2, <4>3
    <3> QED
      BY <1>4, <3>1, <3>2
  <2>3. Len(open') = n + 1
    BY <1>4
  <2> HIDE DEF n
  <2>4. \A j, k \in 1..Len(open') : open'[j] = open'[k] => j = k
    BY <2>1, <2>3
  <2>5. \A k \in 1..Len(open') :
           /\ state'[open'[k]] = "inside"
           /\ saved'[open'[k]].mode = IF k = 1 THEN first' ELSE "record"
           /\ saved'[open'[k]].list = IF k = 1 THEN ClientList ELSE open'[k - 1]
    <3>1. first' = first
      BY <1>1
    <3> QED
      BY <2>2, <2>3, <3>1
  <2> QED
    BY <2>4, <2>5 DEF Chain
<1>9. OneHalfWay'
  BY <1>1, <1>2, <1>3 DEF OneHalfWay, HalfWay
<1>10. ClientInv'
  <2>1. ModeIn(open)' = "record" /\ TopList(open)' = b
    BY <1>4 DEF ModeIn, TopList
  <2>2. yielded'[b] = b /\ \A a \in Blocks \ {b} : yielded'[a] = yielded[a]
    BY <1>1, <1>6 DEF TypeInv, TypeOK
  <2> QED
    BY <1>1, <1>2, <1>3, <1>6, <2>1, <2>2 DEF BlockInv, ClientInv, HalfWay
<1> QED
  BY <1>8, <1>9, <1>10 DEF BlockInv

\* Leave closes the innermost block and puts back the mode of the one around it.
LEMMA LeaveNests ==
    ASSUME TypeInv, BlockInv, Nested, NEW b \in Blocks, Leave(b)
    PROVE  BlockInv'
<1> DEFINE n == Len(open)
<1>1. /\ state[b] = "inside" /\ state'[b] = "leaving" /\ open[n] = b
      /\ UNCHANGED <<pushed, saved, yielded, first>>
      /\ open' = Without(open, b) /\ eager' = saved[b].mode
  BY BlockMoves DEF Leave
<1>2. \A a \in Blocks \ {b} : state'[a] = state[a] /\ ~HalfWay(a)
  BY BlockMoves DEF Leave, Settled, HalfWay
<1>3. n \in Nat /\ open # <<>> /\ n # 0
  BY <1>1, LenProperties, EmptySeq DEF TypeInv, TypeOK, InsideIsOpen
<1>4. /\ open' \in Seq(Blocks) /\ Len(open') = n - 1
      /\ \A k \in 1..(n - 1) : open'[k] = open[k]
  <2>1. open \in Seq(Blocks) /\ \A j, k \in 1..Len(open) : open[j] = open[k] => j = k
    BY DEF TypeInv, TypeOK, BlockInv, Chain
  <2> QED
    BY <1>1, <1>3, <2>1, WithoutLast
<1>5. /\ saved[b].mode = IF n = 1 THEN first ELSE "record"
      /\ saved[b].list = IF n = 1 THEN ClientList ELSE open[n - 1]
  <2>1. n \in 1..Len(open)
    BY <1>3
  <2> QED
    BY <1>1, <2>1 DEF BlockInv, Chain
<1>6. pushed = b /\ yielded[b] = b
  <2>1. \A a \in Blocks : ~HalfWay(a)
    BY <1>1, <1>2 DEF HalfWay
  <2>2. pushed = TopList(open)
    BY <2>1 DEF BlockInv, ClientInv
  <2> QED
    BY <1>1, <1>3, <2>2 DEF TopList, BlockInv, ClientInv
<1>7. /\ saved[b].mode = ModeIn(open)' /\ saved[b].list = TopList(open)'
  <2>1. open' = <<>> <=> n = 1
    BY <1>3, <1>4, EmptySeq
  <2>2. n # 1 => open'[n - 1] = open[n - 1]
    BY <1>3, <1>4
  <2> QED
    BY <1>1, <1>4, <1>5, <2>1, <2>2 DEF ModeIn, TopList
<1>8. Chain'
  <2>1. \A k \in 1..(n - 1) : k \in 1..n /\ open[k] \in Blocks /\ open[k] # b
    <3>1. ASSUME NEW k \in 1..(n - 1)
          PROVE  k \in 1..n /\ n \in 1..n /\ k # n
      BY <1>3
    <3>2. \A k \in 1..n : open[k] \in Blocks
      BY ElementOfSeq DEF TypeInv, TypeOK
    <3> QED
      BY <1>1, <3>1, <3>2 DEF BlockInv, Chain
  <2>2. ASSUME NEW k \in 1..(n - 1)
        PROVE  /\ state'[open'[k]] = "inside"
               /\ saved'[open'[k]].mode = IF k = 1 THEN first ELSE "record"
               /\ saved'[open'[k]].list = IF k = 1 THEN ClientList ELSE open'[k - 1]
    <3>1. open'[k] = open[k] /\ state'[open[k]] = state[open[k]]
      BY <1>2, <1>4, <2>1
    <3>2. k # 1 => open'[k - 1] = open[k - 1]
      <4>1. k # 1 => k - 1 \in 1..(n - 1)
        BY <1>3
      <4> QED
        BY <1>4, <4>1
    <3>3. /\ state[open[k]] = "inside"
          /\ saved[open[k]].mode = IF k = 1 THEN first ELSE "record"
          /\ saved[open[k]].list = IF k = 1 THEN ClientList ELSE open[k - 1]
      BY <2>1 DEF BlockInv, Chain
    <3> QED
      BY <1>1, <3>1, <3>2, <3>3
  <2>3. ASSUME NEW j \in 1..(n - 1), NEW k \in 1..(n - 1), open'[j] = open'[k]
        PROVE  j = k
    <3>1. open[j] = open[k] /\ j \in 1..n /\ k \in 1..n
      BY <1>4, <2>1, <2>3
    <3> QED
      BY <3>1 DEF BlockInv, Chain
  <2> QED
    BY <1>1, <1>4, <2>2, <2>3 DEF Chain
<1>9. OneHalfWay'
  BY <1>2 DEF OneHalfWay, HalfWay
<1>10. ClientInv'
  BY <1>1, <1>2, <1>6, <1>7 DEF BlockInv, ClientInv, HalfWay
<1> QED
  BY <1>8, <1>9, <1>10 DEF BlockInv

\* Restore puts back the list of the block around it.
LEMMA RestoreNests ==
    ASSUME TypeInv, BlockInv, NEW b \in Blocks, Restore(b)
    PROVE  BlockInv'
<1>1. /\ state[b] = "leaving" /\ state'[b] = "left" /\ pushed' = saved[b].list
      /\ UNCHANGED <<eager, saved, yielded, open, first>>
  BY BlockMoves DEF Restore, blockVars
<1>2. \A a \in Blocks \ {b} : state'[a] = state[a]
  BY BlockMoves
<1>3. \A a \in Blocks \ {b} : ~HalfWay(a)
  BY <1>1 DEF BlockInv, OneHalfWay, HalfWay
<1>4. TopList(open)' = TopList(open) /\ ModeIn(open)' = ModeIn(open)
  BY <1>1 DEF TopList, ModeIn
<1>5. eager = ModeIn(open) /\ saved[b].list = TopList(open) /\ yielded[b] = b
  BY <1>1 DEF BlockInv, ClientInv, HalfWay
<1>6. Chain'
  <2>1. \A k \in 1..Len(open) : open[k] \in Blocks /\ open[k] # b
    BY <1>1, ElementOfSeq DEF BlockInv, Chain, TypeInv, TypeOK
  <2>2. \A k \in 1..Len(open) : state'[open[k]] = state[open[k]]
    BY <1>2, <2>1
  <2> QED
    BY <1>1, <2>2 DEF BlockInv, Chain
<1>7. OneHalfWay' /\ ClientInv'
  BY <1>1, <1>2, <1>3, <1>4, <1>5 DEF OneHalfWay, BlockInv, ClientInv, HalfWay
<1> QED
  BY <1>6, <1>7 DEF BlockInv

LEMMA BlocksKept == Nested /\ TypeInv /\ BlockInv /\ [Next]_vars => BlockInv'
<1> SUFFICES ASSUME Nested, TypeInv, BlockInv, [Next]_vars PROVE BlockInv'
  OBVIOUS
<1>1. ASSUME UNCHANGED <<eager, pushed, saved, yielded, open, first>>,
             \A b \in Blocks : state'[b] = state[b]
      PROVE  BlockInv'
  <2>1. \A k \in 1..Len(open) : open[k] \in Blocks
    BY ElementOfSeq DEF TypeInv, TypeOK
  <2>2. TopList(open)' = TopList(open) /\ ModeIn(open)' = ModeIn(open)
    BY <1>1 DEF TopList, ModeIn
  <2>3. Chain'
    BY <1>1, <2>1 DEF BlockInv, Chain
  <2>4. OneHalfWay' /\ ClientInv'
    BY <1>1, <2>2 DEF BlockInv, OneHalfWay, ClientInv, HalfWay
  <2> QED
    BY <2>3, <2>4 DEF BlockInv
<1>2. CASE UNCHANGED vars
  BY <1>1, <1>2 DEF vars, clientVars, blockVars
<1>3. ASSUME NEW p \in Pushers,
             \/ Begin(p) \/ Build(p) \/ CallService(p) \/ Reply(p)
             \/ ReadList(p) \/ Check(p) \/ Record(p)
      PROVE  BlockInv'
  BY <1>1, <1>3, PushLeavesBlocks
<1>4. ASSUME NEW b \in Blocks,
             Enter(b) \/ Switch(b) \/ Replace(b) \/ Yield(b) \/ Leave(b) \/ Restore(b)
      PROVE  BlockInv'
  BY <1>4, EnterNests, YieldNests, LeaveNests, RestoreNests
<1> QED
  BY <1>2, <1>3, <1>4 DEF Next

(***************************************************************************)
(* Nested blocks put back what they found, whichever processes are threads *)
(* and however deep the nesting: after the last one the client is in its   *)
(* first mode, with the recordings it was created with.                    *)
(***************************************************************************)
THEOREM NestedBlocksRestore == Nested => (Spec => []RestoredOnExit)
<1> SUFFICES ASSUME Nested PROVE Spec => []RestoredOnExit
  OBVIOUS
<1>1. TypeInv /\ BlockInv => RestoredOnExit
  <2> SUFFICES ASSUME TypeInv, BlockInv, \A b \in Blocks : state[b] \in {"outside", "left"}
               PROVE  eager = first /\ pushed = ClientList
    BY DEF RestoredOnExit
  <2>1. open = <<>>
    <3>1. ASSUME open # <<>> PROVE FALSE
      <4>1. 1 \in 1..Len(open)
        BY <3>1, EmptySeq, LenProperties DEF TypeInv, TypeOK
      <4>2. open[1] \in Blocks /\ state[open[1]] = "inside"
        BY <4>1, ElementOfSeq DEF TypeInv, TypeOK, BlockInv, Chain
      <4> QED
        BY <4>2
    <3> QED
      BY <3>1
  <2> QED
    BY <2>1 DEF BlockInv, ClientInv, HalfWay, ModeIn, TopList
<1>2. Nested /\ TypeInv /\ BlockInv /\ [Next]_vars => BlockInv'
  BY BlocksKept
<1> QED
  BY <1>1, <1>2, InitTypes, TypesKept, InitBlocks, PTL DEF Spec

-----------------------------------------------------------------------------
(***************************************************************************)
(* Pushes of coroutines                                                    *)
(***************************************************************************)

\* While a coroutine moves the others rest.
LEMMA OthersRest ==
    ASSUME Threads = {}, TypeInv, NEW x \in Pushers \cup Blocks,
           \/ /\ x \in Pushers
              /\ \/ Begin(x) \/ Build(x) \/ CallService(x) \/ Reply(x)
                 \/ ReadList(x) \/ Check(x) \/ Record(x)
           \/ /\ x \in Blocks
              /\ Enter(x) \/ Switch(x) \/ Replace(x) \/ Yield(x) \/ Leave(x) \/ Restore(x)
    PROVE  \A q \in (Pushers \cup Blocks) \ {x} : AtRest(q) /\ state'[q] = state[q]
<1>1. MayRun(x)
  BY DEF Begin, Build, CallService, Reply, ReadList, Check, Record,
         Enter, Switch, Replace, Yield, Leave, Restore
<1>2. \A q \in (Pushers \cup Blocks) \ {x} : AtRest(q)
  BY <1>1 DEF MayRun
<1>3. \A q \in (Pushers \cup Blocks) \ {x} : state'[q] = state[q]
  BY PushLeavesBlocks, BlockMoves
<1> QED
  BY <1>2, <1>3

\* What a push found is still so when it goes on: nobody ran meanwhile.
LEMMA PushesKept ==
    Threads = {} /\ TypeInv /\ PushInv /\ [Next]_vars => PushInv'
<1> SUFFICES ASSUME Threads = {}, TypeInv, PushInv, [Next]_vars,
                    NEW q \in Pushers
             PROVE  /\ state'[q] \in {"building", "ready"} => eager' = "production"
                    /\ state'[q] \in {"ready", "calling"} => parent'[q]
                    /\ state'[q] = "appending" =>
                         /\ number'[q] = Len(lists'[into'[q]]) + 1
                         /\ task'[q].name # NoName =>
                               \A i \in 1..Len(lists'[into'[q]]) :
                                  lists'[into'[q]][i].name # task'[q].name
  BY DEF PushInv
<1> USE RecorderAssumption
<1>1. CASE UNCHANGED vars
  BY <1>1 DEF vars, clientVars, pushVars, PushInv
<1>2. ASSUME NEW b \in Blocks,
             Enter(b) \/ Switch(b) \/ Replace(b) \/ Yield(b) \/ Leave(b) \/ Restore(b)
      PROVE  /\ state'[q] \in {"idle", "calling"}
             /\ state'[q] = "calling" => parent'[q]
  <2>1. AtRest(q) /\ state'[q] = state[q]
    BY <1>2, OthersRest
  <2>2. parent' = parent
    BY <1>2, BlockMoves DEF pushVars
  <2> QED
    BY <2>1, <2>2 DEF AtRest, TypeInv, ProperStates, PushInv
<1>3. ASSUME NEW p \in Pushers, p # q,
             \/ Begin(p) \/ Build(p) \/ CallService(p) \/ Reply(p)
             \/ ReadList(p) \/ Check(p) \/ Record(p)
      PROVE  /\ state'[q] \in {"idle", "calling"}
             /\ state'[q] = "calling" => parent'[q]
  <2>1. AtRest(q) /\ state'[q] = state[q]
    BY <1>3, OthersRest
  <2>2. parent'[q] = parent[q]
    BY <1>3, OtherPushes DEF TypeInv
  <2> QED
    BY <2>1, <2>2 DEF AtRest, TypeInv, ProperStates, PushInv
<1>4. CASE Begin(q)
  <2>1. UNCHANGED eager
    BY <1>4, PushLeavesBlocks
  <2>2. \/ state'[q] = "building" /\ eager = "production"
        \/ state'[q] \in {"listing", "idle"}
    BY <1>4, BeginIs DEF Goto, TypeInv, TypeOK
  <2> QED
    BY <2>1, <2>2
<1>5. CASE Build(q)
  <2>1. UNCHANGED eager /\ eager = "production"
    BY <1>5, PushLeavesBlocks DEF Build, PushInv
  <2>2. \/ Goto(q, "idle")
        \/ Goto(q, "ready") /\ parent' = [parent EXCEPT ![q] = TRUE]
    BY <1>5, <2>1, Zenon DEF Build, Return
  <2>3. state'[q] = "idle" \/ (state'[q] = "ready" /\ parent'[q])
    BY <2>1, <2>2 DEF Goto, TypeInv, TypeOK
  <2> QED
    BY <2>1, <2>3
<1>6. CASE CallService(q)
  <2>1. state'[q] \in {"idle", "calling"} /\ parent'[q]
    BY <1>6 DEF CallService, Goto, Return, PushInv, TypeInv, TypeOK
  <2> QED
    BY <2>1
<1>7. CASE Reply(q) \/ Record(q)
  <2>1. state'[q] = "idle"
    BY <1>7 DEF Reply, Record, Goto, Return, TypeInv, TypeOK
  <2> QED
    BY <2>1
<1>8. CASE ReadList(q)
  <2>1. state'[q] \in {"idle", "checking"}
    BY <1>8 DEF ReadList, Goto, Return, TypeInv, TypeOK
  <2> QED
    BY <2>1
<1>9. CASE Check(q)
  <2>1. UNCHANGED <<lists, task, into>>
    BY <1>9 DEF Check, clientVars
  <2>2. \/ state'[q] = "idle"
        \/ /\ state'[q] = "appending" /\ number'[q] = Len(lists[into[q]]) + 1
           /\ ~(task[q].name # NoName /\ \E i \in 1..Len(lists[into[q]]) :
                                            lists[into[q]][i].name = task[q].name)
    BY <1>9 DEF Check, Goto, Return, TypeInv, TypeOK
  <2> QED
    BY <2>1, <2>2
<1> QED
  BY <1>1, <1>2, <1>3, <1>4, <1>5, <1>6, <1>7, <1>8, <1>9 DEF Next

\* Only Record changes a list, and only the one its push read.
LEMMA OnlyRecordAppends ==
    ASSUME TypeInv, [Next]_vars, lists' # lists
    PROVE  \E p \in Pushers :
              /\ Record(p)
              /\ \A l \in Lists \ {into[p]} : lists'[l] = lists[l]
              /\ Len(lists[into[p]]) \in Nat
              /\ Len(lists'[into[p]]) = Len(lists[into[p]]) + 1
              /\ \A i \in 1..Len(lists[into[p]]) : lists'[into[p]][i] = lists[into[p]][i]
              /\ lists'[into[p]][Len(lists[into[p]]) + 1] =
                    [name |-> task[p].name, number |-> number[p], inside |-> inside[p]]
<1>1. PICK p \in Pushers : Record(p)
  <2>1. ASSUME NEW b \in Blocks,
               Enter(b) \/ Switch(b) \/ Replace(b) \/ Yield(b) \/ Leave(b) \/ Restore(b)
        PROVE  UNCHANGED lists
    BY <2>1, BlockMoves
  <2>2. ASSUME NEW p \in Pushers,
               Begin(p) \/ Build(p) \/ CallService(p) \/ Reply(p) \/ ReadList(p) \/ Check(p)
        PROVE  UNCHANGED lists
    BY <2>2 DEF Begin, Build, CallService, Reply, ReadList, Check, clientVars
  <2>3. UNCHANGED vars => UNCHANGED lists
    BY DEF vars, clientVars
  <2> QED
    BY <2>1, <2>2, <2>3 DEF Next
<1> DEFINE l == into[p]
           r == [name |-> task[p].name, number |-> number[p], inside |-> inside[p]]
<1>2. l \in Lists /\ lists \in [Lists -> Seq(Recording)] /\ r \in Recording
  BY DEF TypeInv, TypeOK, Push, Recording
<1>3. lists' = [lists EXCEPT ![l] = Append(@, r)]
  BY <1>1 DEF Record
<1> HIDE DEF r
<1>4. lists'[l] = Append(lists[l], r) /\ \A m \in Lists \ {l} : lists'[m] = lists[m]
  BY <1>2, <1>3
<1>5. /\ Len(lists[l]) \in Nat /\ Len(lists'[l]) = Len(lists[l]) + 1
      /\ \A i \in 1..Len(lists[l]) : lists'[l][i] = lists[l][i]
      /\ lists'[l][Len(lists[l]) + 1] = r
  BY <1>2, <1>4, AppendProperties, LenProperties
<1> QED
  BY <1>1, <1>4, <1>5 DEF r

LEMMA ListsKept ==
    TypeInv /\ PushInv /\ Numbered /\ NamedOnce /\ [Next]_vars => Numbered' /\ NamedOnce'
<1> SUFFICES ASSUME TypeInv, PushInv, Numbered, NamedOnce, [Next]_vars
             PROVE  Numbered' /\ NamedOnce'
  OBVIOUS
<1>1. CASE lists' = lists
  BY <1>1 DEF Numbered, NamedOnce
<1>2. CASE lists' # lists
  <2>1. PICK p \in Pushers :
          /\ Record(p)
          /\ \A l \in Lists \ {into[p]} : lists'[l] = lists[l]
          /\ Len(lists[into[p]]) \in Nat
          /\ Len(lists'[into[p]]) = Len(lists[into[p]]) + 1
          /\ \A i \in 1..Len(lists[into[p]]) : lists'[into[p]][i] = lists[into[p]][i]
          /\ lists'[into[p]][Len(lists[into[p]]) + 1] =
                [name |-> task[p].name, number |-> number[p], inside |-> inside[p]]
    BY <1>2, OnlyRecordAppends
  <2> DEFINE s == lists[into[p]]
             t == lists'[into[p]]
             n == Len(lists[into[p]])
  <2>2. /\ number[p] = n + 1
        /\ task[p].name # NoName => \A i \in 1..n : s[i].name # task[p].name
    BY <2>1 DEF Record, PushInv
  <2>3. into[p] \in Lists
    BY DEF TypeInv, TypeOK
  <2>4. /\ n \in Nat /\ Len(t) = n + 1 /\ \A i \in 1..n : t[i] = s[i]
        /\ t[n + 1].name = task[p].name /\ t[n + 1].number = n + 1
    BY <2>1, <2>2
  <2>5. /\ \A i \in 1..n : s[i].number = i
        /\ \A i, j \in 1..n : s[i].name # NoName /\ s[i].name = s[j].name => i = j
    BY <2>3 DEF Numbered, NamedOnce
  <2> HIDE DEF s, t, n
  <2>6. \A i \in 1..(n + 1) : i \in 1..n \/ i = n + 1
    BY <2>4
  <2>7. \A i \in 1..(n + 1) : t[i].number = i
    BY <2>4, <2>5, <2>6
  <2>8. \A i, j \in 1..(n + 1) : t[i].name # NoName /\ t[i].name = t[j].name => i = j
    BY <2>2, <2>4, <2>5, <2>6
  <2>9. ASSUME NEW l \in Lists
        PROVE  /\ \A i \in 1..Len(lists'[l]) : lists'[l][i].number = i
               /\ \A i, j \in 1..Len(lists'[l]) :
                     lists'[l][i].name # NoName /\ lists'[l][i].name = lists'[l][j].name => i = j
    <3>1. CASE l = into[p]
      <4>1. lists'[l] = t
        BY <3>1 DEF t
      <4> QED
        BY <2>4, <2>7, <2>8, <4>1
    <3>2. CASE l # into[p]
      <4>1. lists'[l] = lists[l]
        BY <2>1, <3>2
      <4> QED
        BY <4>1 DEF Numbered, NamedOnce
    <3> QED
      BY <3>1, <3>2
  <2> QED
    BY <2>9 DEF Numbered, NamedOnce
<1> QED
  BY <1>1, <1>2

\* The errors of a push are its own.
LEMMA ErrorsKept ==
    TypeInv /\ PushInv /\ NoSpuriousError /\ [Next]_vars => NoSpuriousError'
<1> SUFFICES ASSUME TypeInv, PushInv, NoSpuriousError, [Next]_vars, NEW q \in Pushers
             PROVE  /\ result'[q] = "TaskPushError" => "body" \in task'[q].faults
                    /\ result'[q] = "TaskAlreadyExists" => task'[q].name # NoName
  BY DEF NoSpuriousError
<1> USE RecorderAssumption
<1>1. CASE result'[q] = result[q] /\ task'[q] = task[q]
  BY <1>1 DEF NoSpuriousError
<1>2. CASE UNCHANGED vars
  BY <1>1, <1>2 DEF vars, pushVars
<1>3. ASSUME NEW b \in Blocks,
             Enter(b) \/ Switch(b) \/ Replace(b) \/ Yield(b) \/ Leave(b) \/ Restore(b)
      PROVE  UNCHANGED <<result, task>>
  BY <1>3, BlockMoves DEF pushVars
<1>4. ASSUME NEW p \in Pushers, p # q,
             \/ Begin(p) \/ Build(p) \/ CallService(p) \/ Reply(p)
             \/ ReadList(p) \/ Check(p) \/ Record(p)
      PROVE  result'[q] = result[q] /\ task'[q] = task[q]
  BY <1>4, OtherPushes DEF TypeInv
<1>5. CASE Begin(q)
  <2>1. PICK t \in Pushes :
         /\ task' = [task EXCEPT ![q] = t]
         /\ \E r \in {"none", "sent", "ran", EagerFault(eager, t)} :
               result' = [result EXCEPT ![q] = r]
    BY <1>5, BeginIs
  <2>2. task'[q] = t /\ result'[q] \in {"none", "sent", "ran", EagerFault(eager, t)}
    BY <2>1 DEF TypeInv, TypeOK
  <2>3. /\ EagerFault(eager, t) \in {"none", "ValueError", "TaskPushError"}
        /\ EagerFault(eager, t) = "TaskPushError" => "body" \in t.faults
    BY FirstFaultIs
  <2> QED
    BY <2>2, <2>3
<1>6. CASE Build(q) \/ ReadList(q)
  <2>1. task' = task
    BY <1>6 DEF Build, ReadList
  <2>2. result'[q] = result[q] \/ result'[q] \in {ProductionFault(task[q]), RecordFault(task[q])}
    BY <1>6 DEF Build, ReadList, Return, TypeInv, TypeOK
  <2>3. /\ ProductionFault(task[q]) \in {"none", "ValueError", "TaskPushError"}
        /\ ProductionFault(task[q]) = "TaskPushError" => "body" \in task[q].faults
        /\ RecordFault(task[q]) = ProductionFault(task[q])
    BY FirstFaultIs
  <2> QED
    BY <1>1, <2>1, <2>2, <2>3
<1>7. CASE CallService(q)
  <2>1. task' = task /\ result' = result
    BY <1>7 DEF CallService, PushInv
  <2> QED
    BY <1>1, <2>1
<1>8. CASE Reply(q)
  <2>1. task' = task /\ parent[q]
    BY <1>8 DEF Reply, PushInv
  <2>2. \/ result'[q] \in {"created", "CloudTasksError"}
        \/ task[q].name \in google /\ result'[q] = Exists(task[q])
    BY <1>8, <2>1 DEF Reply, Return, TypeInv, TypeOK
  <2>3. task[q].name \in google => task[q].name # NoName
    BY DEF TypeInv, TypeOK
  <2> QED
    BY <2>1, <2>2, <2>3 DEF Exists
<1>9. CASE Check(q)
  <2>1. task' = task
    BY <1>9 DEF Check
  <2>2. \/ result' = result
        \/ task[q].name # NoName /\ Return(q, Exists(task[q]))
    BY <1>9 DEF Check
  <2>3. \/ result'[q] = result[q]
        \/ task[q].name # NoName /\ result'[q] = Exists(task[q])
    BY <2>2 DEF Return, TypeInv, TypeOK
  <2> QED
    BY <1>1, <2>1, <2>3 DEF Exists
<1>10. CASE Record(q)
  BY <1>10 DEF Record, Return, TypeInv, TypeOK
<1> QED
  BY <1>1, <1>2, <1>3, <1>4, <1>5, <1>6, <1>7, <1>8, <1>9, <1>10 DEF Next

LEMMA CoroutineLists ==
    Threads = {} => (Spec => [](TypeInv /\ ListInv))
<1> SUFFICES ASSUME Threads = {} PROVE Spec => [](TypeInv /\ ListInv)
  OBVIOUS
<1>1. Init => ListInv
  <2>1. Len(<<>>) = 0
    OBVIOUS
  <2> QED
    BY <2>1, RecorderAssumption
       DEF Init, ListInv, PushInv, Numbered, NamedOnce, NoSpuriousError, Lists
<1>2. TypeInv /\ ListInv /\ [Next]_vars => ListInv'
  BY PushesKept, ListsKept, ErrorsKept DEF ListInv
<1> QED
  BY <1>1, <1>2, InitTypes, TypesKept, PTL DEF Spec

(***************************************************************************)
(* Of any number of coroutines pushing in record mode, inside and outside  *)
(* blocks, overlapping or nested, no two get the same path in one list: a  *)
(* name is found taken, and recorded-N counts the list.                    *)
(***************************************************************************)
THEOREM PathsStayUnique == Threads = {} => (Spec => []PathsAreUnique)
<1> SUFFICES ASSUME Threads = {} PROVE Spec => []PathsAreUnique
  OBVIOUS
<1>1. ListInv => PathsAreUnique
  BY DEF ListInv, Numbered, NamedOnce, PathsAreUnique
<1> QED
  BY <1>1, CoroutineLists, PTL

(***************************************************************************)
(* A coroutine's push fails for its own reasons only: it read the mode and *)
(* then the queue path without an await between, and a block that switches *)
(* the client during create_task comes too late to spoil the request.      *)
(***************************************************************************)
THEOREM PushesFailOnTheirOwn == Threads = {} => (Spec => []NoSpuriousError)
<1> SUFFICES ASSUME Threads = {} PROVE Spec => []NoSpuriousError
  OBVIOUS
<1>1. ListInv => NoSpuriousError
  BY DEF ListInv
<1> QED
  BY <1>1, CoroutineLists, PTL

-----------------------------------------------------------------------------
(***************************************************************************)
(* Coroutines in nested blocks                                             *)
(***************************************************************************)

\* The innermost block is being executed, and has a list of its own.
LEMMA TopBlock ==
    ASSUME TypeInv, BlockInv, TopList(open) \in Blocks
    PROVE  state[TopList(open)] = "inside" /\ yielded[TopList(open)] = TopList(open)
<1>1. open # <<>>
  BY RecorderAssumption DEF TopList
<1>2. Len(open) \in 1..Len(open)
  BY <1>1, EmptySeq, LenProperties DEF TypeInv, TypeOK
<1>3. TopList(open) = open[Len(open)]
  BY <1>1 DEF TopList
<1> QED
  BY <1>2, <1>3 DEF BlockInv, Chain, ClientInv

LEMMA OwnListKept ==
    Threads = {} /\ Nested /\ TypeInv /\ BlockInv /\ OwnList /\ [Next]_vars => OwnList'
<1> SUFFICES ASSUME Threads = {}, TypeInv, BlockInv, OwnList, [Next]_vars, NEW q \in Pushers
             PROVE  /\ state'[q] \in {"listing", "checking", "appending"} =>
                          inside'[q] = TopList(open)'
                    /\ state'[q] \in {"checking", "appending"} => into'[q] = inside'[q]
  BY DEF OwnList
<1> USE RecorderAssumption
<1>1. CASE UNCHANGED vars
  BY <1>1 DEF vars, clientVars, blockVars, pushVars, OwnList, TopList
<1>2. ASSUME NEW x \in (Pushers \cup Blocks) \ {q}, AtRest(q), state'[q] = state[q]
      PROVE  state'[q] \notin {"listing", "checking", "appending"}
  BY <1>2 DEF AtRest, TypeInv, ProperStates
<1>3. CASE Begin(q)
  <2>1. /\ open' = open
        /\ inside' = [inside EXCEPT ![q] = IF open = <<>> THEN ClientList ELSE open[Len(open)]]
    BY <1>3 DEF Begin, blockVars
  <2>2. inside'[q] = TopList(open)'
    BY <2>1 DEF TopList, TypeInv, TypeOK
  <2>3. Goto(q, "building") \/ Goto(q, "listing") \/ Goto(q, "idle")
    BY <1>3, BeginIs
  <2>4. state'[q] \notin {"checking", "appending"}
    BY <2>3 DEF Goto, TypeInv, TypeOK
  <2> QED
    BY <2>2, <2>4
<1>4. CASE ReadList(q)
  <2>1. state[q] = "listing" /\ UNCHANGED <<open, inside>>
    BY <1>4 DEF ReadList, blockVars
  <2>2. inside'[q] = TopList(open)'
    BY <2>1 DEF OwnList, TopList
  <2>3. \A b \in Blocks : AtRest(b)
    BY <1>4, OthersRest
  <2>4. pushed = TopList(open)
    BY <2>3 DEF AtRest, BlockInv, ClientInv, HalfWay
  <2>5. Goto(q, "idle") \/ into' = [into EXCEPT ![q] = pushed]
    BY <1>4 DEF ReadList, Return
  <2>6. state'[q] = "idle" \/ into'[q] = pushed
    BY <2>5 DEF Goto, TypeInv, TypeOK
  <2> QED
    BY <2>1, <2>2, <2>4, <2>6 DEF OwnList
<1>5. CASE Check(q)
  <2>1. state[q] = "checking" /\ UNCHANGED <<open, inside, into>>
    BY <1>5 DEF Check, blockVars
  <2> QED
    BY <2>1 DEF OwnList, TopList
<1>6. CASE Build(q) \/ CallService(q) \/ Reply(q) \/ Record(q)
  <2>1. \E s \in {"idle", "ready", "calling"} : Goto(q, s)
    BY <1>6 DEF Build, CallService, Reply, Record, Return
  <2>2. state'[q] \in {"idle", "ready", "calling"}
    BY <2>1 DEF Goto, TypeInv, TypeOK
  <2> QED
    BY <2>2
<1>7. ASSUME NEW p \in Pushers \ {q},
             \/ Begin(p) \/ Build(p) \/ CallService(p) \/ Reply(p)
             \/ ReadList(p) \/ Check(p) \/ Record(p)
      PROVE  AtRest(q) /\ state'[q] = state[q]
  BY <1>7, OthersRest
<1>8. ASSUME NEW b \in Blocks,
             Enter(b) \/ Switch(b) \/ Replace(b) \/ Yield(b) \/ Leave(b) \/ Restore(b)
      PROVE  b # q /\ AtRest(q) /\ state'[q] = state[q]
  BY <1>8, OthersRest
<1> QED
  BY <1>1, <1>2, <1>3, <1>4, <1>5, <1>6, <1>7, <1>8 DEF Next

LEMMA OwnBlockKept ==
    TypeInv /\ BlockInv /\ OwnInv /\ [Next]_vars => RecordedInOwnBlock'
<1> SUFFICES ASSUME TypeInv, BlockInv, OwnInv, [Next]_vars PROVE RecordedInOwnBlock'
  OBVIOUS
<1>1. ASSUME NEW l \in Blocks, yielded[l] = l PROVE yielded'[l] = l
  <2>1. ASSUME NEW b \in Blocks, Yield(b) PROVE yielded'[l] = l
    <3>1. pushed = b /\ yielded' = [yielded EXCEPT ![b] = pushed]
      BY <2>1 DEF Yield, BlockInv, ClientInv
    <3> QED
      BY <1>1, <3>1 DEF TypeInv, TypeOK
  <2>2. ASSUME NEW b \in Blocks, Enter(b) \/ Switch(b) \/ Replace(b) \/ Leave(b) \/ Restore(b)
        PROVE  UNCHANGED yielded
    BY <2>2 DEF Enter, Switch, Replace, Leave, Restore, blockVars
  <2>3. ASSUME NEW p \in Pushers,
               \/ Begin(p) \/ Build(p) \/ CallService(p) \/ Reply(p)
               \/ ReadList(p) \/ Check(p) \/ Record(p)
        PROVE  UNCHANGED yielded
    BY <2>3, PushLeavesBlocks
  <2>4. UNCHANGED vars => UNCHANGED yielded
    BY DEF vars, blockVars
  <2> QED
    BY <1>1, <2>1, <2>2, <2>3, <2>4 DEF Next
<1>2. CASE lists' = lists
  BY <1>1, <1>2 DEF OwnInv, RecordedInOwnBlock
<1>3. CASE lists' # lists
  <2>1. PICK p \in Pushers :
          /\ Record(p)
          /\ \A l \in Lists \ {into[p]} : lists'[l] = lists[l]
          /\ Len(lists[into[p]]) \in Nat
          /\ Len(lists'[into[p]]) = Len(lists[into[p]]) + 1
          /\ \A i \in 1..Len(lists[into[p]]) : lists'[into[p]][i] = lists[into[p]][i]
          /\ lists'[into[p]][Len(lists[into[p]]) + 1] =
                [name |-> task[p].name, number |-> number[p], inside |-> inside[p]]
    BY <1>3, OnlyRecordAppends
  <2>2. into[p] = inside[p] /\ into[p] = TopList(open)
    BY <2>1 DEF Record, OwnInv, OwnList
  <2>3. into[p] \in Blocks => yielded[into[p]] = into[p]
    BY <2>2, TopBlock
  <2>4. into[p] \in Lists
    BY DEF TypeInv, TypeOK
  <2>5. ASSUME NEW i \in 1..Len(lists'[into[p]])
        PROVE  lists'[into[p]][i].inside = into[p]
    <3>1. i \in 1..Len(lists[into[p]]) \/ i = Len(lists[into[p]]) + 1
      BY <2>1
    <3>2. CASE i \in 1..Len(lists[into[p]])
      BY <2>1, <2>4, <3>2 DEF OwnInv, RecordedInOwnBlock
    <3>3. CASE i = Len(lists[into[p]]) + 1
      BY <2>1, <2>2, <3>3
    <3> QED
      BY <3>1, <3>2, <3>3
  <2>6. ASSUME NEW l \in Lists \ {into[p]}, NEW i \in 1..Len(lists'[l])
        PROVE  lists'[l][i].inside = l /\ (l \in Blocks => yielded[l] = l)
    BY <2>1, <2>6 DEF OwnInv, RecordedInOwnBlock
  <2> QED
    BY <1>1, <2>3, <2>5, <2>6 DEF RecordedInOwnBlock
<1> QED
  BY <1>2, <1>3

LEMMA OwnCorrect ==
    Threads = {} /\ Nested => (Spec => [](TypeInv /\ BlockInv /\ OwnInv))
<1> SUFFICES ASSUME Threads = {}, Nested PROVE Spec => [](TypeInv /\ BlockInv /\ OwnInv)
  OBVIOUS
<1>1. Init => OwnInv
  <2>1. Len(<<>>) = 0
    OBVIOUS
  <2> QED
    BY <2>1, RecorderAssumption DEF Init, OwnInv, OwnList, RecordedInOwnBlock
<1>2. TypeInv /\ BlockInv /\ [Next]_vars => BlockInv'
  BY BlocksKept
<1>3. TypeInv /\ BlockInv /\ OwnInv /\ [Next]_vars => OwnInv'
  BY OwnListKept, OwnBlockKept DEF OwnInv
<1> QED
  BY <1>1, <1>2, <1>3, InitTypes, TypesKept, InitBlocks, PTL DEF Spec

(***************************************************************************)
(* With coroutines and nested blocks, a push is recorded for the innermost *)
(* block it began in and for no other, in the list that block was given.   *)
(***************************************************************************)
THEOREM RecordedWherePushed == Threads = {} /\ Nested => (Spec => []RecordedInOwnBlock)
<1> SUFFICES ASSUME Threads = {}, Nested PROVE Spec => []RecordedInOwnBlock
  OBVIOUS
<1>1. OwnInv => RecordedInOwnBlock
  BY DEF OwnInv
<1> QED
  BY <1>1, OwnCorrect, PTL

(***************************************************************************)
(* With coroutines and nested blocks, the list of a block that was left is *)
(* final: no step of a push that is still on its way adds to it.           *)
(***************************************************************************)
THEOREM FrozenWhenLeft == Threads = {} /\ Nested => (Spec => FrozenOnExit)
<1> SUFFICES ASSUME Threads = {}, Nested PROVE Spec => FrozenOnExit
  OBVIOUS
<1>1. TypeInv /\ BlockInv /\ OwnInv /\ [Next]_vars =>
        [\A b \in Blocks : state[b] = "left" => lists'[yielded[b]] = lists[yielded[b]]]_vars
  <2> SUFFICES ASSUME TypeInv, BlockInv, OwnInv, [Next]_vars,
                      NEW b \in Blocks, state[b] = "left", lists' # lists
               PROVE  lists'[yielded[b]] = lists[yielded[b]]
    OBVIOUS
  <2>1. PICK p \in Pushers :
          Record(p) /\ \A l \in Lists \ {into[p]} : lists'[l] = lists[l]
    BY OnlyRecordAppends
  <2>2. into[p] = TopList(open)
    BY <2>1 DEF Record, OwnInv, OwnList
  <2>3. yielded[b] = b /\ b \in Lists
    BY DEF BlockInv, ClientInv, Lists
  <2>4. into[p] # b
    BY <2>2, TopBlock
  <2> QED
    BY <2>1, <2>3, <2>4
<1> QED
  BY <1>1, OwnCorrect, PTL DEF Spec, FrozenOnExit
=============================================================================
