--------------------------- MODULE DeliveryProofs ---------------------------
(***************************************************************************)
(* Theorems about Delivery, for every set of pushes, names and slots and   *)
(* every maximum of attempts.                                              *)
(***************************************************************************)
EXTENDS Delivery, TLAPS

-----------------------------------------------------------------------------
(***************************************************************************)
(* The inductive invariant: how the producer's call, its request, the      *)
(* queue's entry, the reserved names and the worker's slots belong         *)
(* together.                                                               *)
(***************************************************************************)
Created(i) == entry[i] # "absent"
Final == {"done", "declined", "exhausted"}

\* A task is in the queue, or was, exactly if its request was accepted, and a push makes one request.
RequestMadeTask ==
    \A i \in Pushes : /\ request[i] = "created" <=> Created(i)
                      /\ call[i] = "unmade" => request[i] = "none"

\* A name that is refused, or kept, is the name of a task that was created.
NameHasTask ==
    /\ \A i \in Pushes : request[i] = "taken" =>
          name[i] # NoName /\ \E j \in Pushes : Created(j) /\ name[j] = name[i]
    /\ \A n \in reserved : \E j \in Pushes : Created(j) /\ name[j] = n

\* A slot at work serves a created task.
SlotHasTask ==
    \A s \in Slots : phase[s] = "serving" => serves[s] \in Pushes /\ Created(serves[s])

\* The queue waits for one attempt of each task that runs: for a slot that is at work on it.
OneAwaited ==
    \A i \in Pushes :
        /\ attempt[i] # Nobody <=> entry[i] = "running"
        /\ attempt[i] # Nobody => phase[attempt[i]] = "serving" /\ serves[attempt[i]] = i

QueueInv == RequestMadeTask /\ NameHasTask /\ SlotHasTask /\ OneAwaited

-----------------------------------------------------------------------------
(***************************************************************************)
(* What the queue does to one task.                                        *)
(***************************************************************************)

\* A failed attempt or an answer moves only that task, to where it may go, and may keep its name.
LEMMA SettleEffect ==
    ASSUME TypeOK, NEW i \in Pushes, NEW a, Settle(i, a) \/ Retry(i)
    PROVE  /\ \E f \in {"pending"} \cup Final :
                  /\ entry' = [entry EXCEPT ![i] = f]
                  /\ f = "done" => a = "success" /\ Settle(i, a)
           /\ reserved' \subseteq reserved \cup ({name[i]} \ {NoName})
           /\ reserved' \subseteq Names
PROOF
<1>1. ASSUME NEW f \in Final, Leave(i, f)
      PROVE  /\ entry' = [entry EXCEPT ![i] = f]
             /\ reserved' \subseteq reserved \cup ({name[i]} \ {NoName})
             /\ reserved' \subseteq Names
  BY <1>1 DEF TypeOK, Leave
<1>2. CASE Retry(i)
  <2>1. CASE attempts[i] < MaxAttempts
    BY <1>2, <2>1 DEF TypeOK, Retry
  <2>2. CASE ~(attempts[i] < MaxAttempts)
    BY <1>1, <1>2, <2>2 DEF Retry, Final
  <2>3. QED
    BY <2>1, <2>2
<1>3. CASE Settle(i, a) /\ a = "success"
  BY <1>1, <1>3 DEF Settle, Final
<1>4. CASE Settle(i, a) /\ a # "success"
  <2>1. Leave(i, "declined") \/ Retry(i)
    BY <1>4 DEF Settle
  <2>2. QED
    BY <1>1, <1>2, <2>1 DEF Final
<1>5. QED
  BY <1>2, <1>3, <1>4

\* A step that decides on the task i, and nothing else of the queue, keeps what was said of it.
LEMMA SettleKeeps ==
    ASSUME TypeOK, QueueInv, NEW i \in Pushes, Created(i),
           NEW a, Settle(i, a) \/ Retry(i),
           UNCHANGED <<pushVars, request>>
    PROVE  /\ entry' \in [Pushes -> {"absent", "pending", "running"} \cup Final]
           /\ entry'[i] # "running" /\ \A j \in Pushes : j # i => entry'[j] = entry[j]
           /\ reserved' \subseteq Names
           /\ \A j \in Pushes : Created(j)' <=> Created(j)
           /\ RequestMadeTask' /\ NameHasTask'
PROOF
<1>1. PICK f \in {"pending"} \cup Final : entry' = [entry EXCEPT ![i] = f]
  BY SettleEffect
<1>2. /\ reserved' \subseteq reserved \cup ({name[i]} \ {NoName})
      /\ reserved' \subseteq Names
  BY SettleEffect
<1>3. /\ entry' \in [Pushes -> {"absent", "pending", "running"} \cup Final]
      /\ entry'[i] # "running" /\ \A j \in Pushes : j # i => entry'[j] = entry[j]
  BY <1>1 DEF TypeOK, Final
<1>4. \A j \in Pushes : Created(j)' <=> Created(j)
  BY <1>1 DEF TypeOK, Created, Final
<1>5. RequestMadeTask'
  BY <1>4 DEF QueueInv, RequestMadeTask, pushVars
<1>6. NameHasTask'
  BY <1>2, <1>4 DEF QueueInv, NameHasTask, pushVars
<1>7. QED
  BY <1>2, <1>3, <1>4, <1>5, <1>6

-----------------------------------------------------------------------------
(***************************************************************************)
(* The invariant, action by action.                                        *)
(***************************************************************************)
DeliveryInv == TypeOK /\ QueueInv

LEMMA ProducerKeeps ==
    ASSUME DeliveryInv, NEW i \in Pushes, Push(i) \/ Return(i) \/ Fail(i)
    PROVE  DeliveryInv'
PROOF
<1> USE DEF DeliveryInv, pushVars, queueVars, slotVars
<1>1. CASE Push(i)
  <2>1. TypeOK'
    BY <1>1 DEF TypeOK, Push
  <2>2. request[i] = "none" /\ ~Created(i)
    BY <1>1 DEF TypeOK, QueueInv, RequestMadeTask, Push
  <2>3. \A j \in Pushes : Created(j)' <=> Created(j)
    BY <1>1 DEF Push, Created
  <2>4. \A j \in Pushes : Created(j) => name'[j] = name[j]
    BY <1>1, <2>2 DEF TypeOK, Push
  <2>5. RequestMadeTask'
    BY <1>1, <2>2, <2>3 DEF TypeOK, QueueInv, RequestMadeTask, Push
  <2>6. NameHasTask'
    BY <1>1, <2>2, <2>3, <2>4 DEF TypeOK, QueueInv, NameHasTask, Push
  <2>7. SlotHasTask' /\ OneAwaited'
    BY <1>1, <2>3 DEF TypeOK, QueueInv, SlotHasTask, OneAwaited, Push
  <2>8. QED
    BY <2>1, <2>5, <2>6, <2>7 DEF QueueInv
<1>2. CASE Return(i) \/ Fail(i)
  <2>1. TypeOK'
    BY <1>2 DEF TypeOK, Return, Fail, HandleAlreadyExists
  <2>2. QueueInv'
    BY <1>2 DEF TypeOK, QueueInv, RequestMadeTask, NameHasTask, SlotHasTask, OneAwaited,
                Created, Return, Fail, HandleAlreadyExists
  <2>3. QED
    BY <2>1, <2>2
<1>3. QED
  BY <1>1, <1>2

LEMMA QueueKeeps ==
    ASSUME DeliveryInv, NEW i \in Pushes,
           Create(i) \/ LoseRequest(i) \/ Dispatch(i) \/ GiveUp(i)
    PROVE  DeliveryInv'
PROOF
<1> USE DEF DeliveryInv, pushVars, queueVars, slotVars
<1>1. CASE Create(i)
  <2>1. TypeOK'
    BY <1>1 DEF TypeOK, Create
  <2>2. ~Created(i) /\ call[i] # "unmade"
    BY <1>1 DEF QueueInv, RequestMadeTask, Create
  <2>3. CASE name[i] # NoName /\ Taken(name[i])
    <3>1. entry' = entry /\ request' = [request EXCEPT ![i] = "taken"]
      BY <1>1, <2>3 DEF Create
    <3>2. \E j \in Pushes : Created(j) /\ name[j] = name[i]
      BY <2>3 DEF QueueInv, NameHasTask, Taken, Live, Created
    <3>3. RequestMadeTask' /\ NameHasTask'
      BY <1>1, <2>2, <2>3, <3>1, <3>2
         DEF TypeOK, QueueInv, RequestMadeTask, NameHasTask, Create, Created
    <3>4. SlotHasTask' /\ OneAwaited'
      BY <1>1, <3>1 DEF QueueInv, SlotHasTask, OneAwaited, Create, Created
    <3>5. QED
      BY <2>1, <3>3, <3>4 DEF QueueInv
  <2>4. CASE ~(name[i] # NoName /\ Taken(name[i]))
    <3>1. /\ entry' = [entry EXCEPT ![i] = "pending"]
          /\ request' = [request EXCEPT ![i] = "created"]
      BY <1>1, <2>4 DEF Create
    <3>2. \A j \in Pushes : Created(j)' <=> (Created(j) \/ j = i)
      BY <3>1 DEF TypeOK, Created
    <3>3. RequestMadeTask' /\ NameHasTask'
      BY <1>1, <2>2, <3>1, <3>2
         DEF TypeOK, QueueInv, RequestMadeTask, NameHasTask, Create
    <3>4. SlotHasTask' /\ OneAwaited'
      BY <1>1, <2>2, <3>1, <3>2 DEF TypeOK, QueueInv, SlotHasTask, OneAwaited, Create, Created
    <3>5. QED
      BY <2>1, <3>3, <3>4 DEF QueueInv
  <2>5. QED
    BY <2>3, <2>4
<1>2. CASE LoseRequest(i)
  <2>1. TypeOK'
    BY <1>2 DEF TypeOK, LoseRequest
  <2>2. RequestMadeTask' /\ NameHasTask' /\ SlotHasTask' /\ OneAwaited'
    BY <1>2 DEF TypeOK, QueueInv, RequestMadeTask, NameHasTask, SlotHasTask, OneAwaited,
                Created, LoseRequest
  <2>3. QED
    BY <2>1, <2>2 DEF QueueInv
<1>3. CASE Dispatch(i)
  <2>1. TypeOK'
    BY <1>3, DeliveryAssumption DEF TypeOK, Dispatch, Worker!Take, Worker!Works
  <2>2. \A j \in Pushes : Created(j)' <=> Created(j)
    BY <1>3 DEF TypeOK, Created, Dispatch
  <2>3. RequestMadeTask' /\ NameHasTask'
    BY <1>3, <2>2 DEF TypeOK, QueueInv, RequestMadeTask, NameHasTask, Dispatch
  <2>4. PICK s \in Slots : /\ Worker!Take(s)
                          /\ serves' = [serves EXCEPT ![s] = i]
                          /\ attempt' = [attempt EXCEPT ![i] = s]
    BY <1>3 DEF Dispatch
  <2>5. SlotHasTask'
    BY <1>3, <2>2, <2>4 DEF TypeOK, QueueInv, SlotHasTask, Created, Dispatch, Worker!Take
  <2>6. entry' = [entry EXCEPT ![i] = "running"] /\ phase' = [phase EXCEPT ![s] = "serving"]
    BY <1>3, <2>4 DEF Dispatch, Worker!Take
  <2>7. \A j \in Pushes : attempt[j] # s
    BY <2>4, DeliveryAssumption DEF QueueInv, OneAwaited, Worker!Take
  <2>8. OneAwaited'
    BY <2>4, <2>6, <2>7, DeliveryAssumption DEF TypeOK, QueueInv, OneAwaited
  <2>9. QED
    BY <2>1, <2>3, <2>5, <2>8 DEF QueueInv
<1>4. CASE GiveUp(i)
  <2>1. Created(i) /\ Retry(i)
    BY <1>4 DEF GiveUp, Created
  <2>2. /\ entry' \in [Pushes -> {"absent", "pending", "running"} \cup Final]
        /\ entry'[i] # "running" /\ \A j \in Pushes : j # i => entry'[j] = entry[j]
        /\ reserved' \subseteq Names
        /\ \A j \in Pushes : Created(j)' <=> Created(j)
        /\ RequestMadeTask' /\ NameHasTask'
    BY <1>4, <2>1, SettleKeeps DEF GiveUp
  <2>3. TypeOK'
    BY <1>4, <2>2 DEF TypeOK, GiveUp, Final
  <2>4. SlotHasTask'
    BY <1>4, <2>2 DEF QueueInv, SlotHasTask, GiveUp
  <2>5. OneAwaited'
    BY <1>4, <2>2 DEF TypeOK, QueueInv, OneAwaited, GiveUp
  <2>6. QED
    BY <2>2, <2>3, <2>4, <2>5 DEF QueueInv
<1>5. QED
  BY <1>1, <1>2, <1>3, <1>4

LEMMA WorkerKeeps ==
    ASSUME DeliveryInv, NEW s \in Slots, Proceed(s) \/ Answer(s) \/ Crash(s)
    PROVE  DeliveryInv'
PROOF
<1> USE DEF DeliveryInv, pushVars, queueVars, slotVars
<1> DEFINE i == serves[s]
<1>s. phase[s] = "serving" => i \in Pushes /\ Created(i)
  BY DEF QueueInv, SlotHasTask
<1>o. \A j \in Pushes : attempt[j] = s => j = i /\ entry[i] = "running"
  BY DeliveryAssumption DEF QueueInv, OneAwaited
<1>1. CASE Proceed(s)
  <2>1. /\ work' \in [Slots -> Worker!Works] /\ UNCHANGED <<phase, answer>>
        /\ UNCHANGED <<pushVars, queueVars, serves>>
    BY <1>1 DEF TypeOK, Proceed, Worker!Start, Worker!Complete, Worker!Decline, Worker!Break,
                Worker!Advance, Worker!Works
  <2>2. TypeOK'
    BY <2>1 DEF TypeOK
  <2>3. QueueInv'
    BY <2>1 DEF QueueInv, RequestMadeTask, NameHasTask, SlotHasTask, OneAwaited, Created
  <2>4. QED
    BY <2>2, <2>3
<1>2. ASSUME NEW a, phase[s] = "serving",
             Settle(i, a) \/ Retry(i),
             attempt' = [attempt EXCEPT ![i] = Nobody],
             phase' \in {[phase EXCEPT ![s] = "answered"], [phase EXCEPT ![s] = "idle"]},
             work' = work,
             answer' \in [Slots -> {"none"} \cup Worker!Acks \cup Worker!Errors],
             UNCHANGED <<request, attempts, pushVars, serves>>
      PROVE  DeliveryInv'
  <2>1. /\ entry' \in [Pushes -> {"absent", "pending", "running"} \cup Final]
        /\ entry'[i] # "running" /\ \A j \in Pushes : j # i => entry'[j] = entry[j]
        /\ reserved' \subseteq Names
        /\ \A j \in Pushes : Created(j)' <=> Created(j)
        /\ RequestMadeTask' /\ NameHasTask'
    BY <1>2, <1>s, SettleKeeps
  <2>2. TypeOK'
    <3>1. /\ entry' \in [Pushes -> {"absent", "pending", "running", "done", "declined", "exhausted"}]
          /\ reserved' \subseteq Names
          /\ answer' \in [Slots -> {"none"} \cup Worker!Acks \cup Worker!Errors]
      BY <1>2, <2>1 DEF Final
    <3>2. phase' \in [Slots -> {"idle", "serving", "answered"}]
      BY <1>2 DEF TypeOK
    <3>3. attempt' \in [Pushes -> Slots \cup {Nobody}]
      BY <1>2 DEF TypeOK
    <3>4. QED
      BY <1>2, <3>1, <3>2, <3>3 DEF TypeOK, pushVars
  <2>3. SlotHasTask'
    BY <1>2, <2>1 DEF TypeOK, QueueInv, SlotHasTask
  <2>4. OneAwaited'
    BY <1>2, <1>s, <1>o, <2>1 DEF TypeOK, QueueInv, OneAwaited
  <2>5. QED
    BY <2>1, <2>2, <2>3, <2>4 DEF QueueInv
<1>3. ASSUME phase[s] = "serving", ~(attempt[i] = s /\ entry[i] = "running"),
             phase' \in {[phase EXCEPT ![s] = "answered"], [phase EXCEPT ![s] = "idle"]},
             work' = work,
             answer' \in [Slots -> {"none"} \cup Worker!Acks \cup Worker!Errors],
             UNCHANGED <<entry, reserved, attempt, request, attempts, pushVars, serves>>
      PROVE  DeliveryInv'
  <2>1. TypeOK'
    BY <1>3 DEF TypeOK
  <2>2. \A j \in Pushes : attempt[j] # s
    BY <1>3, <1>o
  <2>3. OneAwaited'
    BY <1>3, <2>2 DEF TypeOK, QueueInv, OneAwaited
  <2>4. RequestMadeTask' /\ NameHasTask' /\ SlotHasTask'
    BY <1>3 DEF TypeOK, QueueInv, RequestMadeTask, NameHasTask, SlotHasTask, Created
  <2>5. QED
    BY <2>1, <2>3, <2>4 DEF QueueInv
<1>4. CASE Answer(s)
  <2>1. PICK a \in Answers :
           /\ Worker!Reply(s, a)
           /\ IF attempt[i] = s /\ entry[i] = "running"
                THEN Settle(i, a) /\ attempt' = [attempt EXCEPT ![i] = Nobody]
                ELSE UNCHANGED <<entry, reserved, attempt>>
           /\ UNCHANGED <<request, attempts, pushVars, serves>>
    BY <1>4 DEF Answer
  <2>2. /\ phase[s] = "serving"
        /\ phase' = [phase EXCEPT ![s] = "answered"]
        /\ work' = work
        /\ answer' \in [Slots -> {"none"} \cup Worker!Acks \cup Worker!Errors]
    BY <2>1, DeliveryAssumption DEF TypeOK, Worker!Reply
  <2>3. QED
    BY <2>1, <2>2, <1>2, <1>3
<1>5. CASE Crash(s)
  <2>1. /\ phase[s] = "serving"
        /\ phase' = [phase EXCEPT ![s] = "idle"]
        /\ work' = work /\ answer' = answer
        /\ answer' \in [Slots -> {"none"} \cup Worker!Acks \cup Worker!Errors]
    BY <1>5 DEF TypeOK, Crash, Worker!Stop
  <2>2. CASE attempt[i] = s /\ entry[i] = "running"
    BY <1>5, <2>1, <2>2, <1>2 DEF Crash
  <2>3. CASE ~(attempt[i] = s /\ entry[i] = "running")
    BY <1>5, <2>1, <2>3, <1>3 DEF Crash
  <2>4. QED
    BY <2>2, <2>3
<1>6. QED
  BY <1>1, <1>4, <1>5

(***************************************************************************)
(* Type correctness and QueueInv: whatever is lost, late or given up, no   *)
(* task is attempted more often than its queue allows, a name is refused   *)
(* only for a task that exists or existed, and the queue waits for one     *)
(* attempt of each running task, which is at work on it.                   *)
(***************************************************************************)
LEMMA DeliveryStep == DeliveryInv /\ [Next]_vars => DeliveryInv'
PROOF
<1> SUFFICES ASSUME DeliveryInv, [Next]_vars
             PROVE  DeliveryInv'
  OBVIOUS
<1>1. ASSUME NEW n \in Names, Expire(n)
      PROVE  DeliveryInv'
  <2>1. TypeOK' /\ RequestMadeTask' /\ NameHasTask' /\ SlotHasTask' /\ OneAwaited'
    BY <1>1 DEF DeliveryInv, TypeOK, QueueInv, RequestMadeTask, NameHasTask, SlotHasTask,
                OneAwaited, Created, Expire, pushVars, slotVars
  <2>2. QED
    BY <2>1 DEF DeliveryInv, QueueInv
<1>2. CASE UNCHANGED vars
  BY <1>2 DEF vars, pushVars, queueVars, slotVars, DeliveryInv, TypeOK, QueueInv,
              RequestMadeTask, NameHasTask, SlotHasTask, OneAwaited, Created
<1>3. QED
  BY <1>1, <1>2, ProducerKeeps, QueueKeeps, WorkerKeeps DEF Next

THEOREM QueueCorrect == Spec => []DeliveryInv
PROOF
<1>1. Init => DeliveryInv
  BY DeliveryAssumption DEF Init, DeliveryInv, TypeOK, QueueInv, RequestMadeTask, NameHasTask,
     SlotHasTask, OneAwaited, Created, Worker!Init, Worker!Works
<1>2. QED
  BY <1>1, DeliveryStep, PTL DEF Spec

\* TypeOK is an invariant of Delivery: no task is attempted more often than its queue allows.
THEOREM TypeCorrect == Spec => []TypeOK
PROOF
<1>1. DeliveryInv => TypeOK
  BY DEF DeliveryInv
<1>2. QED
  BY <1>1, QueueCorrect, PTL

-----------------------------------------------------------------------------
(***************************************************************************)
(* Delivery implements AtLeastOnce, step by step.                          *)
(***************************************************************************)
Queued == {i \in Pushes : entry[i] # "absent"}
Awaited == [i \in Pushes |-> IF attempt[i] = Nobody THEN "idle" ELSE work[attempt[i]]]
Fate == [i \in Pushes |-> IF entry[i] \in Final THEN entry[i] ELSE "open"]
Promised == {i \in Pushes : call[i] = "path"}

\* A step that shows neither in the queue nor to the callers is a stutter.
LEMMA StutterSeen ==
    ASSUME UNCHANGED <<name, Queued, attempts, Awaited, Fate, Promised>>
    PROVE  UNCHANGED Promise!pvars
PROOF
  BY DEF Promise!pvars, Queued, Awaited, Fate, Promised, Final

\* The queue stops waiting for the attempt at i: to try again, or because of what it came to.
LEMMA SettleSeen ==
    ASSUME DeliveryInv, NEW i \in Pushes, entry[i] = "running",
           \/ Retry(i)
           \/ Leave(i, "done") /\ work[attempt[i]] = "complete"
           \/ Leave(i, "declined") /\ work[attempt[i]] \in {"none", "declined"},
           attempt' = [attempt EXCEPT ![i] = Nobody],
           UNCHANGED <<pushVars, attempts, work>>
    PROVE  Promise!Next
PROOF
<1> USE DEF DeliveryInv
<1>1. attempt[i] \in Slots /\ Awaited[i] = work[attempt[i]] /\ Awaited[i] # "idle"
  BY DeliveryAssumption DEF TypeOK, QueueInv, OneAwaited, Awaited, Worker!Works
<1>2. Awaited' = [Awaited EXCEPT ![i] = "idle"]
  BY DEF TypeOK, Awaited
<1>3. Promised' = Promised /\ UNCHANGED <<name, attempts>>
  BY DEF Promised, pushVars
<1>4. CASE entry' = [entry EXCEPT ![i] = "pending"] /\ attempts[i] < MaxAttempts
  <2>1. Fate' = Fate /\ Queued' = Queued
    BY <1>4 DEF TypeOK, Fate, Final, Queued
  <2>2. Promise!Retry(i)
    BY <1>1, <1>2, <1>3, <1>4, <2>1
       DEF Promise!Retry, Queued, Awaited, Fate, Promised, Final
  <2>3. QED
    BY <2>2 DEF Promise!Next
<1>5. ASSUME NEW f \in Final, Leave(i, f),
             f = "done" => Awaited[i] = "complete",
             f = "declined" => Awaited[i] \in {"none", "declined"},
             f = "exhausted" => attempts[i] = MaxAttempts
      PROVE  Promise!Next
  <2>1. entry' = [entry EXCEPT ![i] = f]
    BY <1>5 DEF Leave
  <2>2. Fate' = [Fate EXCEPT ![i] = f] /\ Fate[i] = "open"
    BY <1>5, <2>1 DEF TypeOK, Fate, Final
  <2>3. Queued' = Queued
    BY <1>5, <2>1 DEF TypeOK, Final, Queued
  <2>4. Promise!Close(i, f)
    BY <1>1, <1>2, <1>3, <1>5, <2>2, <2>3
       DEF Promise!Close, Queued, Awaited, Fate, Promised, Final
  <2>5. QED
    BY <1>5, <2>4 DEF Promise!Next, Final
<1>6. CASE Retry(i) /\ ~(attempts[i] < MaxAttempts)
  <2>1. Leave(i, "exhausted") /\ attempts[i] = MaxAttempts
    BY <1>6, DeliveryAssumption DEF Retry, TypeOK
  <2>2. QED
    BY <2>1, <1>5 DEF Final
<1>7. CASE Leave(i, "done") /\ work[attempt[i]] = "complete"
  BY <1>1, <1>5, <1>7 DEF Final
<1>8. CASE Leave(i, "declined") /\ work[attempt[i]] \in {"none", "declined"}
  BY <1>1, <1>5, <1>8 DEF Final
<1>9. QED
  BY <1>4, <1>6, <1>7, <1>8 DEF Retry

LEMMA ProducerRefines ==
    ASSUME DeliveryInv, NEW i \in Pushes, Push(i) \/ Return(i) \/ Fail(i)
    PROVE  Promise!Next \/ UNCHANGED Promise!pvars
PROOF
<1> USE DEF DeliveryInv, pushVars, queueVars, slotVars
<1>a. UNCHANGED <<Awaited, attempts, Queued, Fate>>
  BY DEF Push, Return, Fail, Awaited, Queued, Fate
<1>1. CASE Push(i)
  <2>1. i \notin Queued \cup Promised
    BY <1>1 DEF TypeOK, QueueInv, RequestMadeTask, Created, Push, Queued, Promised
  <2>2. Promised' = Promised
    BY <1>1 DEF TypeOK, Push, Promised
  <2>3. Promise!Ask(i)
    BY <1>1, <1>a, <2>1, <2>2 DEF Push, Promise!Ask, Queued, Awaited, Fate, Promised, Final
  <2>4. QED
    BY <2>3 DEF Promise!Next
<1>2. CASE Return(i) /\ call'[i] = "path"
  <2>1. \E j \in Queued : j = i \/ (name[i] # NoName /\ name[j] = name[i])
    <3>1. CASE request[i] = "created"
      BY <3>1 DEF QueueInv, RequestMadeTask, Created, Queued
    <3>2. CASE request[i] = "taken"
      BY <3>2 DEF QueueInv, NameHasTask, Created, Queued
    <3>3. QED
      BY <1>2, <3>1, <3>2 DEF Return
  <2>2. Promised' = Promised \cup {i} /\ name' = name
    BY <1>2 DEF TypeOK, Return, Promised
  <2>3. Promise!Promise(i)
    BY <1>a, <2>1, <2>2 DEF Promise!Promise, Queued, Awaited, Fate, Promised, Final
  <2>4. QED
    BY <2>3 DEF Promise!Next
<1>3. CASE Fail(i) \/ (Return(i) /\ call'[i] # "path")
  <2>1. Promised' = Promised /\ name' = name
    BY <1>3 DEF TypeOK, Fail, Return, Promised
  <2>2. QED
    BY <1>a, <2>1, StutterSeen
<1>4. QED
  BY <1>1, <1>2, <1>3

LEMMA QueueRefines ==
    ASSUME DeliveryInv, NEW i \in Pushes,
           Create(i) \/ LoseRequest(i) \/ Dispatch(i) \/ GiveUp(i)
    PROVE  Promise!Next \/ UNCHANGED Promise!pvars
PROOF
<1> USE DEF DeliveryInv, pushVars, queueVars, slotVars
<1>a. UNCHANGED <<name, Promised>>
  BY DEF Create, LoseRequest, Dispatch, GiveUp, Promised
<1>1. CASE Create(i) /\ entry' # entry
  <2>1. entry[i] = "absent" /\ entry' = [entry EXCEPT ![i] = "pending"]
    BY <1>1 DEF QueueInv, RequestMadeTask, Created, Create
  <2>2. i \notin Queued /\ Queued' = Queued \cup {i}
    BY <2>1 DEF TypeOK, Queued
  <2>3. UNCHANGED <<Awaited, attempts, Fate>>
    BY <1>1, <2>1 DEF TypeOK, Create, Awaited, Fate, Final
  <2>4. Promise!Schedule(i)
    BY <1>a, <2>2, <2>3 DEF Promise!Schedule, Queued, Awaited, Fate, Promised, Final
  <2>5. QED
    BY <2>4 DEF Promise!Next
<1>2. CASE LoseRequest(i) \/ (Create(i) /\ entry' = entry)
  BY <1>2, <1>a, StutterSeen DEF LoseRequest, Create, Queued, Awaited, Fate
<1>3. CASE Dispatch(i)
  <2>1. entry[i] = "pending" /\ entry' = [entry EXCEPT ![i] = "running"]
    BY <1>3 DEF Dispatch
  <2>2. /\ Queued' = Queued /\ i \in Queued
        /\ Fate' = Fate /\ Fate[i] = "open"
    BY <2>1 DEF TypeOK, Queued, Fate, Final
  <2>3. PICK s \in Slots : Worker!Take(s) /\ attempt' = [attempt EXCEPT ![i] = s]
    BY <1>3 DEF Dispatch
  <2>4. attempt[i] = Nobody /\ \A j \in Pushes : attempt[j] # s
    BY <2>1, <2>3, DeliveryAssumption DEF TypeOK, QueueInv, OneAwaited, Worker!Take
  <2>5. Awaited[i] = "idle" /\ Awaited' = [Awaited EXCEPT ![i] = "none"]
    <3>1. attempt'[i] = s /\ s # Nobody /\ work'[s] = "none"
      BY <2>3, DeliveryAssumption DEF TypeOK, Worker!Take
    <3>2. ASSUME NEW j \in Pushes, j # i
          PROVE  Awaited'[j] = Awaited[j]
      BY <2>3, <2>4, <3>2 DEF TypeOK, Awaited, Worker!Take
    <3>3. QED
      BY <2>4, <3>1, <3>2 DEF Awaited
  <2>6. attempts[i] < MaxAttempts /\ attempts' = [attempts EXCEPT ![i] = @ + 1]
    BY <1>3 DEF Dispatch
  <2>7. Promise!Try(i)
    BY <1>a, <2>2, <2>5, <2>6 DEF Promise!Try, Queued, Awaited, Fate, Promised, Final
  <2>8. QED
    BY <2>7 DEF Promise!Next
<1>4. CASE GiveUp(i)
  BY <1>4, SettleSeen DEF GiveUp
<1>5. QED
  BY <1>1, <1>2, <1>3, <1>4

\* The attempt at the task of slot s moves on, and the queue sees it if it waits for this attempt.
LEMMA ProgressSeen ==
    ASSUME DeliveryInv, NEW s \in Slots, Proceed(s)
    PROVE  Promise!Next \/ UNCHANGED Promise!pvars
PROOF
<1> USE DEF DeliveryInv, pushVars, queueVars, slotVars
<1>1. UNCHANGED <<name, Queued, attempts, attempt, Fate, Promised>>
  BY DEF Proceed, Queued, Fate, Promised
<1>2. PICK w \in {"begun", "complete", "declined", "failed"} :
         /\ work' = [work EXCEPT ![s] = w]
         /\ work[s] \in CASE w = "begun"    -> {"none"}
                          [] w = "complete" -> {"begun"}
                          [] OTHER          -> {"begun", "complete", "declined", "failed"}
  BY DEF Proceed, Worker!Start, Worker!Complete, Worker!Decline, Worker!Break, Worker!Advance
<1>3. CASE \E i \in Pushes : attempt[i] = s
  <2>1. PICK i \in Pushes : attempt[i] = s
    BY <1>3
  <2>2. \A j \in Pushes : j # i => attempt[j] # s
    BY <2>1, DeliveryAssumption DEF QueueInv, OneAwaited
  <2>3. attempt[i] # Nobody /\ attempt' = attempt /\ work'[s] = w
    BY <1>1, <1>2, <2>1, DeliveryAssumption DEF TypeOK
  <2>4. Awaited'[i] = w /\ \A j \in Pushes \ {i} : Awaited'[j] = Awaited[j]
    BY <1>2, <2>1, <2>2, <2>3, DeliveryAssumption DEF TypeOK, Awaited
  <2>5. Awaited[i] = work[s] /\ Awaited' = [Awaited EXCEPT ![i] = w]
    BY <2>1, <2>3, <2>4 DEF Awaited
  <2>6. Promise!Progress(i)
    BY <1>1, <1>2, <2>5 DEF Promise!Progress, Queued, Awaited, Fate, Promised, Final
  <2>7. QED
    BY <2>6 DEF Promise!Next
<1>4. CASE \A i \in Pushes : attempt[i] # s
  <2>1. Awaited' = Awaited
    BY <1>1, <1>2, <1>4 DEF TypeOK, Awaited
  <2>2. QED
    BY <1>1, <2>1, StutterSeen
<1>5. QED
  BY <1>3, <1>4

LEMMA WorkerRefines ==
    ASSUME DeliveryInv, NEW s \in Slots, Proceed(s) \/ Answer(s) \/ Crash(s)
    PROVE  Promise!Next \/ UNCHANGED Promise!pvars
PROOF
<1> USE DEF DeliveryInv, pushVars, queueVars, slotVars
<1> DEFINE i == serves[s]
<1>s. phase[s] = "serving" => i \in Pushes
  BY DEF QueueInv, SlotHasTask
<1>1. ASSUME UNCHANGED <<pushVars, entry, attempts, attempt, work>>
      PROVE  UNCHANGED Promise!pvars
  BY <1>1, StutterSeen DEF Queued, Awaited, Fate, Promised
<1>2. CASE Answer(s)
  <2>1. PICK a \in Answers :
           /\ Worker!Reply(s, a)
           /\ IF attempt[i] = s /\ entry[i] = "running"
                THEN Settle(i, a) /\ attempt' = [attempt EXCEPT ![i] = Nobody]
                ELSE UNCHANGED <<entry, reserved, attempt>>
           /\ UNCHANGED <<pushVars, attempts>>
    BY <1>2 DEF Answer
  <2>2. /\ i \in Pushes /\ work' = work
        /\ a = "success" => work[s] = "complete"
        /\ a \in {"aborted", "rejected"} => work[s] \in {"none", "declined"}
    BY <2>1, <1>s DEF Worker!Reply
  <2>3. CASE attempt[i] = s /\ entry[i] = "running"
    <3>1. \/ Retry(i)
          \/ Leave(i, "done") /\ work[attempt[i]] = "complete"
          \/ Leave(i, "declined") /\ work[attempt[i]] \in {"none", "declined"}
      BY <2>1, <2>2, <2>3 DEF Settle
    <3>2. QED
      BY <2>1, <2>2, <2>3, <3>1, SettleSeen
  <2>4. CASE ~(attempt[i] = s /\ entry[i] = "running")
    BY <2>1, <2>2, <2>4, <1>1
  <2>5. QED
    BY <2>3, <2>4
<1>3. CASE Crash(s)
  <2>1. i \in Pushes /\ work' = work
    BY <1>3, <1>s DEF Crash, Worker!Stop
  <2>2. CASE attempt[i] = s /\ entry[i] = "running"
    BY <1>3, <2>1, <2>2, SettleSeen DEF Crash
  <2>3. CASE ~(attempt[i] = s /\ entry[i] = "running")
    BY <1>3, <2>1, <2>3, <1>1 DEF Crash
  <2>4. QED
    BY <2>2, <2>3
<1>4. QED
  BY <1>2, <1>3, ProgressSeen

LEMMA DeliveryRefines == DeliveryInv /\ [Next]_vars => [Promise!Next]_(Promise!pvars)
PROOF
<1> SUFFICES ASSUME DeliveryInv, [Next]_vars
             PROVE  Promise!Next \/ UNCHANGED Promise!pvars
  OBVIOUS
<1>1. ASSUME NEW n \in Names, Expire(n)
      PROVE  UNCHANGED Promise!pvars
  BY <1>1, StutterSeen DEF Expire, pushVars, slotVars, Queued, Awaited, Fate, Promised
<1>2. CASE UNCHANGED vars
  BY <1>2, StutterSeen DEF vars, pushVars, queueVars, slotVars, Queued, Awaited, Fate, Promised
<1>3. QED
  BY <1>1, <1>2, ProducerRefines, QueueRefines, WorkerRefines DEF Next

(***************************************************************************)
(* The end-to-end promise, for any number of pushes, names, slots and      *)
(* attempts: a push that returned a path stands for a task that was        *)
(* created, and a task leaves the queue only by the attempt that the queue *)
(* waits for, and as that attempt came out: complete, refused before it    *)
(* began or called off, or the last one allowed.                           *)
(***************************************************************************)
THEOREM DeliveryKeepsPromise == Spec => KeepsPromise
PROOF
<1>1. Init => Promise!Init
  BY DEF Init, Promise!Init
<1>2. Spec => Promise!Init /\ [][Promise!Next]_(Promise!pvars)
  BY <1>1, QueueCorrect, DeliveryRefines, PTL DEF Spec
<1>3. QED
  BY <1>2 DEF KeepsPromise, Promise!Spec
=============================================================================
