------------------------------ MODULE Delivery ------------------------------
(***************************************************************************)
(* A task from push() to the end of its life in the queue.                 *)
(*                                                                         *)
(*   core.py      Task.push and sync_push (production), the names, the     *)
(*                errors                                                   *)
(*   Attempt      what the worker promises about each attempt              *)
(*   external     Cloud Tasks: names, dispatch, deadline, retries; the     *)
(*                network and the processes, which fail                    *)
(*                                                                         *)
(* A push that failed is tried again by pushing again: each push is made   *)
(* once here, and pushes happen in any order and at the same time.         *)
(***************************************************************************)
EXTENDS Naturals

CONSTANTS
    Pushes,        \* the calls of push()
    Names,         \* task names
    NoName,
    Slots,         \* the worker's execution slots
    Nobody,        \* what an unused slot serves
    MaxAttempts,   \* external: the queue's maximum of attempts
    Answers        \* bound: the answers the worker gives, of those in Attempt

VARIABLES
    name,       \* the name each push resolved
    if_exists,  \* its if_exists
    call,       \* the push itself: unmade, waiting, or what it returned or raised
    request,    \* (external) its create_task request: none, inflight, created, taken, lost
    entry,      \* (external) its task in the queue
    attempts,   \* (external) attempts made
    attempt,    \* (external) the slot whose answer the queue waits for
    reserved,   \* (external) names kept after their task left the queue
    serves,     \* the task each slot serves
    phase, work, answer    \* of Attempt

pushVars == <<name, if_exists, call>>
queueVars == <<request, entry, attempts, attempt, reserved>>
slotVars == <<serves, phase, work, answer>>
vars == <<pushVars, queueVars, slotVars>>

Worker == INSTANCE Attempt

ASSUME DeliveryAssumption ==
    /\ NoName \notin Names
    /\ Nobody \notin Pushes \cup Slots
    /\ MaxAttempts \in Nat \ {0}
    /\ {"success", "500"} \subseteq Answers
    /\ Answers \subseteq Worker!Acks \cup Worker!Errors

TypeOK ==
    /\ name \in [Pushes -> Names \cup {NoName}]
    /\ if_exists \in [Pushes -> {"ignore", "raise"}]
    /\ call \in [Pushes -> {"unmade", "waiting", "path", "TaskAlreadyExists", "TaskPushError"}]
    /\ request \in [Pushes -> {"none", "inflight", "created", "taken", "lost"}]
    /\ entry \in [Pushes -> {"absent", "pending", "running", "done", "declined", "exhausted"}]
    /\ attempts \in [Pushes -> 0..MaxAttempts]
    /\ attempt \in [Pushes -> Slots \cup {Nobody}]
    /\ reserved \subseteq Names
    /\ serves \in [Slots -> Pushes \cup {Nobody}]
    /\ phase \in [Slots -> {"idle", "serving", "answered"}]
    /\ work \in [Slots -> Worker!Works]
    /\ answer \in [Slots -> {"none"} \cup Worker!Acks \cup Worker!Errors]

Init ==
    /\ name = [i \in Pushes |-> NoName]
    /\ if_exists = [i \in Pushes |-> "ignore"]
    /\ call = [i \in Pushes |-> "unmade"]
    /\ request = [i \in Pushes |-> "none"]
    /\ entry = [i \in Pushes |-> "absent"]
    /\ attempts = [i \in Pushes |-> 0]
    /\ attempt = [i \in Pushes |-> Nobody]
    /\ reserved = {}
    /\ serves = [s \in Slots |-> Nobody]
    /\ Worker!Init

-----------------------------------------------------------------------------
(***************************************************************************)
(* The producer                                                            *)
(***************************************************************************)

\* push() resolves the name and sends its request.
Push(i) ==
    /\ call[i] = "unmade"
    /\ \E n \in Names \cup {NoName}, e \in {"ignore", "raise"} :
          /\ name' = [name EXCEPT ![i] = n]
          /\ if_exists' = [if_exists EXCEPT ![i] = e]
    /\ call' = [call EXCEPT ![i] = "waiting"]
    /\ request' = [request EXCEPT ![i] = "inflight"]
    /\ UNCHANGED <<entry, attempts, attempt, reserved, slotVars>>

\* _handle_already_exists
HandleAlreadyExists(i) == IF if_exists[i] = "raise" THEN "TaskAlreadyExists" ELSE "path"

\* Mutant: what create_task replied is returned as it is.
ReturnReply(i) ==
    /\ call[i] = "waiting"
    /\ request[i] \in {"created", "taken"}
    /\ call' = [call EXCEPT ![i] = request[i]]
    /\ UNCHANGED <<name, if_exists, queueVars, slotVars>>

\* The reply of create_task arrives.
Return(i) ==
    /\ call[i] = "waiting"
    /\ request[i] \in {"created", "taken"}
    /\ call' = [call EXCEPT ![i] =
                   IF request[i] = "created" THEN "path" ELSE HandleAlreadyExists(i)]
    /\ UNCHANGED <<name, if_exists, queueVars, slotVars>>

\* Mutant: a call that times out is taken for one that succeeded.
FailAsSuccess(i) ==
    /\ call[i] = "waiting"
    /\ call' = [call EXCEPT ![i] = "path"]
    /\ UNCHANGED <<name, if_exists, queueVars, slotVars>>

\* create_task fails (a timeout, a lost connection), whatever became of the request.
Fail(i) ==
    /\ call[i] = "waiting"
    /\ call' = [call EXCEPT ![i] = "TaskPushError"]
    /\ UNCHANGED <<name, if_exists, queueVars, slotVars>>

-----------------------------------------------------------------------------
(***************************************************************************)
(* Cloud Tasks and the network                                             *)
(***************************************************************************)
Live(i) == entry[i] \in {"pending", "running"}
Taken(n) == n \in reserved \/ \E j \in Pushes : Live(j) /\ name[j] = n

\* The request arrives, perhaps after its caller gave up on it.
Create(i) ==
    /\ request[i] = "inflight"
    /\ IF name[i] # NoName /\ Taken(name[i])
         THEN request' = [request EXCEPT ![i] = "taken"] /\ UNCHANGED entry
         ELSE /\ request' = [request EXCEPT ![i] = "created"]
              /\ entry' = [entry EXCEPT ![i] = "pending"]
    /\ UNCHANGED <<attempts, attempt, reserved, pushVars, slotVars>>

LoseRequest(i) ==
    /\ request[i] = "inflight"
    /\ request' = [request EXCEPT ![i] = "lost"]
    /\ UNCHANGED <<entry, attempts, attempt, reserved, pushVars, slotVars>>

\* The task leaves the queue for the reason f, and its name stays reserved.
Leave(i, f) ==
    /\ entry' = [entry EXCEPT ![i] = f]
    /\ reserved' = reserved \cup ({name[i]} \ {NoName})

\* An attempt failed: the task goes back to the queue while it has attempts left.
Retry(i) ==
    IF attempts[i] < MaxAttempts
      THEN entry' = [entry EXCEPT ![i] = "pending"] /\ UNCHANGED reserved
      ELSE Leave(i, "exhausted")

\* The name of a task that has left the queue is free again, after about an hour.
Expire(n) ==
    /\ n \in reserved
    /\ reserved' = reserved \ {n}
    /\ UNCHANGED <<request, entry, attempts, attempt, pushVars, slotVars>>

Dispatch(i) ==
    /\ entry[i] = "pending" /\ attempts[i] < MaxAttempts
    /\ \E s \in Slots :
          /\ Worker!Take(s)
          /\ serves' = [serves EXCEPT ![s] = i]
          /\ attempt' = [attempt EXCEPT ![i] = s]
    /\ entry' = [entry EXCEPT ![i] = "running"]
    /\ attempts' = [attempts EXCEPT ![i] = @ + 1]
    /\ UNCHANGED <<request, reserved, pushVars>>

\* The dispatch deadline passes, or the answer is lost; the worker carries on.
GiveUp(i) ==
    /\ entry[i] = "running"
    /\ Retry(i)
    /\ attempt' = [attempt EXCEPT ![i] = Nobody]
    /\ UNCHANGED <<request, attempts, pushVars, slotVars>>

\* Mutant: every answer ends the task.
SettleByAnswer(i, a) == Leave(i, a)

\* What the queue does with the answer a to the attempt of i.
Settle(i, a) ==
    CASE a = "success"                -> Leave(i, "done")
      [] a \in {"aborted", "rejected"} -> Leave(i, "declined")
      [] OTHER                        -> Retry(i)

-----------------------------------------------------------------------------
(***************************************************************************)
(* The worker                                                              *)
(***************************************************************************)

\* The function begins and returns, and the attempt's own code calls the task off or fails.
Proceed(s) ==
    /\ Worker!Start(s) \/ Worker!Complete(s) \/ Worker!Decline(s) \/ Worker!Break(s)
    /\ UNCHANGED <<pushVars, queueVars, serves>>

\* Mutant: an attempt that did not come to its end is left without an answer.
AnswerWhenComplete(s) ==
    LET i == serves[s] IN
    /\ work[s] = "complete"
    /\ Worker!Reply(s, "success")
    /\ IF attempt[i] = s /\ entry[i] = "running"
         THEN Settle(i, "success") /\ attempt' = [attempt EXCEPT ![i] = Nobody]
         ELSE UNCHANGED <<entry, reserved, attempt>>
    /\ UNCHANGED <<request, attempts, pushVars, serves>>

\* Mutant: an answer settles the task whichever attempt it is of.
AnswerAnyAttempt(s) ==
    LET i == serves[s] IN
    \E a \in Answers :
        /\ Worker!Reply(s, a)
        /\ IF entry[i] = "running"
             THEN Settle(i, a) /\ attempt' = [attempt EXCEPT ![i] = Nobody]
             ELSE UNCHANGED <<entry, reserved, attempt>>
        /\ UNCHANGED <<request, attempts, pushVars, serves>>

\* The worker answers; the queue only listens to the attempt it waits for.
Answer(s) ==
    LET i == serves[s] IN
    \E a \in Answers :
        /\ Worker!Reply(s, a)
        /\ IF attempt[i] = s /\ entry[i] = "running"
             THEN Settle(i, a) /\ attempt' = [attempt EXCEPT ![i] = Nobody]
             ELSE UNCHANGED <<entry, reserved, attempt>>
        /\ UNCHANGED <<request, attempts, pushVars, serves>>

\* Mutant: a task whose worker died is not tried again.
CrashDrops(s) ==
    LET i == serves[s] IN
    /\ Worker!Stop(s)
    /\ IF attempt[i] = s /\ entry[i] = "running"
         THEN Leave(i, "declined") /\ attempt' = [attempt EXCEPT ![i] = Nobody]
         ELSE UNCHANGED <<entry, reserved, attempt>>
    /\ UNCHANGED <<request, attempts, pushVars, serves>>

\* The worker's process dies during an attempt.
Crash(s) ==
    LET i == serves[s] IN
    /\ Worker!Stop(s)
    /\ IF attempt[i] = s /\ entry[i] = "running"
         THEN Retry(i) /\ attempt' = [attempt EXCEPT ![i] = Nobody]
         ELSE UNCHANGED <<entry, reserved, attempt>>
    /\ UNCHANGED <<request, attempts, pushVars, serves>>

Next ==
    \/ \E i \in Pushes : \/ Push(i) \/ Return(i) \/ Fail(i)
                         \/ Create(i) \/ LoseRequest(i) \/ Dispatch(i) \/ GiveUp(i)
    \/ \E n \in Names : Expire(n)
    \/ \E s \in Slots : Proceed(s) \/ Answer(s) \/ Crash(s)

Spec == Init /\ [][Next]_vars

-----------------------------------------------------------------------------
(***************************************************************************)
(* Properties                                                              *)
(***************************************************************************)

(***************************************************************************)
(* The end-to-end promise, with lost and late requests, lost answers,      *)
(* crashes and concurrent attempts at one task: a task ends by the attempt *)
(* that the queue waits for, and as that attempt came out.                 *)
(***************************************************************************)
Promise == INSTANCE AtLeastOnce WITH
    queued   <- {i \in Pushes : entry[i] # "absent"},
    awaited  <- [i \in Pushes |-> IF attempt[i] = Nobody THEN "idle" ELSE work[attempt[i]]],
    fate     <- [i \in Pushes |-> IF entry[i] \in {"done", "declined", "exhausted"}
                                    THEN entry[i] ELSE "open"],
    promised <- {i \in Pushes : call[i] = "path"}

KeepsPromise == Promise!Spec

(***************************************************************************)
(* A task that was created is finished with one day: it ran, it was called *)
(* off or refused, or it failed as often as the queue allows.              *)
(***************************************************************************)
EveryTaskSettled ==
    \A i \in Pushes : (entry[i] = "pending") ~> (entry[i] \in {"done", "declined", "exhausted"})
=============================================================================
