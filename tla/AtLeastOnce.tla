---------------------------- MODULE AtLeastOnce ----------------------------
(***************************************************************************)
(* What cloudtask promises end to end: a push that returned a path stands  *)
(* for a task that is in the queue (its own, or another of the same name). *)
(* A task is attempted again and again, and leaves the queue only when the *)
(* attempt that the queue waits for ran to the end, was refused before the *)
(* function began or called off by the task's own code, or was the last    *)
(* one the queue allows.                                                   *)
(***************************************************************************)
EXTENDS Naturals

CONSTANTS Pushes, Names, NoName, MaxAttempts

VARIABLES
    name,      \* the name each push asked for
    queued,    \* the pushes whose task was created
    attempts,  \* how often each task was attempted
    awaited,   \* what the attempt that the queue waits for came to, idle if there is none
    fate,      \* open, done, declined or exhausted
    promised   \* the pushes that returned a path

pvars == <<name, queued, attempts, awaited, fate, promised>>

Init ==
    /\ name = [i \in Pushes |-> NoName]
    /\ queued = {} /\ promised = {}
    /\ attempts = [i \in Pushes |-> 0]
    /\ awaited = [i \in Pushes |-> "idle"]
    /\ fate = [i \in Pushes |-> "open"]

\* A push chooses its name.
Ask(i) ==
    /\ i \notin queued \cup promised
    /\ \E n \in Names \cup {NoName} : name' = [name EXCEPT ![i] = n]
    /\ UNCHANGED <<queued, attempts, awaited, fate, promised>>

Schedule(i) ==
    /\ i \notin queued
    /\ queued' = queued \cup {i}
    /\ UNCHANGED <<name, attempts, awaited, fate, promised>>

Try(i) ==
    /\ i \in queued /\ fate[i] = "open" /\ awaited[i] = "idle"
    /\ attempts[i] < MaxAttempts
    /\ attempts' = [attempts EXCEPT ![i] = @ + 1]
    /\ awaited' = [awaited EXCEPT ![i] = "none"]
    /\ UNCHANGED <<name, queued, fate, promised>>

\* The function begins, returns, fails or calls the task off, and what closes after it may
\* fail or call it off yet.
Progress(i) ==
    /\ \E w \in {"begun", "complete", "declined", "failed"} :
          /\ awaited[i] \in CASE w = "begun"    -> {"none"}
                              [] w = "complete" -> {"begun"}
                              [] OTHER          -> {"begun", "complete", "declined", "failed"}
          /\ awaited' = [awaited EXCEPT ![i] = w]
    /\ UNCHANGED <<name, queued, attempts, fate, promised>>

\* The attempt is over, or given up, and there will be another one.
Retry(i) ==
    /\ awaited[i] # "idle" /\ attempts[i] < MaxAttempts
    /\ awaited' = [awaited EXCEPT ![i] = "idle"]
    /\ UNCHANGED <<name, queued, attempts, fate, promised>>

Close(i, f) ==
    /\ fate[i] = "open" /\ awaited[i] # "idle"
    /\ f = "done" => awaited[i] = "complete"
    /\ f = "declined" => awaited[i] \in {"none", "declined"}
    /\ f = "exhausted" => attempts[i] = MaxAttempts
    /\ fate' = [fate EXCEPT ![i] = f]
    /\ awaited' = [awaited EXCEPT ![i] = "idle"]
    /\ UNCHANGED <<name, queued, attempts, promised>>

Promise(i) ==
    /\ \E j \in queued : j = i \/ (name[i] # NoName /\ name[j] = name[i])
    /\ promised' = promised \cup {i}
    /\ UNCHANGED <<name, queued, attempts, awaited, fate>>

Next == \E i \in Pushes :
    \/ Ask(i) \/ Schedule(i) \/ Try(i) \/ Progress(i) \/ Retry(i) \/ Promise(i)
    \/ \E f \in {"done", "declined", "exhausted"} : Close(i, f)

Spec == Init /\ [][Next]_pvars
=============================================================================
