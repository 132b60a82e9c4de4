----------------------------- MODULE Deployment -----------------------------
(***************************************************************************)
(* Delivery during a blue/green deployment: instances of two revisions of  *)
(* the application push and work at the same time, and a task pushed by    *)
(* one may reach the other.                                                *)
(*                                                                         *)
(*   fastapi.py   _run_task: what it answers for an unknown task           *)
(*   executor.py  resolve_function, and bind_partial in _prepare_execution *)
(*   external     the deployment                                           *)
(***************************************************************************)
EXTENDS Delivery

CONSTANTS
    RevisionOf,         \* the revision each slot runs
    Mixes,              \* what the deployment may do to the functions of the pushes
    RetryUnknownTasks   \* client.retry_unknown_tasks

Revisions == {"old", "new"}
Changes == {"kept", "added", "removed", "changed"}

ASSUME DeploymentAssumption ==
    /\ RevisionOf \in [Slots -> Revisions]
    /\ Mixes \subseteq [Pushes -> Changes]
    /\ RetryUnknownTasks \in BOOLEAN
    /\ {"rejected", "404"} \subseteq Answers

VARIABLES
    live,      \* the revisions that get traffic
    task,      \* what the deployment did to the function of each push
    signature, \* the revision whose signature the arguments are for, where they differ
    decided    \* (history) the slot whose answer took the task out of the queue

deployVars == <<live, task, signature, decided>>
allVars == <<vars, deployVars>>

DeploymentTypeOK ==
    /\ TypeOK
    /\ live \in {{"old"}, {"old", "new"}, {"new"}}
    /\ task \in [Pushes -> Changes]
    /\ signature \in [Pushes -> Revisions]
    /\ decided \in [Pushes -> Slots \cup {Nobody}]

DInit ==
    /\ Init
    /\ live = {"old"}
    /\ task \in Mixes
    /\ signature = [i \in Pushes |-> "old"]
    /\ decided = [i \in Pushes |-> Nobody]

\* The registry of revision r has the task's path.
Registered(r, i) ==
    (task[i] = "added" => r = "new") /\ (task[i] = "removed" => r = "old")

\* The arguments pushed fit the signature that revision r has.
Fits(r, i) == task[i] = "changed" => r = signature[i]

-----------------------------------------------------------------------------
\* (external) The new revision starts, the old one stops, or the deployment is rolled back.
Deploy ==
    /\ live' \in {{"old"}, Revisions, {"new"}}
    /\ live # {"new"} /\ (live = {"old"} => live' = Revisions) /\ live' # live
    /\ UNCHANGED <<vars, task, signature, decided>>

\* Bound: if_exists only matters to names, which Delivery is about.
DPush(i) ==
    /\ \E r \in live :
          /\ Registered(r, i)
          /\ signature' = [signature EXCEPT ![i] = IF task[i] = "changed" THEN r ELSE @]
    /\ Push(i) /\ if_exists'[i] = "ignore"
    /\ UNCHANGED <<live, task, decided>>

\* Instances that get no traffic finish what they have.
DDispatch(i) ==
    /\ Dispatch(i)
    /\ RevisionOf[attempt'[i]] \in live
    /\ UNCHANGED deployVars

\* The function of a registered task begins if the arguments fit it: the call raises TypeError
\* for the one that bind_partial did not miss. Bound: no function calls its task off.
DProceed(s) ==
    /\ Proceed(s)
    /\ work[s] = "none" =>
          Registered(RevisionOf[s], serves[s]) /\ Fits(RevisionOf[s], serves[s])
    /\ work'[s] # "declined"
    /\ UNCHANGED deployVars

\* Mutant: retry_unknown_tasks is not looked at.
RejectUnknown == "rejected"

UnknownAnswer == IF RetryUnknownTasks THEN "404" ELSE "rejected"

\* Arguments too many are rejected by bind_partial; one that is missing fails the call.
Verdicts(r, i) ==
    CASE ~Registered(r, i) -> {UnknownAnswer}
      [] Registered(r, i) /\ ~Fits(r, i) -> {"rejected", "500"}
      [] OTHER -> Answers \ {"rejected", "404"}

DAnswer(s) ==
    LET i == serves[s] IN
    /\ Answer(s)
    /\ answer'[s] \in Verdicts(RevisionOf[s], i)
    /\ decided' = IF Live(i) /\ ~Live(i)' THEN [decided EXCEPT ![i] = s] ELSE decided
    /\ UNCHANGED <<live, task, signature>>

\* Bound: the producer's calls neither return nor fail here; what Delivery shows of them does not
\* depend on the workers.
DNext ==
    \/ Deploy
    \/ \E i \in Pushes : DPush(i) \/ DDispatch(i)
    \/ \E s \in Slots : DProceed(s) \/ DAnswer(s)
    \/ /\ \/ \E i \in Pushes : Create(i) \/ GiveUp(i)
          \/ \E s \in Slots : Crash(s)
       /\ UNCHANGED deployVars

DSpec == DInit /\ [][DNext]_allVars

(***************************************************************************)
(* The queue dispatches what is pending, and the worker answers what it    *)
(* takes: Worker shows that every request is answered when its function    *)
(* ends. Nothing is assumed of the network, the callers, crashes or the    *)
(* deployment.                                                             *)
(***************************************************************************)
DFairSpec ==
    /\ DSpec
    /\ \A i \in Pushes : WF_allVars(DDispatch(i))
    /\ \A s \in Slots : WF_allVars(DAnswer(s))

-----------------------------------------------------------------------------
(***************************************************************************)
(* Properties                                                              *)
(***************************************************************************)

(***************************************************************************)
(* With retry_unknown_tasks a deployment decides no task that its worker   *)
(* does not know: what ends a task, other than its attempts, is an answer  *)
(* of an instance that has its code, and a rejection is for arguments that *)
(* another revision pushed.                                                *)
(***************************************************************************)
DeployLosesNothing ==
    \A i \in Pushes : entry[i] \in {"done", "declined"} =>
        LET s == decided[i] IN
        /\ s # Nobody /\ Registered(RevisionOf[s], i)
        /\ Fits(RevisionOf[s], i) \/ entry[i] = "declined"
=============================================================================
