-------------------------- MODULE DeploymentProofs --------------------------
(***************************************************************************)
(* Theorems about Deployment, for every set of pushes, slots, revisions of *)
(* the slots and changes of the functions.                                 *)
(***************************************************************************)
EXTENDS Deployment, DeliveryProofs

-----------------------------------------------------------------------------
(***************************************************************************)
(* A deployment only takes steps of Delivery.                              *)
(***************************************************************************)
LEMMA DeploymentIsDelivery == [DNext]_allVars => [Next]_vars
PROOF
<1> SUFFICES ASSUME [DNext]_allVars
             PROVE  Next \/ UNCHANGED vars
  OBVIOUS
<1>1. CASE Deploy
  BY <1>1 DEF Deploy
<1>2. ASSUME NEW i \in Pushes, DPush(i) \/ DDispatch(i)
      PROVE  Next
  BY <1>2 DEF DPush, DDispatch, Next
<1>3. ASSUME NEW s \in Slots, DProceed(s) \/ DAnswer(s)
      PROVE  Next
  BY <1>3 DEF DProceed, DAnswer, Next
<1>4. CASE \/ \E i \in Pushes : Create(i) \/ GiveUp(i)
           \/ \E s \in Slots : Crash(s)
  BY <1>4 DEF Next
<1>5. CASE UNCHANGED allVars
  BY <1>5 DEF allVars
<1>6. QED
  BY <1>1, <1>2, <1>3, <1>4, <1>5 DEF DNext

\* So Delivery's invariant holds in every deployment.
LEMMA DeploymentQueue == DSpec => []DeliveryInv
PROOF
<1>1. DInit => DeliveryInv
  BY DeliveryAssumption DEF DInit, Init, DeliveryInv, TypeOK, QueueInv, RequestMadeTask,
     NameHasTask, SlotHasTask, OneAwaited, Created, Worker!Init, Worker!Works
<1>2. DeliveryInv /\ [DNext]_allVars => DeliveryInv'
  BY DeploymentIsDelivery, DeliveryStep
<1>3. QED
  BY <1>1, <1>2, PTL DEF DSpec

(***************************************************************************)
(* The end-to-end promise survives a deployment and its rollback: the      *)
(* tasks of both revisions are kept as AtLeastOnce says.                   *)
(***************************************************************************)
THEOREM DeploymentKeepsPromise == DSpec => KeepsPromise
PROOF
<1>1. DInit => Promise!Init
  BY DEF DInit, Init, Promise!Init
<1>2. DeliveryInv /\ [DNext]_allVars => [Promise!Next]_(Promise!pvars)
  BY DeploymentIsDelivery, DeliveryRefines
<1>3. DSpec => Promise!Init /\ [][Promise!Next]_(Promise!pvars)
  BY <1>1, <1>2, DeploymentQueue, PTL DEF DSpec
<1>4. QED
  BY <1>3 DEF KeepsPromise, Promise!Spec

-----------------------------------------------------------------------------
(***************************************************************************)
(* Type correctness.                                                       *)
(***************************************************************************)

\* DeploymentTypeOK is an invariant of every deployment.
THEOREM DeploymentTypeCorrect == DSpec => []DeploymentTypeOK
PROOF
<1>1. DInit => DeploymentTypeOK
  <2>1. DInit => DeliveryInv
    BY DeliveryAssumption DEF DInit, Init, DeliveryInv, TypeOK, QueueInv, RequestMadeTask,
       NameHasTask, SlotHasTask, OneAwaited, Created, Worker!Init, Worker!Works
  <2>2. QED
    BY <2>1, DeploymentAssumption DEF DInit, DeploymentTypeOK, DeliveryInv, Revisions
<1>2. DeliveryInv /\ DeploymentTypeOK /\ DeliveryInv' /\ [DNext]_allVars => DeploymentTypeOK'
  <2> SUFFICES ASSUME DeliveryInv, DeploymentTypeOK, DeliveryInv', [DNext]_allVars
               PROVE  DeploymentTypeOK'
    OBVIOUS
  <2> USE DEF DeploymentTypeOK, DeliveryInv, deployVars
  <2>1. CASE Deploy
    BY <2>1 DEF Deploy, Revisions
  <2>2. ASSUME NEW i \in Pushes, DPush(i)
        PROVE  DeploymentTypeOK'
    BY <2>2 DEF DPush, Revisions
  <2>3. ASSUME NEW s \in Slots, DAnswer(s)
        PROVE  DeploymentTypeOK'
    BY <2>3 DEF DAnswer
  <2>4. CASE UNCHANGED deployVars
    BY <2>4
  <2>5. QED
    BY <2>1, <2>2, <2>3, <2>4 DEF DNext, DDispatch, DProceed, allVars
<1>3. QED
  BY <1>1, <1>2, DeploymentQueue, PTL DEF DSpec

-----------------------------------------------------------------------------
(***************************************************************************)
(* Who decides a task.                                                     *)
(***************************************************************************)

\* An answer that ends a task as done or declined comes from an instance that has its code.
LEMMA VerdictDecides ==
    ASSUME RetryUnknownTasks = TRUE, NEW i \in Pushes, NEW r, NEW a \in Verdicts(r, i),
           a = "success" \/ a \in {"aborted", "rejected"}
    PROVE  Registered(r, i) /\ (Fits(r, i) \/ a # "success")
PROOF
  BY DEF Verdicts, UnknownAnswer

\* What a step does to a task, as far as its decision goes.
LEMMA AnswerDecides ==
    ASSUME RetryUnknownTasks = TRUE, DeliveryInv, DeploymentTypeOK, DeployLosesNothing,
           NEW s \in Slots, DAnswer(s)
    PROVE  DeployLosesNothing'
PROOF
<1> DEFINE i == serves[s]
<1>1. PICK a \in Answers :
         /\ Worker!Reply(s, a)
         /\ IF attempt[i] = s /\ entry[i] = "running"
              THEN Settle(i, a) /\ attempt' = [attempt EXCEPT ![i] = Nobody]
              ELSE UNCHANGED <<entry, reserved, attempt>>
  BY DEF DAnswer, Answer
<1>2. i \in Pushes /\ answer'[s] = a
  BY <1>1 DEF DeliveryInv, TypeOK, QueueInv, SlotHasTask, Worker!Reply
<1>3. a \in Verdicts(RevisionOf[s], i)
  BY <1>2 DEF DAnswer
<1>4. UNCHANGED <<task, signature, serves>>
  BY DEF DAnswer, Answer
<1>5. CASE UNCHANGED entry
  <2>1. decided' = decided
    BY <1>4, <1>5 DEF DAnswer, Live
  <2>2. QED
    BY <1>4, <1>5, <2>1 DEF DeployLosesNothing, Registered, Fits
<1>6. CASE entry[i] = "running" /\ Settle(i, a)
  <2>1. PICK f \in {"pending"} \cup Final :
           /\ entry' = [entry EXCEPT ![i] = f]
           /\ f = "done" => a = "success" /\ Settle(i, a)
    BY <1>2, <1>6, SettleEffect DEF DeliveryInv
  <2>2. f = "declined" => a \in {"aborted", "rejected"}
    BY <1>2, <1>6, <2>1 DEF Settle, Retry, Leave, DeliveryInv, TypeOK, Final
  <2>3. \A j \in Pushes : j # i => entry'[j] = entry[j] /\ decided'[j] = decided[j]
    BY <1>2, <2>1 DEF DeliveryInv, TypeOK, DeploymentTypeOK, DAnswer
  <2>4. entry'[i] \in {"done", "declined"} =>
           /\ decided'[i] = s /\ s # Nobody
           /\ Registered(RevisionOf[s], i)
           /\ Fits(RevisionOf[s], i) \/ entry'[i] = "declined"
    <3> SUFFICES ASSUME entry'[i] \in {"done", "declined"}
                 PROVE  /\ decided'[i] = s /\ s # Nobody
                        /\ Registered(RevisionOf[s], i)
                        /\ Fits(RevisionOf[s], i) \/ entry'[i] = "declined"
      OBVIOUS
    <3>1. f = entry'[i]
      BY <1>2, <2>1 DEF DeliveryInv, TypeOK
    <3>2. decided' = [decided EXCEPT ![i] = s]
      BY <1>4, <1>6, <3>1 DEF DAnswer, Live
    <3>3. a = "success" \/ a \in {"aborted", "rejected"}
      BY <2>1, <2>2, <3>1
    <3>4. Registered(RevisionOf[s], i) /\ (Fits(RevisionOf[s], i) \/ a # "success")
      BY <1>2, <1>3, <3>3, VerdictDecides
    <3>5. QED
      BY <1>2, <2>1, <3>1, <3>2, <3>4, DeliveryAssumption DEF DeploymentTypeOK
  <2>5. QED
    BY <1>4, <2>3, <2>4 DEF DeployLosesNothing, Registered, Fits
<1>7. QED
  BY <1>1, <1>5, <1>6

\* A step that decides nothing, and changes neither functions nor signatures of created tasks.
LEMMA OthersDecideNothing ==
    ASSUME DeployLosesNothing, UNCHANGED <<task, decided>>,
           \A j \in Pushes : entry'[j] \in {"done", "declined"} =>
              entry'[j] = entry[j] /\ signature'[j] = signature[j]
    PROVE  DeployLosesNothing'
PROOF
  BY DEF DeployLosesNothing, Registered, Fits

(***************************************************************************)
(* With retry_unknown_tasks, and whatever the network, crashes, deadlines  *)
(* and a rollback do, a deployment decides no task that its worker does    *)
(* not know, and a rejection is for another revision's arguments.          *)
(***************************************************************************)
THEOREM DeploymentLosesNothing ==
    RetryUnknownTasks = TRUE => (DSpec => []DeployLosesNothing)
PROOF
<1> SUFFICES ASSUME RetryUnknownTasks = TRUE
             PROVE  DSpec => []DeployLosesNothing
  OBVIOUS
<1>1. DInit => DeployLosesNothing
  BY DEF DInit, Init, DeployLosesNothing
<1>2. /\ DeliveryInv /\ DeploymentTypeOK /\ DeployLosesNothing /\ [DNext]_allVars
      => DeployLosesNothing'
  <2> SUFFICES ASSUME DeliveryInv, DeploymentTypeOK, DeployLosesNothing, [DNext]_allVars
               PROVE  DeployLosesNothing'
    OBVIOUS
  <2> USE DEF deployVars, pushVars, queueVars, slotVars
  <2>1. CASE Deploy
    BY <2>1, OthersDecideNothing DEF Deploy, vars
  <2>2. ASSUME NEW i \in Pushes, DPush(i)
        PROVE  DeployLosesNothing'
    <3>1. entry' = entry /\ entry[i] = "absent"
      BY <2>2 DEF DeliveryInv, QueueInv, RequestMadeTask, Created, DPush, Push
    <3>2. \A j \in Pushes : j # i => signature'[j] = signature[j]
      BY <2>2 DEF DPush, DeploymentTypeOK
    <3>3. QED
      BY <2>2, <3>1, <3>2, OthersDecideNothing DEF DPush
  <2>3. ASSUME NEW i \in Pushes, DDispatch(i)
        PROVE  DeployLosesNothing'
    <3>1. entry' = [entry EXCEPT ![i] = "running"]
      BY <2>3 DEF DDispatch, Dispatch
    <3>2. QED
      BY <2>3, <3>1, OthersDecideNothing DEF DDispatch, DeliveryInv, TypeOK
  <2>4. ASSUME NEW i \in Pushes, Create(i) \/ GiveUp(i), UNCHANGED deployVars
        PROVE  DeployLosesNothing'
    <3>1. PICK f \in {"absent", "pending", "running", "exhausted"} : entry' = [entry EXCEPT ![i] = f]
                                                                   \/ entry' = entry
      BY <2>4 DEF Create, GiveUp, Retry, Leave
    <3>2. QED
      BY <2>4, <3>1, OthersDecideNothing DEF DeliveryInv, TypeOK
  <2>5. ASSUME NEW s \in Slots, DProceed(s)
        PROVE  DeployLosesNothing'
    BY <2>5, OthersDecideNothing DEF DProceed, Proceed
  <2>6. ASSUME NEW s \in Slots, DAnswer(s)
        PROVE  DeployLosesNothing'
    BY <2>6, AnswerDecides
  <2>7. ASSUME NEW s \in Slots, Crash(s), UNCHANGED deployVars
        PROVE  DeployLosesNothing'
    <3>1. PICK f \in {"pending", "exhausted"} :
             entry' = [entry EXCEPT ![serves[s]] = f] \/ entry' = entry
      BY <2>7 DEF Crash, Retry, Leave
    <3>2. QED
      BY <2>7, <3>1, OthersDecideNothing DEF DeliveryInv, TypeOK
  <2>8. CASE UNCHANGED allVars
    BY <2>8, OthersDecideNothing DEF allVars, vars
  <2>9. QED
    BY <2>1, <2>2, <2>3, <2>4, <2>5, <2>6, <2>7, <2>8 DEF DNext
<1>3. QED
  BY <1>1, <1>2, DeploymentQueue, DeploymentTypeCorrect, PTL DEF DSpec
=============================================================================
