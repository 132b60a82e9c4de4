---------------------------- MODULE WorkerProofs ----------------------------
(***************************************************************************)
(* Theorems about Worker, for every set of contexts, tasks and requests.   *)
(***************************************************************************)
EXTENDS Worker, SequenceTheorems, TLAPS

(***************************************************************************)
(* Popping the exit stack leaves a sequence of the same dependencies.      *)
(***************************************************************************)
LEMMA PopStack ==
    ASSUME NEW S, NEW s \in Seq(S), s # <<>>
    PROVE  /\ SubSeq(s, 1, Len(s) - 1) \in Seq(S)
           /\ s[Len(s)] \in S
PROOF
<1>1. Len(s) \in Nat /\ Len(s) > 0
  BY SMT
<1>2. \A i \in 1..Len(s) : s[i] \in S
  BY ElementOfSeq
<1>3. Len(s) \in 1..Len(s)
  BY <1>1, SMT
<1>4. \A i \in 1..(Len(s) - 1) : s[i] \in S
  BY <1>1, <1>2, SMT
<1>5. SubSeq(s, 1, Len(s) - 1) \in Seq(S)
  BY <1>1, <1>4, SubSeqProperties, SMT
<1>6. QED
  BY <1>2, <1>3, <1>5

(***************************************************************************)
(* What the constants mean for a request: its task is known, its deps are  *)
(* a sequence of kinds.                                                    *)
(***************************************************************************)
LEMMA RequestType ==
    ASSUME NEW r \in Requests
    PROVE  /\ r.path \in Tasks
           /\ r.secret \in BOOLEAN
           /\ r.entry \in {"run", "sync_run"}
           /\ r.args \in ArgumentFits
           /\ Deps[r.path] \in Seq(DependencyKinds)
           /\ r # NoContext
PROOF
  BY WorkerAssumption DEF Request

(***************************************************************************)
(* What the synchronous pieces return.                                     *)
(***************************************************************************)
LEMMA OutcomeTypes ==
    /\ \A r \in Requests : Admission(r) \in {"none", "InvalidTaskPayload", "TaskNotFound",
                                             "Other", "TaskAuthenticationError"}
    /\ \A r \in Requests : CallRaises(r) \in {"none", "Other", "TaskExecutionError"}
    /\ \A k \in YieldKinds, e \in Outcomes : Teardown(k, e) \subseteq {e, "none"} \cup Exceptions
    /\ \A e \in Outcomes : Wrapped(e) \in Outcomes
    /\ \A e \in Outcomes : Answer(e) \in Acknowledged \cup Retried
PROOF
<1>1. \A r \in Requests : Admission(r) \in {"none", "InvalidTaskPayload", "TaskNotFound",
                                             "Other", "TaskAuthenticationError"}
  BY DEF Admission, Prepare, ValidatorRaises
<1>2. \A r \in Requests : CallRaises(r) \in {"none", "Other", "TaskExecutionError"}
  BY DEF CallRaises
<1>3. \A k \in YieldKinds, e \in Outcomes : Teardown(k, e) \subseteq {e, "none"} \cup Exceptions
  BY DEF YieldKinds, Teardown, Exceptions
<1>4. \A e \in Outcomes : Wrapped(e) \in Outcomes
  BY DEF Wrapped, Outcomes, Exceptions
<1>5. \A e \in Outcomes : Answer(e) \in Acknowledged \cup Retried
  BY DEF Answer, Outcomes, Exceptions, ControlFlow, Acknowledged, Retried
<1>6. QED
  BY <1>1, <1>2, <1>3, <1>4, <1>5

-----------------------------------------------------------------------------
(***************************************************************************)
(* Type correctness.                                                       *)
(***************************************************************************)

\* Every step of a request keeps TypeOK.
LEMMA ServeType ==
    ASSUME TypeOK, NEW c \in Contexts, Serve(c)
    PROVE  TypeOK'
PROOF
<1> USE DEF TypeOK, PC, Origins, Bodies
<1>r. pc[c] # "idle" => /\ req[c] \in Requests
                        /\ req[c].path \in Tasks
                        /\ Deps[req[c].path] \in Seq(DependencyKinds)
  BY RequestType
<1>k. /\ exc[c] \in Outcomes
      /\ {"none", "Other", "InvalidTaskPayload", "TaskExecutionError",
           "TaskNotFound", "TaskAuthenticationError"} \cup Exceptions \subseteq Outcomes
  BY DEF Outcomes, Exceptions, ControlFlow
<1>1. CASE Refuse(c)
  <2>1. Admission(req[c]) \in Outcomes
    BY <1>1, <1>r, <1>k, OutcomeTypes DEF Refuse
  <2>2. Answer(Admission(req[c])) \in Acknowledged \cup Retried
    BY <2>1, OutcomeTypes
  <2>3. QED
    BY <1>1, <1>r, <2>1, <2>2 DEF Refuse
<1>2. CASE Admit(c)
  <2>1. DOMAIN dependants' \subseteq Tasks /\ \A t \in DOMAIN dependants' : dependants'[t] \subseteq {"data"}
    BY <1>2, <1>r DEF Admit, Analysed
  <2>2. wanted' \in [Contexts -> SUBSET {"data"}]
    <3>1. Analysed(req[c].path)[req[c].path] \subseteq {"data"}
      BY <1>2, <1>r DEF Admit, Analysed
    <3>2. CASE HasDependencies(req[c])
      <4>1. wanted' = [wanted EXCEPT ![c] = Analysed(req[c].path)[req[c].path]
                                             \ Provided(req[c])]
        BY <1>2, <3>2 DEF Admit
      <4>2. Analysed(req[c].path)[req[c].path] \ Provided(req[c]) \in SUBSET {"data"}
        BY <3>1
      <4>3. QED
        BY <4>1, <4>2
    <3>3. CASE ~HasDependencies(req[c])
      BY <1>2, <3>3 DEF Admit
    <3>4. QED
      BY <3>2, <3>3
  <2>3. QED
    BY <1>2, <1>r, <2>1, <2>2 DEF Admit
<1>3. CASE SolveDependency(c)
  <2>1. Len(Deps[req[c].path]) \in Nat /\ solved[c] + 1 \in 1..Len(Deps[req[c].path])
    BY <1>3, <1>r DEF SolveDependency
  <2>2. solved' \in [Contexts -> Nat]
    BY <1>3, <2>1 DEF SolveDependency
  <2>3. stack' \in [Contexts -> Seq(YieldKinds)]
    BY <1>3 DEF SolveDependency
  <2>4. QED
    BY <1>3, <1>r, <2>2, <2>3 DEF SolveDependency
<1>4. ASSUME NEW e \in Outcomes, NEW who \in Origins, pc[c] = "solving",
             LeaveSolving(c, e, who)
      PROVE  TypeOK'
  BY <1>4, <1>r DEF LeaveSolving
<1>5. CASE DependencyRaises(c)
  BY <1>5, <1>4, <1>k DEF DependencyRaises
<1>6. CASE ArgumentsRejected(c)
  BY <1>6, <1>4, <1>k DEF ArgumentsRejected
<1>7. CASE Solved(c)
  BY <1>7, <1>r DEF Solved
<1>8. CASE Call(c)
  <2>1. CallRaises(req[c]) \in Outcomes
    BY <1>8, <1>r, <1>k, OutcomeTypes DEF Call
  <2>2. CASE CallRaises(req[c]) = "none"
    <3>1. /\ pc' = [pc EXCEPT ![c] = "running"]
          /\ body' = [body EXCEPT ![c] = "running"]
          /\ UNCHANGED <<registry, dependants, req, current, wanted, solved, stack,
                         scope, exc, origin, seen, answer>>
          /\ pc[c] = "calling"
      BY <1>8, <2>2 DEF Call
    <3>2. QED
      BY <1>r, <3>1
  <2>3. CASE CallRaises(req[c]) # "none"
    <3>1. /\ pc' = [pc EXCEPT ![c] = "closing"]
          /\ exc' = [exc EXCEPT ![c] = CallRaises(req[c])]
          /\ origin' = [origin EXCEPT ![c] = "call"]
          /\ UNCHANGED <<registry, dependants, req, current, wanted, solved, stack,
                         scope, body, seen, answer>>
          /\ pc[c] = "calling"
      BY <1>8, <2>3 DEF Call
    <3>2. QED
      BY <1>r, <2>1, <3>1
  <2>4. QED
    BY <2>2, <2>3
<1>9. CASE Finish(c)
  <2>1. CASE body' = [body EXCEPT ![c] = "returned"] /\ UNCHANGED <<exc, origin>>
    BY <1>9, <1>r, <2>1 DEF Finish
  <2>2. ASSUME NEW e \in Exceptions,
               body' = [body EXCEPT ![c] = e], exc' = [exc EXCEPT ![c] = e],
               origin' = [origin EXCEPT ![c] = "body"]
        PROVE  TypeOK'
    BY <1>9, <1>r, <1>k, <2>2 DEF Finish
  <2>3. QED
    BY <1>9, <2>1, <2>2 DEF Finish
<1>10. CASE CloseDependency(c)
  <2>1. /\ stack[c] \in Seq(YieldKinds) /\ stack[c] # <<>>
        /\ SubSeq(stack[c], 1, Len(stack[c]) - 1) \in Seq(YieldKinds)
        /\ stack[c][Len(stack[c])] \in YieldKinds
    BY <1>10, PopStack DEF CloseDependency
  <2>2. PICK e \in Teardown(stack[c][Len(stack[c])], exc[c]) :
           /\ exc' = [exc EXCEPT ![c] = e]
           /\ origin' = [origin EXCEPT ![c] = IF e = exc[c] THEN @ ELSE "teardown"]
    BY <1>10 DEF CloseDependency
  <2>3. e \in Outcomes
    <3>1. e \in {exc[c], "none"} \cup Exceptions
      BY <2>1, <2>2, <1>k, OutcomeTypes
    <3>2. QED
      BY <3>1, <1>k
  <2>4. QED
    BY <1>10, <1>r, <1>k, <2>1, <2>2, <2>3 DEF CloseDependency
<1>11. CASE Respond(c)
  <2>1. Wrapped(exc[c]) \in Outcomes /\ Answer(Wrapped(exc[c])) \in Acknowledged \cup Retried
    BY <1>k, OutcomeTypes
  <2>2. QED
    BY <1>11, <1>r, <2>1 DEF Respond
<1>12. QED
  BY <1>1, <1>2, <1>3, <1>5, <1>6, <1>7, <1>8, <1>9, <1>10, <1>11 DEF Serve

\* So does a cancellation, wherever it strikes.
LEMMA CancelType ==
    ASSUME TypeOK, NEW c \in Contexts, Cancel(c)
    PROVE  TypeOK'
PROOF
<1> USE DEF TypeOK, PC, Origins, Bodies
<1>r. req[c] \in Requests /\ pc[c] # "idle"
  BY DEF Cancel, LeaveSolving
<1>k. exc[c] \in Outcomes /\ "CancelledError" \in Outcomes
  BY DEF Outcomes
<1>1. CASE pc[c] = "solving" /\ LeaveSolving(c, "CancelledError", "server")
  BY <1>1, <1>r, <1>k DEF LeaveSolving
<1>2. CASE /\ pc' = [pc EXCEPT ![c] = "closing"]
           /\ body' = [body EXCEPT ![c] = "CancelledError"]
           /\ exc' = [exc EXCEPT ![c] = "CancelledError"]
           /\ origin' = [origin EXCEPT ![c] = "server"]
           /\ UNCHANGED <<registry, dependants, req, current, wanted, solved,
                          stack, scope, seen, answer>>
  BY <1>2, <1>r, <1>k
<1>3. CASE /\ pc[c] = "closing" /\ stack[c] # <<>>
           /\ stack' = [stack EXCEPT ![c] = SubSeq(@, 1, Len(@) - 1)]
           /\ seen' = [seen EXCEPT ![c] = @ \cup {exc[c]}]
           /\ exc' = [exc EXCEPT ![c] = "CancelledError"]
           /\ origin' = [origin EXCEPT ![c] = "server"]
           /\ UNCHANGED <<registry, dependants, pc, req, current, wanted, solved,
                          scope, body, answer>>
  <2>1. SubSeq(stack[c], 1, Len(stack[c]) - 1) \in Seq(YieldKinds)
    BY <1>3, PopStack
  <2>2. QED
    BY <1>3, <1>r, <1>k, <2>1
<1>4. QED
  BY <1>1, <1>2, <1>3 DEF Cancel

\* TypeOK is an invariant of the worker, whatever the tasks, requests and contexts.
THEOREM TypeCorrect == Spec => []TypeOK
PROOF
<1>1. Init => TypeOK
  BY WorkerAssumption, EmptySeq
     DEF Init, TypeOK, PC, Origins, Bodies, Outcomes
<1>2. TypeOK /\ [Next]_vars => TypeOK'
  <2> SUFFICES ASSUME TypeOK, [Next]_vars
               PROVE  TypeOK'
    OBVIOUS
  <2>1. ASSUME NEW t \in Tasks, Register(t)
        PROVE  TypeOK'
    BY <2>1 DEF TypeOK, Register
  <2>2. ASSUME NEW c \in Contexts, Receive(c)
        PROVE  TypeOK'
    BY <2>2, EmptySeq DEF TypeOK, Receive, PC, Origins, Bodies, Outcomes
  <2>3. ASSUME NEW c \in Contexts, Serve(c)
        PROVE  TypeOK'
    BY <2>3, ServeType
  <2>4. ASSUME NEW c \in Contexts, Cancel(c)
        PROVE  TypeOK'
    BY <2>4, CancelType
  <2>5. CASE UNCHANGED vars
    BY <2>5 DEF TypeOK, vars
  <2>6. QED
    BY <2>1, <2>2, <2>3, <2>4, <2>5 DEF Next
<1>3. QED
  BY <1>1, <1>2, PTL DEF Spec

-----------------------------------------------------------------------------
(***************************************************************************)
(* The stages of a request.                                                *)
(***************************************************************************)

\* What StagesInv says of one context.
Stage(c) ==
    /\ Stages(c)
    /\ current[c] = IF pc[c] \in Engaged THEN req[c] ELSE NoContext
    /\ scope[c] = IF pc[c] = "solving" THEN "task" ELSE "request"
    /\ pc[c] \in {"idle", "received", "answered"} => stack[c] = <<>>
    /\ pc[c] = "answered" /\ ~req[c].secret =>
          answer[c] = "403" /\ solved[c] = 0 /\ body[c] = "unstarted"
    /\ pc[c] = "answered" /\ answer[c] \in {"aborted", "rejected"} =>
          \/ body[c] = "unstarted"
          \/ exc[c] \in CallsOff /\ (body[c] = exc[c] \/ origin[c] = "teardown")
    /\ pc[c] = "answered" /\ origin[c] = "body" =>
          answer[c] = CASE body[c] = "TaskAbort" -> "aborted"
                        [] body[c] = "TaskRetry" -> "503"
                        [] body[c] = "InvalidTaskPayload" -> "rejected"
                        [] OTHER -> "500"

\* The named properties follow.
LEMMA StagesImply ==
    ASSUME TypeOK, \A c \in Contexts : Stage(c)
    PROVE  StagesInv
PROOF
<1>1. UnauthenticatedIs403
  BY DEF TypeOK, PC, Stage, Stages, UnauthenticatedIs403, Engaged, Done
<1>2. DecisionReachesQueue
  BY DEF Stage, DecisionReachesQueue, Done
<1>3. DroppedByDecision
  BY DEF Stage, DroppedByDecision, Done
<1>4. ContextIsOwn /\ ScopeRestored
  BY DEF Stage, ContextIsOwn, ScopeRestored, Engaged
<1>5. QED
  BY <1>1, <1>2, <1>3, <1>4 DEF Stage, StagesInv

\* A step of one context leaves the requests of the others alone.
LEMMA OthersUntouched ==
    ASSUME TypeOK, NEW c \in Contexts, Receive(c) \/ Serve(c) \/ Cancel(c),
           NEW d \in Contexts, d # c
    PROVE  /\ pc'[d] = pc[d] /\ req'[d] = req[d] /\ current'[d] = current[d]
           /\ wanted'[d] = wanted[d] /\ solved'[d] = solved[d]
           /\ stack'[d] = stack[d] /\ scope'[d] = scope[d]
           /\ exc'[d] = exc[d] /\ origin'[d] = origin[d] /\ body'[d] = body[d]
           /\ seen'[d] = seen[d] /\ answer'[d] = answer[d]
PROOF
<1>1. CASE Receive(c)
  BY <1>1 DEF TypeOK, Receive
<1>2. CASE Refuse(c) \/ Respond(c)
  BY <1>2 DEF TypeOK, Refuse, Respond
<1>3. CASE Admit(c)
  BY <1>3 DEF TypeOK, Admit
<1>4. CASE SolveDependency(c) \/ Solved(c)
  BY <1>4 DEF TypeOK, SolveDependency, Solved
<1>5. CASE DependencyRaises(c) \/ ArgumentsRejected(c)
  BY <1>5 DEF TypeOK, DependencyRaises, ArgumentsRejected, LeaveSolving
<1>6. CASE Call(c)
  BY <1>6 DEF TypeOK, Call
<1>7. CASE Finish(c)
  BY <1>7 DEF TypeOK, Finish
<1>8. CASE CloseDependency(c)
  BY <1>8 DEF TypeOK, CloseDependency
<1>9. CASE Cancel(c)
  BY <1>9 DEF TypeOK, Cancel, LeaveSolving
<1>10. QED
  BY <1>1, <1>2, <1>3, <1>4, <1>5, <1>6, <1>7, <1>8, <1>9 DEF Serve

\* So they stay in their stage.
LEMMA OtherStages ==
    ASSUME TypeOK, NEW c \in Contexts, Receive(c) \/ Serve(c) \/ Cancel(c),
           NEW d \in Contexts, d # c, Stage(d)
    PROVE  Stage(d)'
PROOF
  BY OthersUntouched DEF Stage, Stages, Engaged

\* Every step keeps the stage of its own context.
LEMMA OwnStage ==
    ASSUME TypeOK, NEW c \in Contexts, Stage(c), Receive(c) \/ Serve(c) \/ Cancel(c)
    PROVE  Stage(c)'
PROOF
<1> USE DEF Stage, Stages, Engaged, CallsOff
<1>1. CASE Receive(c)
  BY <1>1 DEF TypeOK, PC, Receive
<1>2. CASE Refuse(c)
  <2>1. req[c] \in Requests /\ req[c].secret \in BOOLEAN
    BY <1>2, RequestType DEF Refuse, TypeOK
  <2>2. ~req[c].secret => Answer(Admission(req[c])) = "403"
    BY <2>1 DEF Admission, Answer
  <2>3. QED
    BY <1>2, <2>1, <2>2 DEF Refuse, TypeOK
<1>3. CASE Admit(c)
  <2>1. req[c] \in Requests /\ req[c].secret
    BY <1>3, RequestType DEF Admit, TypeOK, Admission
  <2>2. QED
    BY <1>3, <2>1 DEF Admit, TypeOK
<1>4. CASE SolveDependency(c)
  BY <1>4 DEF SolveDependency, TypeOK
<1>5. ASSUME NEW e \in Outcomes, NEW who \in Origins \ {"body"}, pc[c] = "solving",
             LeaveSolving(c, e, who)
      PROVE  Stage(c)'
  BY <1>5 DEF LeaveSolving, TypeOK
<1>6. CASE DependencyRaises(c)
  BY <1>6, <1>5 DEF DependencyRaises, Outcomes, Origins
<1>7. CASE ArgumentsRejected(c)
  BY <1>7, <1>5 DEF ArgumentsRejected, Outcomes, Exceptions, ControlFlow, Origins
<1>8. CASE Solved(c)
  BY <1>8 DEF Solved, TypeOK
<1>9. CASE Call(c)
  <2>1. CallRaises(req[c]) # "InvalidTaskPayload"
    BY <1>9, OutcomeTypes DEF Call, TypeOK
  <2>2. QED
    BY <1>9, <2>1 DEF Call, TypeOK
<1>10. CASE Finish(c)
  BY <1>10 DEF Finish, TypeOK, Exceptions, ControlFlow
<1>11. CASE CloseDependency(c)
  <2>2. PICK e \in Teardown(stack[c][Len(stack[c])], exc[c]) :
           /\ exc' = [exc EXCEPT ![c] = e]
           /\ origin' = [origin EXCEPT ![c] = IF e = exc[c] THEN @ ELSE "teardown"]
    BY <1>11 DEF CloseDependency
  <2>3. QED
    BY <1>11, <2>2 DEF CloseDependency, TypeOK
<1>12. CASE Respond(c)
  <2>1. ASSUME Answer(Wrapped(exc[c])) \in {"aborted", "rejected"}
        PROVE  exc[c] \in CallsOff /\ Wrapped(exc[c]) = exc[c]
    BY <2>1 DEF TypeOK, Answer, Wrapped, Outcomes, Exceptions, ControlFlow
  <2>2. ASSUME exc[c] \in Exceptions
        PROVE  Answer(Wrapped(exc[c])) = CASE exc[c] = "TaskAbort" -> "aborted"
                                           [] exc[c] = "TaskRetry" -> "503"
                                           [] exc[c] = "InvalidTaskPayload" -> "rejected"
                                           [] OTHER -> "500"
    BY <2>2 DEF Answer, Wrapped, Exceptions, ControlFlow
  <2>3. QED
    BY <1>12, <2>1, <2>2 DEF Respond, TypeOK
<1>13. CASE Cancel(c)
  <2>1. CASE pc[c] = "solving" /\ LeaveSolving(c, "CancelledError", "server")
    BY <2>1, <1>5 DEF Outcomes, Origins
  <2>2. CASE pc[c] = "running"
    BY <1>13, <2>2 DEF Cancel, LeaveSolving, TypeOK
  <2>3. CASE pc[c] = "closing"
    BY <1>13, <2>3 DEF Cancel, LeaveSolving, TypeOK
  <2>4. QED
    BY <1>13, <2>1, <2>2, <2>3 DEF Cancel
<1>14. QED
  BY <1>1, <1>2, <1>3, <1>4, <1>6, <1>7, <1>8, <1>9, <1>10, <1>11, <1>12, <1>13 DEF Serve

\* The inductive invariant: StagesInv, read one context at a time.
AllStages == \A d \in Contexts : Stage(d)

(***************************************************************************)
(* However requests are interleaved, refused, cancelled and fail: the task *)
(* context and the exit stacks are those of the request being served and   *)
(* are put back, nothing runs without the secret, and the answer is what   *)
(* the task decided.                                                       *)
(***************************************************************************)
THEOREM StagesCorrect == Spec => [](AllStages /\ StagesInv)
PROOF
<1> USE DEF AllStages
<1>1. Init => AllStages
  BY DEF Init, Stage, Stages, Engaged
<1>2. TypeOK /\ AllStages /\ [Next]_vars => AllStages'
  <2> SUFFICES ASSUME TypeOK, AllStages, [Next]_vars
               PROVE  AllStages'
    OBVIOUS
  <2>1. ASSUME NEW t \in Tasks, Register(t)
        PROVE  AllStages'
    BY <2>1 DEF Register, Stage, Stages, Engaged
  <2>2. ASSUME NEW c \in Contexts, Receive(c) \/ Serve(c) \/ Cancel(c)
        PROVE  AllStages'
    BY <2>2, OwnStage, OtherStages
  <2>3. CASE UNCHANGED vars
    BY <2>3 DEF vars, Stage, Stages, Engaged
  <2>4. QED
    BY <2>1, <2>2, <2>3 DEF Next
<1>3. TypeOK /\ AllStages => StagesInv
  BY StagesImply
<1>4. QED
  BY <1>1, <1>2, <1>3, TypeCorrect, PTL DEF Spec

\* Without the secret nothing runs and the answer is 403, for every set of requests.
THEOREM SecretGuardsEverything == Spec => []UnauthenticatedIs403
PROOF
<1>1. StagesInv => UnauthenticatedIs403
  BY DEF StagesInv
<1>2. QED
  BY <1>1, StagesCorrect, PTL

\* current_task() never shows another request, nor a finished one.
THEOREM ContextNeverLeaks == Spec => []ContextIsOwn
PROOF
<1>1. StagesInv => ContextIsOwn
  BY DEF StagesInv
<1>2. QED
  BY <1>1, StagesCorrect, PTL

\* The request scope names the execution's exit stack only while dependencies are solved.
THEOREM ScopeIsPutBack == Spec => []ScopeRestored
PROOF
<1>1. StagesInv => ScopeRestored
  BY DEF StagesInv
<1>2. QED
  BY <1>1, StagesCorrect, PTL

\* A task whose function began is dropped only by its own code: the function, or a teardown.
THEOREM DroppedOnPurpose == Spec => []DroppedByDecision
PROOF
<1>1. StagesInv => DroppedByDecision
  BY DEF StagesInv
<1>2. QED
  BY <1>1, StagesCorrect, PTL

\* What a task function raised decides the answer, through any number of teardowns.
THEOREM DecisionsAreKept == Spec => []DecisionReachesQueue
PROOF
<1>1. StagesInv => DecisionReachesQueue
  BY DEF StagesInv
<1>2. QED
  BY <1>1, StagesCorrect, PTL

\* No request, and no order of requests, changes an analysis once it is cached.
THEOREM AnalysisNeverChanges == Spec => AnalysisStable
PROOF
<1> DEFINE Kept == \A t \in DOMAIN dependants :
                      t \in DOMAIN dependants' /\ dependants'[t] = dependants[t]
<1>1. ASSUME TypeOK, [Next]_vars
      PROVE  Kept
  <2>1. ASSUME NEW c \in Contexts, Admit(c)
        PROVE  Kept
    BY <2>1 DEF Admit, Analysed
  <2>2. ASSUME UNCHANGED dependants
        PROVE  Kept
    BY <2>2
  <2>3. ASSUME NEW c \in Contexts, Receive(c) \/ Serve(c) \/ Cancel(c), ~Admit(c)
        PROVE  UNCHANGED dependants
    BY <2>3 DEF Receive, Serve, Cancel, Refuse, SolveDependency, DependencyRaises,
                ArgumentsRejected, LeaveSolving, Solved, Call, Finish,
                CloseDependency, Respond
  <2>4. QED
    BY <1>1, <2>1, <2>2, <2>3 DEF Next, Register, vars
<1>2. TypeOK /\ [Next]_vars => [Kept]_vars
  BY <1>1
<1>3. QED
  BY <1>2, TypeCorrect, PTL DEF Spec, AnalysisStable

-----------------------------------------------------------------------------
(***************************************************************************)
(* Missing arguments.                                                      *)
(***************************************************************************)

\* The analysis of every task asks the request for all of its parameters.
AnalysesComplete == \A t \in DOMAIN dependants : dependants[t] = {"data"}

\* A request that lacks an argument of a task with dependencies is never called: while its
\* dependencies are solved the argument is still wanted, and the error for it is the answer
\* unless a teardown or the server puts another one in its place.
MissingStage(c) ==
    pc[c] # "idle" /\ req[c].args = "missing" /\ ~req[c].query /\ HasDependencies(req[c]) =>
        /\ pc[c] \in {"received", "solving", "closing", "answered"}
        /\ body[c] = "unstarted"
        /\ pc[c] = "solving" => wanted[c] = {"data"}
        /\ pc[c] \in {"closing", "answered"} =>
              origin[c] \in {"request", "dependency", "arguments", "teardown", "server"}
        /\ pc[c] = "closing" /\ origin[c] = "arguments" => exc[c] = "InvalidTaskPayload"
        /\ pc[c] = "answered" /\ origin[c] = "arguments" => answer[c] = "rejected"

\* Every step keeps the analyses complete, and the stage of its own context.
LEMMA OwnMissing ==
    ASSUME TypeOK, AnalysesComplete, NEW c \in Contexts, MissingStage(c), Stage(c),
           Receive(c) \/ Serve(c) \/ Cancel(c)
    PROVE  MissingStage(c)' /\ AnalysesComplete'
PROOF
<1> USE DEF TypeOK, MissingStage, AnalysesComplete
<1>1. CASE Receive(c)
  <2>1. pc'[c] = "received" /\ body'[c] = "unstarted" /\ UNCHANGED dependants
    BY <1>1 DEF Receive
  <2>2. QED
    BY <2>1
<1>2. CASE Refuse(c)
  BY <1>2 DEF Refuse
<1>3. CASE Admit(c)
  <2>1. req[c].path \in Tasks
    BY <1>3, RequestType DEF Admit
  <2>2. \A t \in DOMAIN Analysed(req[c].path) : Analysed(req[c].path)[t] = {"data"}
    BY DEF Analysed
  <2>3. req[c].path \in DOMAIN Analysed(req[c].path)
    BY DEF Analysed
  <2>4. AnalysesComplete'
    BY <1>3, <2>2 DEF Admit
  <2>5. ASSUME req[c].args = "missing", HasDependencies(req[c])
        PROVE  /\ pc'[c] = "solving" /\ wanted'[c] = {"data"} /\ body'[c] = body[c]
    <3>1. /\ wanted' = [wanted EXCEPT ![c] = Analysed(req[c].path)[req[c].path] \ Provided(req[c])]
          /\ pc' = [pc EXCEPT ![c] = "solving"]
          /\ body' = body
      BY <1>3, <2>5 DEF Admit
    <3>2. Analysed(req[c].path)[req[c].path] \ Provided(req[c]) = {"data"}
      BY <2>2, <2>3, <2>5 DEF Provided
    <3>3. QED
      BY <3>1, <3>2
  <2>6. req' = req /\ pc[c] = "received"
    BY <1>3 DEF Admit
  <2>7. QED
    BY <2>4, <2>5, <2>6 DEF HasDependencies
<1>4. CASE SolveDependency(c)
  BY <1>4 DEF SolveDependency, HasDependencies
<1>5. ASSUME NEW e, NEW who \in {"dependency", "arguments", "server"}, pc[c] = "solving",
             LeaveSolving(c, e, who), who = "arguments" => e = "InvalidTaskPayload"
      PROVE  MissingStage(c)' /\ AnalysesComplete'
  BY <1>5 DEF LeaveSolving, HasDependencies
<1>6. CASE DependencyRaises(c) \/ ArgumentsRejected(c)
  BY <1>5, <1>6 DEF DependencyRaises, ArgumentsRejected
<1>7. CASE Solved(c)
  BY <1>7 DEF Solved, Unmet, HasDependencies
<1>8. CASE Call(c) \/ Finish(c)
  BY <1>8 DEF Call, Finish, HasDependencies
<1>9. CASE CloseDependency(c)
  <2>1. /\ pc' = pc /\ req' = req /\ body' = body /\ dependants' = dependants
        /\ pc[c] = "closing"
        /\ \/ origin'[c] = origin[c] /\ exc'[c] = exc[c]
           \/ origin'[c] = "teardown"
    BY <1>9 DEF CloseDependency
  <2>2. QED
    BY <2>1 DEF HasDependencies
<1>10. CASE Respond(c)
  <2>1. Answer(Wrapped("InvalidTaskPayload")) = "rejected"
    BY DEF Answer, Wrapped, ControlFlow
  <2>2. QED
    BY <1>10, <2>1 DEF Respond, HasDependencies
<1>11. CASE Cancel(c)
  <2>1. CASE pc[c] = "solving" /\ LeaveSolving(c, "CancelledError", "server")
    BY <1>5, <2>1
  <2>2. CASE pc[c] = "running" \/ pc[c] = "closing"
    BY <1>11, <2>2 DEF Cancel, LeaveSolving, HasDependencies
  <2>3. QED
    BY <1>11, <2>1, <2>2 DEF Cancel
<1>12. QED
  BY <1>1, <1>2, <1>3, <1>4, <1>6, <1>7, <1>8, <1>9, <1>10, <1>11 DEF Serve

(***************************************************************************)
(* A task with dependencies never runs without an argument that neither    *)
(* the payload nor the request has, and is answered "rejected" for it,     *)
(* whatever the requests before it and beside it provided: the shared      *)
(* analysis stays complete.                                                *)
(***************************************************************************)
THEOREM MissingNeverRuns == Spec => [](AnalysesComplete /\ MissingArgumentRejected)
PROOF
<1> DEFINE Inv == AnalysesComplete /\ \A d \in Contexts : MissingStage(d)
<1>1. Init => Inv
  BY DEF Init, AnalysesComplete, MissingStage
<1>2. TypeOK /\ AllStages /\ Inv /\ [Next]_vars => Inv'
  <2> SUFFICES ASSUME TypeOK, AllStages, Inv, [Next]_vars
               PROVE  Inv'
    OBVIOUS
  <2>1. ASSUME NEW t \in Tasks, Register(t)
        PROVE  Inv'
    BY <2>1 DEF Register, AnalysesComplete, MissingStage, HasDependencies
  <2>2. ASSUME NEW c \in Contexts, Receive(c) \/ Serve(c) \/ Cancel(c)
        PROVE  Inv'
    <3>1. MissingStage(c)' /\ AnalysesComplete'
      BY <2>2, OwnMissing DEF AllStages
    <3>2. ASSUME NEW d \in Contexts, d # c
          PROVE  MissingStage(d)'
      <4>1. /\ pc'[d] = pc[d] /\ req'[d] = req[d] /\ wanted'[d] = wanted[d]
            /\ origin'[d] = origin[d] /\ body'[d] = body[d] /\ exc'[d] = exc[d]
            /\ answer'[d] = answer[d]
        BY <2>2, <3>2, OthersUntouched
      <4>2. QED
        BY <4>1 DEF MissingStage, HasDependencies
    <3>3. QED
      BY <3>1, <3>2
  <2>3. CASE UNCHANGED vars
    BY <2>3 DEF vars, AnalysesComplete, MissingStage, HasDependencies
  <2>4. QED
    BY <2>1, <2>2, <2>3 DEF Next
<1>3. Inv => AnalysesComplete /\ MissingArgumentRejected
  BY DEF MissingStage, MissingArgumentRejected, Done
<1>4. QED
  BY <1>1, <1>2, <1>3, TypeCorrect, StagesCorrect, PTL DEF Spec

-----------------------------------------------------------------------------
(***************************************************************************)
(* Teardown, when no dependency swallows exceptions.                       *)
(***************************************************************************)

\* What is known of the teardown in one context, and the two properties when it is done.
TeardownStage(c) ==
    /\ stack[c] \in Seq({"reraise", "flaky"})
    /\ pc[c] \in {"received", "solving", "calling", "running"} => seen[c] = {}
    /\ pc[c] = "closing" =>
          /\ exc[c] = "none" => body[c] = "returned" /\ seen[c] \subseteq {"none"}
          /\ body[c] \in Exceptions \cup {"CancelledError"} => exc[c] # "none"
    /\ body[c] = "running" => pc[c] = "running"
    /\ body[c] \in Exceptions \cup {"CancelledError"} => "none" \notin seen[c]
    /\ pc[c] = "answered" /\ answer[c] = "success" =>
          body[c] = "returned" /\ seen[c] \subseteq {"none"}

\* A step of one context leaves the teardown of the others alone.
LEMMA OtherTeardowns ==
    ASSUME TypeOK, NEW c \in Contexts, Receive(c) \/ Serve(c) \/ Cancel(c),
           NEW d \in Contexts, d # c, TeardownStage(d)
    PROVE  TeardownStage(d)'
PROOF
  BY OthersUntouched DEF TeardownStage

\* Every step keeps the teardown of its own context, when nothing swallows exceptions.
LEMMA OwnTeardown ==
    ASSUME NothingSwallowed, TypeOK, NEW c \in Contexts, TeardownStage(c), Stages(c),
           pc[c] \in {"idle", "received", "answered"} => stack[c] = <<>>,
           Receive(c) \/ Serve(c) \/ Cancel(c)
    PROVE  TeardownStage(c)'
PROOF
<1> USE DEF TeardownStage, Stages
<1>e. "none" \notin Exceptions \cup {"CancelledError"}
      /\ "returned" \notin Exceptions \cup {"CancelledError"}
      /\ "unstarted" \notin Exceptions \cup {"CancelledError"}
      /\ "running" \notin Exceptions \cup {"CancelledError"}
  BY DEF Exceptions, ControlFlow
<1>1. CASE Receive(c)
  BY <1>1, <1>e, EmptySeq DEF TypeOK, Receive
<1>2. CASE Refuse(c)
  <2>1. Answer(Admission(req[c])) # "success"
    BY <1>2, OutcomeTypes DEF Refuse, TypeOK, Answer
  <2>2. QED
    BY <1>2, <1>e, <2>1 DEF Refuse, TypeOK
<1>3. CASE Admit(c)
  BY <1>3, <1>e DEF Admit, TypeOK
<1>4. CASE SolveDependency(c)
  <2>1. /\ req[c].path \in Tasks
        /\ Deps[req[c].path] \in Seq(DependencyKinds)
        /\ solved[c] + 1 \in DOMAIN Deps[req[c].path]
    BY <1>4, RequestType DEF SolveDependency, TypeOK
  <2>2. Deps[req[c].path][solved[c] + 1] \in YieldKinds =>
           Deps[req[c].path][solved[c] + 1] \in {"reraise", "flaky"}
    BY <2>1 DEF NothingSwallowed, YieldKinds
  <2>3. stack'[c] \in Seq({"reraise", "flaky"})
    BY <1>4, <2>2 DEF SolveDependency, TypeOK
  <2>4. QED
    BY <1>4, <1>e, <2>3 DEF SolveDependency, TypeOK
<1>5. ASSUME NEW e \in Exceptions \cup {"CancelledError"}, NEW who, pc[c] = "solving",
             LeaveSolving(c, e, who)
      PROVE  TeardownStage(c)'
  BY <1>5, <1>e DEF LeaveSolving, TypeOK
<1>6. CASE DependencyRaises(c)
  BY <1>6, <1>5 DEF DependencyRaises
<1>7. CASE ArgumentsRejected(c)
  BY <1>7, <1>5 DEF ArgumentsRejected, Exceptions, ControlFlow
<1>8. CASE Solved(c)
  BY <1>8, <1>e DEF Solved, TypeOK
<1>9. CASE Call(c)
  BY <1>9, <1>e DEF Call, TypeOK
<1>10. CASE Finish(c)
  BY <1>10, <1>e DEF Finish, TypeOK
<1>11. CASE CloseDependency(c)
  <2>1. /\ SubSeq(stack[c], 1, Len(stack[c]) - 1) \in Seq({"reraise", "flaky"})
        /\ stack[c][Len(stack[c])] \in {"reraise", "flaky"}
    BY <1>11, PopStack DEF CloseDependency
  <2>2. PICK e \in Teardown(stack[c][Len(stack[c])], exc[c]) :
           exc' = [exc EXCEPT ![c] = e]
    BY <1>11 DEF CloseDependency
  <2>3. e \in {exc[c]} \cup Exceptions
    BY <2>1, <2>2 DEF Teardown
  <2>4. /\ pc'[c] = "closing" /\ body'[c] = body[c] /\ exc'[c] = e
        /\ stack'[c] = SubSeq(stack[c], 1, Len(stack[c]) - 1)
        /\ seen'[c] = seen[c] \cup {exc[c]}
    BY <1>11, <2>2 DEF CloseDependency, TypeOK
  <2>5. e = "none" => exc[c] = "none"
    BY <1>e, <2>3
  <2>6. body[c] # "running"
    BY <1>11 DEF CloseDependency
  <2>7. exc[c] = "none" => seen'[c] \subseteq {"none"} /\ body[c] = "returned"
    BY <1>11, <2>4 DEF CloseDependency
  <2>8. body[c] \in Exceptions \cup {"CancelledError"} => e # "none" /\ "none" \notin seen'[c]
    BY <1>11, <2>4, <2>5 DEF CloseDependency
  <2>9. QED
    BY <2>1, <2>4, <2>5, <2>6, <2>7, <2>8
<1>12. CASE Respond(c)
  <2>1. Answer(Wrapped(exc[c])) = "success" => exc[c] = "none"
    BY DEF TypeOK, Answer, Wrapped, Outcomes, Exceptions, ControlFlow
  <2>2. QED
    BY <1>12, <1>e, <2>1 DEF Respond, TypeOK
<1>13. CASE Cancel(c)
  <2>1. CASE pc[c] = "solving" /\ LeaveSolving(c, "CancelledError", "server")
    BY <2>1, <1>5
  <2>2. CASE pc[c] = "running"
    BY <1>13, <1>e, <2>2 DEF Cancel, LeaveSolving, TypeOK
  <2>3. CASE pc[c] = "closing"
    <3>1. SubSeq(stack[c], 1, Len(stack[c]) - 1) \in Seq({"reraise", "flaky"})
      BY <1>13, <2>3, PopStack DEF Cancel, LeaveSolving
    <3>2. /\ pc'[c] = "closing" /\ body'[c] = body[c] /\ exc'[c] = "CancelledError"
          /\ stack'[c] = SubSeq(stack[c], 1, Len(stack[c]) - 1)
          /\ seen'[c] = seen[c] \cup {exc[c]}
      BY <1>13, <2>3 DEF Cancel, LeaveSolving, TypeOK
    <3>3. body[c] # "running"
      BY <2>3
    <3>4. body[c] \in Exceptions \cup {"CancelledError"} => "none" \notin seen'[c]
      BY <2>3, <3>2
    <3>5. QED
      BY <3>1, <3>2, <3>3, <3>4
  <2>4. QED
    BY <1>13, <2>1, <2>2, <2>3 DEF Cancel
<1>14. QED
  BY <1>1, <1>2, <1>3, <1>4, <1>6, <1>7, <1>8, <1>9, <1>10, <1>11, <1>12, <1>13 DEF Serve

AllTeardowns == \A d \in Contexts : TeardownStage(d)

\* Without swallowing dependencies, an exit stack closes in the state the function left:
\* an exception, once raised, stays with it to the answer. SuccessIsEarned and the
\* refinement rest on this.
THEOREM TeardownsCorrect == NothingSwallowed => (Spec => []AllTeardowns)
PROOF
<1> SUFFICES ASSUME NothingSwallowed
             PROVE  Spec => []AllTeardowns
  OBVIOUS
<1>1. Init => AllTeardowns
  BY EmptySeq DEF AllTeardowns, Init, TeardownStage, Exceptions, ControlFlow
<1>2. TypeOK /\ StagesInv /\ AllTeardowns /\ [Next]_vars => AllTeardowns'
  <2> SUFFICES ASSUME TypeOK, StagesInv, AllTeardowns, [Next]_vars
               PROVE  AllTeardowns'
    OBVIOUS
  <2> USE DEF AllTeardowns
  <2>1. ASSUME NEW t \in Tasks, Register(t)
        PROVE  AllTeardowns'
    BY <2>1 DEF Register, TeardownStage
  <2>2. ASSUME NEW c \in Contexts, Receive(c) \/ Serve(c) \/ Cancel(c)
        PROVE  AllTeardowns'
    <3>1. Stages(c) /\ (pc[c] \in {"idle", "received", "answered"} => stack[c] = <<>>)
      BY DEF StagesInv, ScopeRestored
    <3>2. TeardownStage(c)'
      BY <2>2, <3>1, OwnTeardown
    <3>3. \A d \in Contexts : d # c => TeardownStage(d)'
      BY <2>2, OtherTeardowns
    <3>4. QED
      BY <3>2, <3>3
  <2>3. CASE UNCHANGED vars
    BY <2>3 DEF vars, TeardownStage
  <2>4. QED
    BY <2>1, <2>2, <2>3 DEF Next
<1>3. QED
  BY <1>1, <1>2, TypeCorrect, StagesCorrect, PTL DEF Spec

(***************************************************************************)
(* A worker whose dependencies let exceptions through answers "success"    *)
(* only after the function returned, with no teardown that saw an error.   *)
(***************************************************************************)
THEOREM SuccessIsEarned == NothingSwallowed => (Spec => []SuccessMeansReturned)
PROOF
<1> SUFFICES ASSUME NothingSwallowed
             PROVE  Spec => []SuccessMeansReturned
  OBVIOUS
<1>1. AllTeardowns => SuccessMeansReturned
  BY DEF AllTeardowns, TeardownStage, SuccessMeansReturned, Done
<1>2. QED
  BY <1>1, TeardownsCorrect, PTL

(***************************************************************************)
(* No dependency of such a worker commits after the function failed or was *)
(* cancelled, however many close and fail in between.                      *)
(***************************************************************************)
THEOREM FailureIsSeen == NothingSwallowed => (Spec => []FailureReachesTeardown)
PROOF
<1> SUFFICES ASSUME NothingSwallowed
             PROVE  Spec => []FailureReachesTeardown
  OBVIOUS
<1>1. AllTeardowns => FailureReachesTeardown
  BY DEF AllTeardowns, TeardownStage, FailureReachesTeardown
<1>2. QED
  BY <1>1, TeardownsCorrect, PTL

-----------------------------------------------------------------------------
(***************************************************************************)
(* Refinement: each step of a worker is a step of Attempt, or none.        *)
(***************************************************************************)
PhaseOf(c) == IF pc[c] \in {"idle", "answered"} THEN pc[c] ELSE "serving"

\* A step of c changes the abstract state at c only.
LEMMA AttemptFrame ==
    ASSUME TypeOK, TypeOK', NEW c \in Contexts, Receive(c) \/ Serve(c) \/ Cancel(c)
    PROVE  LET ph == [d \in Contexts |-> PhaseOf(d)]
               wk == [d \in Contexts |-> WorkDone(d)]
           IN  /\ ph' = [ph EXCEPT ![c] = PhaseOf(c)']
               /\ wk' = [wk EXCEPT ![c] = WorkDone(c)']
               /\ answer' = [answer EXCEPT ![c] = answer'[c]]
PROOF
<1>1. \A d \in Contexts : d # c => PhaseOf(d)' = PhaseOf(d)
  BY OthersUntouched DEF PhaseOf
<1>2. \A d \in Contexts : d # c => WorkDone(d)' = WorkDone(d)
  BY OthersUntouched DEF WorkDone
<1>3. answer' = [answer EXCEPT ![c] = answer'[c]]
  <2>1. answer \in [Contexts -> {"none"} \cup Acknowledged \cup Retried]
        /\ answer' \in [Contexts -> {"none"} \cup Acknowledged \cup Retried]
    BY DEF TypeOK
  <2>2. \A d \in Contexts : d # c => answer'[d] = answer[d]
    BY OthersUntouched
  <2>3. QED
    BY <2>1, <2>2
<1>4. [d \in Contexts |-> PhaseOf(d)]' = [[d \in Contexts |-> PhaseOf(d)] EXCEPT ![c] = PhaseOf(c)']
  BY <1>1
<1>5. [d \in Contexts |-> WorkDone(d)]' = [[d \in Contexts |-> WorkDone(d)] EXCEPT ![c] = WorkDone(c)']
  BY <1>2
<1>6. QED
  BY <1>3, <1>4, <1>5

\* How the work of an attempt may go on.
Moves(u, v) ==
    \/ u = v
    \/ u = "none" /\ v = "begun"
    \/ u = "begun" /\ v = "complete"
    \/ u \in {"begun", "complete", "failed"} /\ v = "declined"
    \/ u \in {"begun", "complete", "declined"} /\ v = "failed"

\* What a closing step makes of the work: the function has ended, or never began.
LEMMA Closing ==
    ASSUME TypeOK, NEW c \in Contexts, TeardownStage(c), pc[c] = "closing",
           body'[c] = body[c], exc'[c] \in {exc[c], "CancelledError"} \cup Exceptions
    PROVE  Moves(WorkDone(c), WorkDone(c)')
PROOF
<1>1. CASE body[c] = "unstarted"
  BY <1>1 DEF WorkDone, Moves
<1>2. CASE body[c] # "unstarted" /\ exc'[c] = exc[c]
  BY <1>2 DEF WorkDone, Moves
<1>3. CASE body[c] # "unstarted" /\ exc'[c] # exc[c]
  <2>1. body[c] # "running"
    BY DEF TeardownStage
  <2>2. WorkDone(c) \in {"complete", "declined", "failed"}
    BY <1>3, <2>1 DEF WorkDone
  <2>3. exc'[c] # "none"
    BY <1>3 DEF Exceptions, ControlFlow
  <2>4. WorkDone(c)' \in {"declined", "failed"}
    BY <1>3, <2>1, <2>3 DEF WorkDone
  <2>5. QED
    BY <2>2, <2>4 DEF Moves
<1>4. QED
  BY <1>1, <1>2, <1>3

\* Seen at c, a step of c takes an attempt, moves its work on, answers it, or does nothing.
LEMMA ServeIsAttemptStep ==
    ASSUME TypeOK, TypeOK', NEW c \in Contexts, Stage(c), TeardownStage(c),
           Receive(c) \/ Serve(c) \/ Cancel(c)
    PROVE  Attempts!Step(c) \/ UNCHANGED Attempts!avars
PROOF
<1> DEFINE ph == [d \in Contexts |-> PhaseOf(d)]
           wk == [d \in Contexts |-> WorkDone(d)]
<1>f. /\ ph' = [ph EXCEPT ![c] = PhaseOf(c)']
      /\ wk' = [wk EXCEPT ![c] = WorkDone(c)']
      /\ answer' = [answer EXCEPT ![c] = answer'[c]]
      /\ ph[c] = PhaseOf(c) /\ wk[c] = WorkDone(c)
      /\ answer = [answer EXCEPT ![c] = answer[c]]
  BY AttemptFrame DEF TypeOK
<1>a. /\ Attempts!Step(c) <=>
            \/ /\ ph[c] # "serving"
               /\ ph' = [ph EXCEPT ![c] = "serving"]
               /\ wk' = [wk EXCEPT ![c] = "none"]
               /\ answer' = [answer EXCEPT ![c] = "none"]
            \/ /\ ph[c] = "serving"
               /\ \/ wk[c] = "none" /\ wk' = [wk EXCEPT ![c] = "begun"]
                  \/ wk[c] = "begun" /\ wk' = [wk EXCEPT ![c] = "complete"]
                  \/ /\ wk[c] \in {"begun", "complete", "failed"}
                     /\ wk' = [wk EXCEPT ![c] = "declined"]
                  \/ /\ wk[c] \in {"begun", "complete", "declined"}
                     /\ wk' = [wk EXCEPT ![c] = "failed"]
               /\ UNCHANGED <<ph, answer>>
            \/ /\ ph[c] = "serving"
               /\ ph' = [ph EXCEPT ![c] = "idle"]
               /\ UNCHANGED <<wk, answer>>
            \/ \E a \in Acknowledged \cup Retried :
                  /\ ph[c] = "serving"
                  /\ a = "success" => wk[c] = "complete"
                  /\ a \in {"aborted", "rejected"} => wk[c] \in {"none", "declined"}
                  /\ ph' = [ph EXCEPT ![c] = "answered"]
                  /\ answer' = [answer EXCEPT ![c] = a]
                  /\ UNCHANGED wk
      /\ UNCHANGED Attempts!avars <=> UNCHANGED <<ph, wk, answer>>
  BY DEF Attempts!Step, Attempts!Take, Attempts!Advance, Attempts!Start, Attempts!Complete,
         Attempts!Decline, Attempts!Break, Attempts!Stop, Attempts!Reply, Attempts!avars,
         Attempts!Acks, Attempts!Errors, Acknowledged, Retried, PhaseOf
<1>s. ASSUME PhaseOf(c)' = PhaseOf(c)
      PROVE  UNCHANGED ph
  BY <1>f, <1>s
<1>w. ASSUME WorkDone(c)' = WorkDone(c)
      PROVE  UNCHANGED wk
  BY <1>f, <1>w
<1>n. ASSUME answer'[c] = answer[c]
      PROVE  UNCHANGED answer
  BY <1>f, <1>n
<1>m. ASSUME PhaseOf(c) = "serving", PhaseOf(c)' = "serving", answer'[c] = answer[c],
             Moves(WorkDone(c), WorkDone(c)')
      PROVE  Attempts!Step(c) \/ UNCHANGED Attempts!avars
  <2>1. UNCHANGED <<ph, answer>>
    BY <1>m, <1>s, <1>n
  <2>2. CASE WorkDone(c)' = WorkDone(c)
    BY <2>1, <2>2, <1>a, <1>w
  <2>3. CASE WorkDone(c)' # WorkDone(c)
    <3>1. ph[c] = "serving" /\ wk[c] = WorkDone(c) /\ wk' = [wk EXCEPT ![c] = WorkDone(c)']
      BY <1>f, <1>m
    <3> HIDE DEF ph, wk
    <3>2. QED
      BY <1>m, <2>1, <2>3, <3>1, <1>a DEF Moves
  <2>4. QED
    BY <2>2, <2>3
<1> HIDE DEF ph, wk
<1>1. CASE Receive(c)
  <2>1. /\ PhaseOf(c) # "serving" /\ PhaseOf(c)' = "serving"
        /\ body'[c] = "unstarted" /\ answer'[c] = "none"
    BY <1>1 DEF Receive, PhaseOf, TypeOK
  <2>2. WorkDone(c)' = "none"
    BY <2>1 DEF WorkDone
  <2>3. QED
    BY <2>1, <2>2, <1>a, <1>f
<1>2. CASE Refuse(c)
  <2>1. /\ PhaseOf(c) = "serving" /\ PhaseOf(c)' = "answered"
        /\ body[c] = "unstarted" /\ body'[c] = body[c]
        /\ answer'[c] = Answer(Admission(req[c]))
    BY <1>2 DEF Refuse, PhaseOf, TypeOK, Stage, Stages
  <2>2. Answer(Admission(req[c])) \in (Acknowledged \cup Retried) \ {"success"}
    <3>1. Admission(req[c]) \in Outcomes \ {"none"}
      BY <1>2, OutcomeTypes DEF Refuse, TypeOK, Outcomes, Exceptions, ControlFlow
    <3>2. QED
      BY <3>1, OutcomeTypes DEF Answer
  <2>3. WorkDone(c) = "none" /\ WorkDone(c)' = "none"
    BY <2>1 DEF WorkDone
  <2>4. QED
    BY <2>1, <2>2, <2>3, <1>a, <1>f, <1>w
<1>3. CASE Admit(c) \/ SolveDependency(c) \/ Solved(c) \/ DependencyRaises(c) \/ ArgumentsRejected(c)
  <2>1. /\ PhaseOf(c) = "serving" /\ PhaseOf(c)' = "serving" /\ answer'[c] = answer[c]
        /\ body[c] = "unstarted" /\ body'[c] = body[c]
    BY <1>3 DEF Admit, SolveDependency, Solved, DependencyRaises, ArgumentsRejected, LeaveSolving,
                PhaseOf, TypeOK, Stage, Stages
  <2>2. Moves(WorkDone(c), WorkDone(c)')
    BY <2>1 DEF WorkDone, Moves
  <2>3. QED
    BY <2>1, <2>2, <1>m
<1>4. CASE Call(c)
  <2>1. /\ PhaseOf(c) = "serving" /\ PhaseOf(c)' = "serving" /\ answer'[c] = answer[c]
        /\ body[c] = "unstarted" /\ body'[c] \in {"running", "unstarted"}
    BY <1>4 DEF Call, PhaseOf, TypeOK, Stage, Stages
  <2>2. Moves(WorkDone(c), WorkDone(c)')
    BY <2>1 DEF WorkDone, Moves
  <2>3. QED
    BY <2>1, <2>2, <1>m
<1>5. CASE Finish(c)
  <2>1. /\ PhaseOf(c) = "serving" /\ PhaseOf(c)' = "serving" /\ answer'[c] = answer[c]
        /\ body[c] = "running" /\ exc[c] = "none"
    BY <1>5 DEF Finish, PhaseOf, TypeOK, Stage, Stages
  <2>2. \/ body'[c] = "returned" /\ exc'[c] = "none"
        \/ body'[c] \in Exceptions /\ exc'[c] = body'[c]
    BY <1>5, <2>1 DEF Finish, TypeOK
  <2>3. WorkDone(c) = "begun"
    BY <2>1 DEF WorkDone
  <2>4. WorkDone(c)' \in {"complete", "declined", "failed"}
    BY <2>2 DEF WorkDone, Exceptions, ControlFlow
  <2>5. QED
    BY <2>1, <2>3, <2>4, <1>m DEF Moves
<1>6. CASE CloseDependency(c)
  <2>1. /\ PhaseOf(c) = "serving" /\ PhaseOf(c)' = "serving" /\ answer'[c] = answer[c]
        /\ pc[c] = "closing" /\ body'[c] = body[c]
    BY <1>6 DEF CloseDependency, PhaseOf, TypeOK
  <2>2. stack[c][Len(stack[c])] \in {"reraise", "flaky"}
    BY <1>6, PopStack DEF CloseDependency, TeardownStage
  <2>3. exc'[c] \in {exc[c]} \cup Exceptions
    <3>1. exc'[c] \in Teardown(stack[c][Len(stack[c])], exc[c])
      BY <1>6 DEF CloseDependency, TypeOK
    <3>2. QED
      BY <2>2, <3>1 DEF Teardown
  <2>4. Moves(WorkDone(c), WorkDone(c)')
    BY <2>1, <2>3, Closing
  <2>5. QED
    BY <2>1, <2>4, <1>m
<1>7. CASE Respond(c)
  <2>1. /\ PhaseOf(c) = "serving" /\ PhaseOf(c)' = "answered" /\ body'[c] = body[c]
        /\ exc'[c] = Wrapped(exc[c]) /\ answer'[c] = Answer(Wrapped(exc[c]))
    BY <1>7 DEF Respond, PhaseOf, TypeOK
  <2>2. Answer(Wrapped(exc[c])) \in Acknowledged \cup Retried
    BY OutcomeTypes DEF TypeOK
  <2>3. /\ Wrapped(exc[c]) = "none" <=> exc[c] = "none"
        /\ Wrapped(exc[c]) \in CallsOff <=> exc[c] \in CallsOff
    BY DEF Wrapped, CallsOff, Exceptions, ControlFlow
  <2>4. WorkDone(c)' = WorkDone(c)
    BY <2>1, <2>3 DEF WorkDone
  <2>5. ASSUME Answer(Wrapped(exc[c])) = "success"
        PROVE  WorkDone(c) = "complete"
    <3>1. exc[c] = "none"
      BY <2>5 DEF TypeOK, Answer, Wrapped, Outcomes, Exceptions, ControlFlow
    <3>2. body[c] = "returned"
      BY <1>7, <3>1 DEF Respond, TeardownStage
    <3>3. QED
      BY <3>1, <3>2 DEF WorkDone, CallsOff
  <2>6. ASSUME Answer(Wrapped(exc[c])) \in {"aborted", "rejected"}
        PROVE  WorkDone(c) \in {"none", "declined"}
    <3>1. exc[c] \in CallsOff /\ exc[c] # "none"
      BY <2>6 DEF TypeOK, Answer, Wrapped, Outcomes, Exceptions, ControlFlow, CallsOff
    <3>2. body[c] # "running"
      BY <1>7 DEF Respond, TeardownStage
    <3>3. QED
      BY <3>1, <3>2 DEF WorkDone
  <2>7. QED
    BY <2>1, <2>2, <2>4, <2>5, <2>6, <1>a, <1>f, <1>w
<1>8. CASE Cancel(c)
  <2>1. /\ PhaseOf(c) = "serving" /\ PhaseOf(c)' = "serving" /\ answer'[c] = answer[c]
    BY <1>8 DEF Cancel, LeaveSolving, PhaseOf, TypeOK
  <2>2. CASE pc[c] = "solving"
    <3>1. body[c] = "unstarted" /\ body'[c] = body[c]
      BY <1>8, <2>2 DEF Cancel, LeaveSolving, Stage, Stages
    <3>2. QED
      BY <2>1, <3>1, <1>m DEF WorkDone, Moves
  <2>3. CASE pc[c] = "running"
    <3>1. body[c] = "running" /\ body'[c] = "CancelledError" /\ exc'[c] = "CancelledError"
      BY <1>8, <2>3 DEF Cancel, TypeOK, Stage, Stages
    <3>2. WorkDone(c) = "begun" /\ WorkDone(c)' = "failed"
      BY <3>1 DEF WorkDone, CallsOff
    <3>3. QED
      BY <2>1, <3>2, <1>m DEF Moves
  <2>4. CASE pc[c] = "closing"
    <3>1. body'[c] = body[c] /\ exc'[c] = "CancelledError"
      BY <1>8, <2>4 DEF Cancel, TypeOK
    <3>2. QED
      BY <2>1, <2>4, <3>1, Closing, <1>m
  <2>5. QED
    BY <1>8, <2>2, <2>3, <2>4 DEF Cancel
<1>9. QED
  BY <1>1, <1>2, <1>3, <1>4, <1>5, <1>6, <1>7, <1>8 DEF Serve

(***************************************************************************)
(* Worker implements Attempt: whatever requests arrive, in any number of   *)
(* contexts, no answer disagrees with the work that was done.              *)
(***************************************************************************)
THEOREM WorkerKeepsPromise == NothingSwallowed => (Spec => KeepsAttemptPromise)
PROOF
<1> SUFFICES ASSUME NothingSwallowed
             PROVE  Spec => KeepsAttemptPromise
  OBVIOUS
<1>1. Init => Attempts!Init
  BY DEF Init, Attempts!Init, WorkDone
<1>2. TypeOK /\ TypeOK' /\ AllStages /\ AllTeardowns /\ [Next]_vars
         => [\E s \in Contexts : Attempts!Step(s)]_(Attempts!avars)
  <2> SUFFICES ASSUME TypeOK, TypeOK', AllStages, AllTeardowns, [Next]_vars
               PROVE  (\E c \in Contexts : Attempts!Step(c)) \/ UNCHANGED Attempts!avars
    OBVIOUS
  <2>1. ASSUME NEW t \in Tasks, Register(t)
        PROVE  UNCHANGED Attempts!avars
    BY <2>1 DEF Register, Attempts!avars, WorkDone
  <2>2. ASSUME NEW c \in Contexts, Receive(c) \/ Serve(c) \/ Cancel(c)
        PROVE  Attempts!Step(c) \/ UNCHANGED Attempts!avars
    BY <2>2, ServeIsAttemptStep DEF AllStages, AllTeardowns
  <2>3. CASE UNCHANGED vars
    BY <2>3 DEF vars, Attempts!avars, WorkDone
  <2>4. QED
    BY <2>1, <2>2, <2>3 DEF Next
<1>3. Spec => Attempts!Init /\ [][\E s \in Contexts : Attempts!Step(s)]_(Attempts!avars)
  BY <1>1, <1>2, TypeCorrect, StagesCorrect, TeardownsCorrect, PTL DEF Spec
<1>4. QED
  BY <1>3 DEF KeepsAttemptPromise, Attempts!Spec
=============================================================================
