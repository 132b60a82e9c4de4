------------------------------- MODULE Worker -------------------------------
(***************************************************************************)
(* The worker side of cloudtask: one HTTP request of Cloud Tasks, from the *)
(* parsed body to the answer that decides whether the task is retried.     *)
(*                                                                         *)
(*   executor.py     CloudTaskExecutor: run, sync_run, _prepare_execution  *)
(*   ext/fastapi.py  FastAPICloudTaskExecutor, CloudTaskRouter._run_task   *)
(*   auth.py         WorkerAuthenticator.authenticate                      *)
(*   context.py      task_context_scope                                    *)
(*   validation.py   ArgumentValidator.validate                            *)
(*                                                                         *)
(* A step is the code between two awaits. Requests are served by execution *)
(* contexts (asyncio tasks, WSGI threads), each one request at a time and  *)
(* one after another, so what a request leaves behind meets the next one.  *)
(* A task has one data parameter; what a request says of it is args.       *)
(***************************************************************************)
EXTENDS Naturals, Sequences

CONSTANTS
    Contexts,             \* the execution contexts that serve requests
    Tasks,                \* the dotted paths of the task functions
    Deps,                 \* Deps[t]: the kinds of the Depends(...) of t, in order
    Validation,           \* Validation[t]: the validator attached to t
    Naming,               \* Naming[t]: what the name option of t renders from
    Coroutines,           \* the tasks that are async functions
    Requests,             \* the requests Cloud Tasks (or anyone) may send
    NoContext,            \* current_task() outside a task
    RetryUnknownTasks,    \* client.retry_unknown_tasks
    AddUrlFuncNameSuffix, \* client.add_url_func_name_suffix
    Asgiref               \* asgiref is installed (sync_run of async tasks)

(***************************************************************************)
(* What a dependency does:                                                 *)
(*   value    no yield: nothing to close                                   *)
(*   reraise  yields, and lets an exception through (or raises it again)   *)
(*   swallow  yields, catches Exception and does not raise it again        *)
(*   flaky    yields as reraise, and its teardown may raise an exception   *)
(*            of its own (a commit that fails, a check that calls off)     *)
(***************************************************************************)
YieldKinds == {"reraise", "swallow", "flaky"}
DependencyKinds == {"value"} \cup YieldKinds

(***************************************************************************)
(* off: no validator; on: it resolves the annotations; broken: resolving   *)
(* them raises (a name imported under TYPE_CHECKING, NameError).           *)
(***************************************************************************)
ValidationKinds == {"off", "on", "broken"}

(***************************************************************************)
(* fixed: no name, a static one, or one that renders alike from the pushed *)
(* arguments and from their JSON form; rich: it needs the Python value     *)
(* ("day-{when:%Y%m%d}", "order-{order.id}").                              *)
(***************************************************************************)
NamingKinds == {"fixed", "rich"}

(***************************************************************************)
(* How the payload fits the signature: surplus does not bind; missing      *)
(* binds partially only; mistyped binds and contradicts an annotation.     *)
(* A parameter that the payload lacks is looked for in the query string,   *)
(* the headers or the cookies of the request: query says that a valid      *)
(* value of it is there.                                                   *)
(***************************************************************************)
ArgumentFits == {"fit", "surplus", "missing", "mistyped"}

Request == [entry : {"run", "sync_run"}, secret : BOOLEAN,
            body : {"malformed", "wellformed"}, path : Tasks,
            args : ArgumentFits, query : BOOLEAN, segment : BOOLEAN]

ASSUME WorkerAssumption ==
    /\ Deps \in [Tasks -> Seq(DependencyKinds)]
    /\ Validation \in [Tasks -> ValidationKinds]
    /\ Naming \in [Tasks -> NamingKinds]
    /\ Coroutines \subseteq Tasks
    /\ Requests \subseteq Request
    /\ NoContext \notin Requests
    /\ RetryUnknownTasks \in BOOLEAN
    /\ AddUrlFuncNameSuffix \in BOOLEAN
    /\ Asgiref \in BOOLEAN

(***************************************************************************)
(* Exceptions: the ones a task raises on purpose pass through unchanged.   *)
(* Other is any other Exception; CancelledError is not an Exception.       *)
(***************************************************************************)
ControlFlow == {"TaskAbort", "TaskRetry", "InvalidTaskPayload"}
Exceptions == ControlFlow \cup {"TaskNotFound", "TaskAuthenticationError",
                                "TaskExecutionError", "Other"}
Outcomes == {"none", "CancelledError"} \cup Exceptions

Acknowledged == {"success", "aborted", "rejected"}   \* 2xx: no retry
Retried == {"403", "404", "503", "500", "dropped"}   \* the rest

VARIABLES
    registry,    \* client.registry: the paths the worker may run
    dependants,  \* _dependants: request parameters of each analysed task
    pc,          \* where the request of each context is
    req,         \* the request being served, NoContext before the first
    current,     \* the ContextVar of context.py in each context
    wanted,      \* parameters this run still expects from the request
    solved,      \* how many dependencies are solved
    stack,       \* the AsyncExitStack owned by the execution
    scope,       \* whose exit stack the request scope names
    exc,         \* the exception in flight, "none" if none is
    origin,      \* (history) who raised the exception last
    body,        \* (history) what the task function did
    seen,        \* (history) what closing dependencies were given
    answer       \* the answer of the last request

vars == <<registry, dependants, pc, req, current, wanted, solved, stack, scope,
          exc, origin, body, seen, answer>>

PC == {"idle", "received", "solving", "calling", "running", "closing", "answered"}
Origins == {"nobody", "request", "dependency", "arguments", "call", "body",
            "teardown", "server"}
Bodies == {"unstarted", "running", "returned", "CancelledError"} \cup Exceptions

TypeOK ==
    /\ registry \subseteq Tasks
    /\ DOMAIN dependants \subseteq Tasks
    /\ \A t \in DOMAIN dependants : dependants[t] \subseteq {"data"}
    /\ pc \in [Contexts -> PC]
    /\ req \in [Contexts -> Requests \cup {NoContext}]
    /\ \A c \in Contexts : pc[c] # "idle" => req[c] \in Requests
    /\ current \in [Contexts -> Requests \cup {NoContext}]
    /\ wanted \in [Contexts -> SUBSET {"data"}]
    /\ solved \in [Contexts -> Nat]
    /\ stack \in [Contexts -> Seq(YieldKinds)]
    /\ scope \in [Contexts -> {"request", "task"}]
    /\ exc \in [Contexts -> Outcomes]
    /\ origin \in [Contexts -> Origins]
    /\ body \in [Contexts -> Bodies]
    /\ seen \in [Contexts -> SUBSET Outcomes]
    /\ answer \in [Contexts -> {"none"} \cup Acknowledged \cup Retried]

Init ==
    /\ registry \in SUBSET Tasks
    /\ dependants = [t \in {} |-> {}]
    /\ pc = [c \in Contexts |-> "idle"]
    /\ req = [c \in Contexts |-> NoContext]
    /\ current = [c \in Contexts |-> NoContext]
    /\ wanted = [c \in Contexts |-> {}]
    /\ solved = [c \in Contexts |-> 0]
    /\ stack = [c \in Contexts |-> <<>>]
    /\ scope = [c \in Contexts |-> "request"]
    /\ exc = [c \in Contexts |-> "none"]
    /\ origin = [c \in Contexts |-> "nobody"]
    /\ body = [c \in Contexts |-> "unstarted"]
    /\ seen = [c \in Contexts |-> {}]
    /\ answer = [c \in Contexts |-> "none"]

-----------------------------------------------------------------------------
(***************************************************************************)
(* What one synchronous piece of the code decides                          *)
(***************************************************************************)

\* The URL segment is checked by the FastAPI executor only.
UrlMismatch(r) == r.entry = "run" /\ AddUrlFuncNameSuffix /\ ~r.segment

\* ArgumentValidator.validate, for the arguments that bind: unresolved annotations raise
\* what they raise (a NameError), a missing argument is not looked for.
ValidatorRaises(r) ==
    CASE Validation[r.path] = "broken" -> "Other"
      [] Validation[r.path] = "on" /\ r.args = "mistyped" -> "InvalidTaskPayload"
      [] OTHER -> "none"

\* _prepare_execution: the exception it raises, "none" if the request is accepted.
Prepare(r) ==
    IF r.body = "malformed" THEN "InvalidTaskPayload"
    ELSE IF r.path \notin registry THEN "TaskNotFound"
    ELSE IF r.args = "surplus" THEN "InvalidTaskPayload"
    ELSE IF ValidatorRaises(r) # "none" THEN ValidatorRaises(r)
    ELSE IF UrlMismatch(r) THEN "InvalidTaskPayload"
    ELSE "none"

\* Mutant: the payload is validated first, as FastAPI would do for a declared body.
PayloadBeforeSecret(r) ==
    IF Prepare(r) # "none" THEN Prepare(r)
    ELSE IF r.secret THEN "none" ELSE "TaskAuthenticationError"

\* The secret is checked before anything else is looked at.
Admission(r) == IF r.secret THEN Prepare(r) ELSE "TaskAuthenticationError"

\* FastAPI solves the dependencies of a task; the plain executor ignores them.
HasDependencies(r) == r.entry = "run" /\ Deps[r.path] # <<>>

Provided(r) == IF r.args = "missing" THEN {} ELSE {"data"}

\* _get_dependant: the analysis of t, built once and kept.
Analysed(t) ==
    IF t \in DOMAIN dependants THEN dependants
    ELSE [u \in DOMAIN dependants \cup {t} |->
             IF u = t THEN {"data"} ELSE dependants[u]]

\* An argument that the payload lacks and solve_dependencies took from the request, converted
\* to its type.
FromRequest(r) == r.args = "missing" /\ HasDependencies(r) /\ r.query

\* The factory renders the task name again, from the arguments as they arrived.
RenderFails(r) == Naming[r.path] = "rich" /\ Validation[r.path] # "on" /\ ~FromRequest(r)

\* Building the Task and calling the function: what is raised before its body runs.
CallRaises(r) ==
    IF RenderFails(r) THEN "Other"
    ELSE IF r.entry = "sync_run" /\ r.path \in Coroutines /\ ~Asgiref
      THEN "TaskExecutionError"
    ELSE IF r.args = "missing" /\ ~FromRequest(r) THEN "Other"
    ELSE "none"

\* Mutant: the exit of a dependency reports every exception as handled.
TeardownHandlesAll(kind, e) == {"none"}

\* What a closing dependency turns the exception e into.
Teardown(kind, e) ==
    CASE kind = "swallow" -> {IF e \in Exceptions THEN "none" ELSE e}
      [] kind = "flaky"   -> {e} \cup Exceptions
      [] OTHER            -> {e}

\* Mutant: every exception of the library passes through, not only control flow.
WrappedForeignOnly(e) == IF e = "Other" THEN "TaskExecutionError" ELSE e

\* Mutant: TaskRetry is missing from CONTROL_FLOW_EXCEPTIONS.
WrappedRetry(e) ==
    IF e \in Exceptions \ {"TaskAbort", "InvalidTaskPayload"} THEN "TaskExecutionError" ELSE e

\* _execute_impl: all but the control-flow exceptions become TaskExecutionError.
Wrapped(e) ==
    IF e \in Exceptions \ ControlFlow THEN "TaskExecutionError" ELSE e

\* _run_task: the answer an exception becomes; the server answers 500 for the rest.
\* (An application that serves tasks with sync_run maps them as documented, alike.)
Answer(e) ==
    CASE e = "none"                    -> "success"
      [] e = "TaskAuthenticationError" -> "403"
      [] e = "TaskAbort"               -> "aborted"
      [] e = "TaskRetry"               -> "503"
      [] e = "InvalidTaskPayload"      -> "rejected"
      [] e = "TaskNotFound"            -> IF RetryUnknownTasks THEN "404" ELSE "rejected"
      [] e = "CancelledError"          -> "dropped"
      [] OTHER                         -> "500"

-----------------------------------------------------------------------------
(***************************************************************************)
(* Steps                                                                   *)
(***************************************************************************)

\* A module with a task is imported (autodiscover at startup, or later).
Register(t) ==
    /\ registry' = registry \cup {t}
    /\ UNCHANGED <<dependants, pc, req, current, wanted, solved, stack, scope,
                   exc, origin, body, seen, answer>>

\* A request arrives, with a scope of its own; the router awaits its JSON body.
Receive(c) ==
    /\ pc[c] \in {"idle", "answered"}
    /\ \E r \in Requests : req' = [req EXCEPT ![c] = r]
    /\ pc' = [pc EXCEPT ![c] = "received"]
    /\ wanted' = [wanted EXCEPT ![c] = {}]
    /\ solved' = [solved EXCEPT ![c] = 0]
    /\ exc' = [exc EXCEPT ![c] = "none"]
    /\ origin' = [origin EXCEPT ![c] = "nobody"]
    /\ body' = [body EXCEPT ![c] = "unstarted"]
    /\ seen' = [seen EXCEPT ![c] = {}]
    /\ answer' = [answer EXCEPT ![c] = "none"]
    /\ scope' = [scope EXCEPT ![c] = "request"]
    /\ stack' = [stack EXCEPT ![c] = <<>>]
    /\ UNCHANGED <<registry, dependants, current>>

\* The request is refused before any task is involved.
Refuse(c) ==
    LET e == Admission(req[c]) IN
    /\ pc[c] = "received"
    /\ e # "none"
    /\ exc' = [exc EXCEPT ![c] = e]
    /\ origin' = [origin EXCEPT ![c] = "request"]
    /\ answer' = [answer EXCEPT ![c] = Answer(e)]
    /\ pc' = [pc EXCEPT ![c] = "answered"]
    /\ UNCHANGED <<registry, dependants, req, current, wanted, solved, stack,
                   scope, body, seen>>

\* Mutant: the parameters are dropped from the cached analysis itself.
AdmitInPlace(c) ==
    LET r == req[c]
        kept == Analysed(r.path)[r.path] \ Provided(r)
    IN
    /\ pc[c] = "received"
    /\ Admission(r) = "none"
    /\ current' = [current EXCEPT ![c] = r]
    /\ dependants' = IF HasDependencies(r)
                       THEN [Analysed(r.path) EXCEPT ![r.path] = kept]
                       ELSE IF r.entry = "run" THEN Analysed(r.path) ELSE dependants
    /\ wanted' = [wanted EXCEPT ![c] = IF HasDependencies(r) THEN kept ELSE @]
    /\ scope' = [scope EXCEPT ![c] = IF HasDependencies(r) THEN "task" ELSE @]
    /\ pc' = [pc EXCEPT ![c] = IF HasDependencies(r) THEN "solving" ELSE "calling"]
    /\ UNCHANGED <<registry, req, solved, stack, exc, origin, body, seen, answer>>

\* The request is accepted: the task context is set, and a task with dependencies
\* starts solving them on an exit stack of its own.
Admit(c) ==
    LET r == req[c] IN
    /\ pc[c] = "received"
    /\ Admission(r) = "none"
    /\ current' = [current EXCEPT ![c] = r]
    /\ dependants' = IF r.entry = "run" THEN Analysed(r.path) ELSE dependants
    /\ IF HasDependencies(r)
         THEN /\ wanted' = [wanted EXCEPT ![c] = Analysed(r.path)[r.path] \ Provided(r)]
              /\ scope' = [scope EXCEPT ![c] = "task"]
              /\ pc' = [pc EXCEPT ![c] = "solving"]
         ELSE /\ pc' = [pc EXCEPT ![c] = "calling"]
              /\ UNCHANGED <<wanted, scope>>
    /\ UNCHANGED <<registry, req, solved, stack, exc, origin, body, seen, answer>>

\* Mutant: what a dependency without a yield holds is pushed on the exit stack too.
StackEveryDependency(c) ==
    /\ pc[c] = "solving"
    /\ solved[c] < Len(Deps[req[c].path])
    /\ solved' = [solved EXCEPT ![c] = @ + 1]
    /\ stack' = [stack EXCEPT ![c] = Append(@, Deps[req[c].path][solved[c] + 1])]
    /\ UNCHANGED <<registry, dependants, pc, req, current, wanted, scope, exc,
                   origin, body, seen, answer>>

\* solve_dependencies enters the next dependency.
SolveDependency(c) ==
    LET i == solved[c] + 1 IN
    /\ pc[c] = "solving"
    /\ i <= Len(Deps[req[c].path])
    /\ solved' = [solved EXCEPT ![c] = i]
    /\ stack' = IF Deps[req[c].path][i] \in YieldKinds
                  THEN [stack EXCEPT ![c] = Append(@, Deps[req[c].path][i])]
                  ELSE stack
    /\ UNCHANGED <<registry, dependants, pc, req, current, wanted, scope, exc,
                   origin, body, seen, answer>>

\* Mutant: _task_exit_stack without its try/finally.
LeaveSolvingUnrestored(c, e, who) ==
    /\ exc' = [exc EXCEPT ![c] = e]
    /\ origin' = [origin EXCEPT ![c] = who]
    /\ pc' = [pc EXCEPT ![c] = "closing"]
    /\ UNCHANGED <<registry, dependants, req, current, wanted, solved, stack,
                   scope, body, seen, answer>>

\* The exit of _task_exit_stack, then of the try block, with the exception e.
LeaveSolving(c, e, who) ==
    /\ scope' = [scope EXCEPT ![c] = "request"]
    /\ exc' = [exc EXCEPT ![c] = e]
    /\ origin' = [origin EXCEPT ![c] = who]
    /\ pc' = [pc EXCEPT ![c] = "closing"]
    /\ UNCHANGED <<registry, dependants, req, current, wanted, solved, stack,
                   body, seen, answer>>

\* A dependency raises before its yield: it is not on the stack.
DependencyRaises(c) ==
    /\ pc[c] = "solving"
    /\ solved[c] < Len(Deps[req[c].path])
    /\ \E e \in Exceptions : LeaveSolving(c, e, "dependency")

\* The parameters that the request does not supply.
Unmet(c) == IF req[c].query THEN {} ELSE wanted[c]

\* All dependencies are open, and an argument is neither in the payload nor the request.
ArgumentsRejected(c) ==
    /\ pc[c] = "solving"
    /\ solved[c] = Len(Deps[req[c].path])
    /\ Unmet(c) # {}
    /\ LeaveSolving(c, "InvalidTaskPayload", "arguments")

\* Mutant: solved_result.errors is not looked at.
SolvedUnchecked(c) ==
    /\ pc[c] = "solving"
    /\ solved[c] = Len(Deps[req[c].path])
    /\ scope' = [scope EXCEPT ![c] = "request"]
    /\ pc' = [pc EXCEPT ![c] = "calling"]
    /\ UNCHANGED <<registry, dependants, req, current, wanted, solved, stack,
                   exc, origin, body, seen, answer>>

\* All dependencies are solved: the request gets its own exit stacks back.
Solved(c) ==
    /\ pc[c] = "solving"
    /\ solved[c] = Len(Deps[req[c].path])
    /\ Unmet(c) = {}
    /\ scope' = [scope EXCEPT ![c] = "request"]
    /\ pc' = [pc EXCEPT ![c] = "calling"]
    /\ UNCHANGED <<registry, dependants, req, current, wanted, solved, stack,
                   exc, origin, body, seen, answer>>

\* The factory builds the Task and execute() calls the function.
Call(c) ==
    LET e == CallRaises(req[c]) IN
    /\ pc[c] = "calling"
    /\ IF e = "none"
         THEN /\ body' = [body EXCEPT ![c] = "running"]
              /\ pc' = [pc EXCEPT ![c] = "running"]
              /\ UNCHANGED <<exc, origin>>
         ELSE /\ exc' = [exc EXCEPT ![c] = e]
              /\ origin' = [origin EXCEPT ![c] = "call"]
              /\ pc' = [pc EXCEPT ![c] = "closing"]
              /\ UNCHANGED body
    /\ UNCHANGED <<registry, dependants, req, current, wanted, solved, stack,
                   scope, seen, answer>>

\* The task function ends.
Finish(c) ==
    /\ pc[c] = "running"
    /\ pc' = [pc EXCEPT ![c] = "closing"]
    /\ \/ /\ body' = [body EXCEPT ![c] = "returned"]
          /\ UNCHANGED <<exc, origin>>
       \/ \E e \in Exceptions :
             /\ body' = [body EXCEPT ![c] = e]
             /\ exc' = [exc EXCEPT ![c] = e]
             /\ origin' = [origin EXCEPT ![c] = "body"]
    /\ UNCHANGED <<registry, dependants, req, current, wanted, solved, stack,
                   scope, seen, answer>>

\* The server cancels the handler at an await (shutdown, client gone).
\* Before the request is admitted this leaves no trace, as if it had not arrived.
Cancel(c) ==
    /\ req[c] # NoContext /\ req[c].entry = "run"
    /\ \/ /\ pc[c] = "solving"
          /\ LeaveSolving(c, "CancelledError", "server")
       \/ /\ pc[c] = "running" /\ req[c].path \in Coroutines
          /\ exc' = [exc EXCEPT ![c] = "CancelledError"]
          /\ origin' = [origin EXCEPT ![c] = "server"]
          /\ body' = [body EXCEPT ![c] = "CancelledError"]
          /\ pc' = [pc EXCEPT ![c] = "closing"]
          /\ UNCHANGED <<registry, dependants, req, current, wanted, solved,
                         stack, scope, seen, answer>>
       \/ /\ pc[c] = "closing" /\ stack[c] # <<>>   \* while its teardown awaits
          /\ stack' = [stack EXCEPT ![c] = SubSeq(@, 1, Len(@) - 1)]
          /\ seen' = [seen EXCEPT ![c] = @ \cup {exc[c]}]
          /\ exc' = [exc EXCEPT ![c] = "CancelledError"]
          /\ origin' = [origin EXCEPT ![c] = "server"]
          /\ UNCHANGED <<registry, dependants, pc, req, current, wanted, solved,
                         scope, body, answer>>

\* Mutant: dependencies stay on the request's stack, which closes after the answer
\* has been made from the task's exception.
CloseUnaware(c) ==
    /\ pc[c] = "closing"
    /\ stack[c] # <<>>
    /\ stack' = [stack EXCEPT ![c] = SubSeq(@, 1, Len(@) - 1)]
    /\ seen' = [seen EXCEPT ![c] = @ \cup {"none"}]
    /\ UNCHANGED <<registry, dependants, pc, req, current, wanted, solved, scope,
                   exc, origin, body, answer>>

\* The exit stack closes its last dependency, which is given the exception in flight.
CloseDependency(c) ==
    LET kind == stack[c][Len(stack[c])] IN
    /\ pc[c] = "closing"
    /\ stack[c] # <<>>
    /\ stack' = [stack EXCEPT ![c] = SubSeq(@, 1, Len(@) - 1)]
    /\ seen' = [seen EXCEPT ![c] = @ \cup {exc[c]}]
    /\ \E e \in Teardown(kind, exc[c]) :
          /\ exc' = [exc EXCEPT ![c] = e]
          /\ origin' = [origin EXCEPT ![c] = IF e = exc[c] THEN @ ELSE "teardown"]
    /\ UNCHANGED <<registry, dependants, pc, req, current, wanted, solved, scope,
                   body, answer>>

\* Mutant: the context is reset after a success only (no try/finally).
RespondKeepingContext(c) ==
    /\ pc[c] = "closing"
    /\ stack[c] = <<>>
    /\ exc' = [exc EXCEPT ![c] = Wrapped(@)]
    /\ current' = [current EXCEPT ![c] = IF exc[c] = "none" THEN NoContext ELSE @]
    /\ answer' = [answer EXCEPT ![c] = Answer(Wrapped(exc[c]))]
    /\ pc' = [pc EXCEPT ![c] = "answered"]
    /\ UNCHANGED <<registry, dependants, req, wanted, solved, stack, scope,
                   origin, body, seen>>

\* Mutant: a handler that swallows CancelledError and waits on.
RespondUnlessCancelled(c) ==
    /\ pc[c] = "closing"
    /\ stack[c] = <<>>
    /\ exc[c] # "CancelledError"
    /\ exc' = [exc EXCEPT ![c] = Wrapped(@)]
    /\ current' = [current EXCEPT ![c] = NoContext]
    /\ answer' = [answer EXCEPT ![c] = Answer(Wrapped(exc[c]))]
    /\ pc' = [pc EXCEPT ![c] = "answered"]
    /\ UNCHANGED <<registry, dependants, req, wanted, solved, stack, scope,
                   origin, body, seen>>

\* Everything is closed: the exception is wrapped, the context reset, the answer sent.
Respond(c) ==
    /\ pc[c] = "closing"
    /\ stack[c] = <<>>
    /\ exc' = [exc EXCEPT ![c] = Wrapped(@)]
    /\ current' = [current EXCEPT ![c] = NoContext]
    /\ answer' = [answer EXCEPT ![c] = Answer(Wrapped(exc[c]))]
    /\ pc' = [pc EXCEPT ![c] = "answered"]
    /\ UNCHANGED <<registry, dependants, req, wanted, solved, stack, scope,
                   origin, body, seen>>

\* Every step the program itself takes for a request that has arrived.
Serve(c) ==
    \/ Refuse(c) \/ Admit(c)
    \/ SolveDependency(c) \/ DependencyRaises(c) \/ ArgumentsRejected(c) \/ Solved(c)
    \/ Call(c) \/ Finish(c) \/ CloseDependency(c) \/ Respond(c)

Next ==
    \/ \E t \in Tasks : Register(t)
    \/ \E c \in Contexts : Receive(c) \/ Serve(c) \/ Cancel(c)

Spec == Init /\ [][Next]_vars

\* The event loop and the threads run what is ready; task functions end.
FairSpec == Spec /\ \A c \in Contexts : WF_vars(Serve(c))

-----------------------------------------------------------------------------
(***************************************************************************)
(* Properties                                                              *)
(***************************************************************************)

Done(c) == pc[c] = "answered"

(***************************************************************************)
(* The answer "success" takes the task out of the queue for good, so it is *)
(* only given when the function returned and no dependency was closed with *)
(* an exception (a session that rolled back).                              *)
(***************************************************************************)
SuccessMeansReturned ==
    \A c \in Contexts :
        Done(c) /\ answer[c] = "success" =>
            body[c] = "returned" /\ seen[c] \subseteq {"none"}

(***************************************************************************)
(* A dependency that yields never closes as after a success (a session     *)
(* never commits) when the function failed, however many dependencies      *)
(* close before it and fail too. (A dependency that swallows exceptions    *)
(* breaks this, as it breaks SuccessMeansReturned.)                        *)
(***************************************************************************)
FailureReachesTeardown ==
    \A c \in Contexts :
        body[c] \in Exceptions \cup {"CancelledError"} => "none" \notin seen[c]

\* The exceptions that tell the router to drop the task.
CallsOff == {"TaskAbort", "InvalidTaskPayload"}

(***************************************************************************)
(* "aborted" and "rejected" also drop the task: when its function has      *)
(* begun by then, the function itself called the task off, or the teardown *)
(* of a dependency did, by one of the two exceptions that mean it. No      *)
(* other failure is taken for that: a TaskNotFound raised inside a task is *)
(* a failure (500), not an unknown task.                                   *)
(***************************************************************************)
DroppedByDecision ==
    \A c \in Contexts :
        Done(c) /\ answer[c] \in {"aborted", "rejected"} =>
            \/ body[c] = "unstarted"
            \/ exc[c] \in CallsOff /\ (body[c] = exc[c] \/ origin[c] = "teardown")

(***************************************************************************)
(* The two answers as the router documents them, "the task raised          *)
(* TaskAbort" and "invalid payload or unknown task": a task whose function *)
(* returned is answered neither.                                           *)
(***************************************************************************)
CompletedNotDropped ==
    \A c \in Contexts :
        Done(c) /\ answer[c] \in {"aborted", "rejected"} => body[c] # "returned"

(***************************************************************************)
(* What a task function decides reaches Cloud Tasks as documented, through *)
(* every dependency that is closed in between, unless one of them fails or *)
(* swallows it.                                                            *)
(***************************************************************************)
DecisionReachesQueue ==
    \A c \in Contexts :
        Done(c) /\ origin[c] = "body" =>
            answer[c] = CASE body[c] = "TaskAbort" -> "aborted"
                          [] body[c] = "TaskRetry" -> "503"
                          [] body[c] = "InvalidTaskPayload" -> "rejected"
                          [] OTHER -> "500"

(***************************************************************************)
(* A request without the secret is answered 403 whatever it carries, and   *)
(* neither a dependency nor a task runs for it.                            *)
(***************************************************************************)
UnauthenticatedIs403 ==
    \A c \in Contexts :
        pc[c] # "idle" /\ ~req[c].secret =>
            /\ pc[c] \in {"received", "answered"}
            /\ Done(c) => answer[c] = "403"
            /\ current[c] = NoContext /\ solved[c] = 0 /\ body[c] = "unstarted"

(***************************************************************************)
(* A task with dependencies never runs without an argument that neither    *)
(* the payload nor the request has, and is answered "rejected" (once it is *)
(* admitted, unless a dependency, its teardown or the server fails first), *)
(* whatever the requests before it provided: the cached analysis is shared *)
(* and a run drops parameters from its own copy only.                      *)
(***************************************************************************)
MissingArgumentRejected ==
    \A c \in Contexts :
        /\ pc[c] # "idle" /\ req[c].args = "missing" /\ ~req[c].query
        /\ HasDependencies(req[c])
        => /\ body[c] = "unstarted"
           /\ Done(c) /\ origin[c] \notin {"request", "dependency", "teardown", "server"} =>
                 answer[c] = "rejected"

(***************************************************************************)
(* An admitted request whose payload fits the task runs its function: only *)
(* a dependency or the server keeps it from running.                       *)
(***************************************************************************)
FitPayloadRuns ==
    \A c \in Contexts :
        /\ Done(c) /\ req[c].args = "fit"
        /\ origin[c] \notin {"request", "dependency", "teardown", "server"}
        => body[c] # "unstarted"

(***************************************************************************)
(* current_task() is the context of the request being served whenever its  *)
(* dependencies, its function or their teardown run, and None otherwise,   *)
(* however the request before it in that context ended.                    *)
(***************************************************************************)
ContextIsOwn ==
    \A c \in Contexts :
        current[c] = IF pc[c] \in {"solving", "calling", "running", "closing"}
                       THEN req[c] ELSE NoContext

(***************************************************************************)
(* The exit stack of an execution is in the request scope only while its   *)
(* dependencies are solved: afterwards FastAPI finds the request's own, on *)
(* every path out of the solving, and no dependency outlives the answer.   *)
(***************************************************************************)
ScopeRestored ==
    \A c \in Contexts :
        /\ scope[c] = IF pc[c] = "solving" THEN "task" ELSE "request"
        /\ pc[c] \in {"idle", "received", "answered"} => stack[c] = <<>>

(***************************************************************************)
(* The cached dependency analysis of a task never changes once built.      *)
(***************************************************************************)
AnalysisStable ==
    [][\A t \in DOMAIN dependants :
          t \in DOMAIN dependants' /\ dependants'[t] = dependants[t]]_vars

-----------------------------------------------------------------------------
(***************************************************************************)
(* What is known of a request at each stage: the inductive invariant that  *)
(* the safety properties above rest on.                                    *)
(***************************************************************************)
Engaged == {"solving", "calling", "running", "closing"}

Stages(c) ==
    /\ pc[c] \in Engaged => req[c].secret
    /\ pc[c] \in {"received", "solving", "calling"} =>
          exc[c] = "none" /\ origin[c] = "nobody" /\ body[c] = "unstarted"
    /\ pc[c] = "received" => solved[c] = 0
    /\ pc[c] = "running" =>
          exc[c] = "none" /\ origin[c] = "nobody" /\ body[c] = "running"
    /\ pc[c] = "closing" =>
          /\ exc[c] \in CallsOff /\ body[c] # "unstarted" =>
                body[c] = exc[c] \/ origin[c] = "teardown"
          /\ origin[c] = "body" => exc[c] = body[c] /\ body[c] \in Exceptions

StagesInv ==
    /\ \A c \in Contexts : Stages(c)
    /\ ContextIsOwn
    /\ ScopeRestored
    /\ UnauthenticatedIs403
    /\ DroppedByDecision
    /\ DecisionReachesQueue

(***************************************************************************)
(* Every dependency lets exceptions through.                               *)
(***************************************************************************)
NothingSwallowed == \A t \in Tasks : \A i \in DOMAIN Deps[t] : Deps[t][i] # "swallow"

-----------------------------------------------------------------------------
(***************************************************************************)
(* The worker keeps the promise of Attempt, whatever dependencies raise    *)
(* and the server cancels between the function and the answer (provided no *)
(* dependency swallows exceptions).                                        *)
(***************************************************************************)
WorkDone(c) ==
    CASE body[c] = "unstarted"                      -> "none"
      [] body[c] = "running"                        -> "begun"
      [] body[c] = "returned" /\ exc[c] = "none"    -> "complete"
      [] body[c] \notin {"unstarted", "running"} /\ exc[c] \in CallsOff -> "declined"
      [] OTHER                                      -> "failed"

Attempts == INSTANCE Attempt WITH
    Slots  <- Contexts,
    phase  <- [c \in Contexts |-> IF pc[c] \in {"idle", "answered"} THEN pc[c] ELSE "serving"],
    work   <- [c \in Contexts |-> WorkDone(c)]

KeepsAttemptPromise == Attempts!Spec

-----------------------------------------------------------------------------
(***************************************************************************)
(* Every request is answered, provided its task function ends.             *)
(***************************************************************************)
EveryRequestAnswered ==
    \A c \in Contexts : pc[c] = "received" ~> Done(c)
=============================================================================
