# cloudtask in TLA+

A verification development of `py-cloud-task`: TLA+ modules translated from the Python source, TLC runs on
small instances, and theorems about every instance, checked by TLAPS. `PROJECT.json` maps each definition to the
lines it models and lists runs, mutants, findings, hazards and theorems.

## The system

cloudtask turns a decorated function into a task. A *producer* calls `task.push()`, which creates an HTTP task in
Google Cloud Tasks; Cloud Tasks POSTs it to a *worker* (the same application, usually), and tries again until the
answer is 2xx. Instead of sending, a client can run pushes in process (`immediate`), POST them itself (`remote`)
or list them (`record`), for development and tests.

| Component | Source | State | Operations | Hard behaviour | What makes it correct |
|---|---|---|---|---|---|
| Router | `ext/fastapi.py` `CloudTaskRouter` | none of its own | `_run_task` | every exception of the run becomes an answer that drops or retries the task | the answer agrees with the work done; the secret comes first |
| FastAPI executor | `ext/fastapi.py` | `_dependants` (shared cache), an exit stack and two scope keys per run | `_prepare_execution`, `_execute_impl`, `_task_exit_stack` | dependencies open and close around the function, raise, swallow, get cancelled; requests interleave | teardown sees the task's exception; the scope is put back; the cache never changes |
| Executor | `executor.py` | none | `run`, `sync_run`, `_prepare_execution`, `_call` | order of checks, wrapping of exceptions, running async tasks from sync code | the task's decision survives; foreign errors never look like control flow |
| Authentication | `auth.py` | the secret, copied once | `authenticate` | header names in three spellings, stale copy | no run without the secret |
| Task context | `context.py` | a `ContextVar` | `task_context_scope`, `current_task` | nesting, inheritance by child tasks, reset after failures | a task sees its own request |
| Validation | `validation.py` | lazily resolved annotations, adapters | `validate` | annotations that do not resolve | unfit arguments are rejected, not retried |
| Pushing | `core.py` `Task.push`, `sync_push` | the task's options | checks, request, `create_task`, errors | the mode is read three times; ambiguous failures; names kept by the queue | a path is returned only for a task in the queue |
| Record mode | `core.py` `_record`, `testing.py` | `client.eager`, `client.pushed` | `_record`, `recorder()` | check-then-append, blocks that nest or overlap, threads | recordings match production, stay in their block, are put back |
| Immediate mode | `core.py` | the context of the pusher | `_run_immediate(_sync)` | nested pushes, event loop running | as a first attempt |
| Remote mode | `core.py` | `_background_tasks`, threads | `_remote(_sync)` | delivery after the push returned, the ends of loops and of the process, weak references | what was pushed is POSTed, and lost only with its loop or the process |
| Names | `core.py` | none | `validate_task_name`, `_render_task_name` | rendered by the producer and again by the worker | a push and its run agree |
| Registry | `core.py` | `client.registry` | `_register`, `get_task`, `autodiscover`, `task` | late registration, redefinition | unknown paths never run |
| Headers | `core.py`, `auth.py`, `context.py` | `task.headers` | `_build_headers`, `normalize_headers`, `from_headers` | precedence, reserved names, hidden names, spellings | the secret arrives and is never shown; the highest layer wins |
| Clients | `core.py` | `_sync_client`, `_async_client`, `_authenticator` | lazy properties | threads, mode switches | one client of each kind |
| Encoder | `encoder.py` | none | `default` | unsupported values | round trip to JSON form |

Interactions: the producer and the worker meet only through the queue (an HTTP request, a JSON body, headers) and
through shared configuration; requests of one worker share the registry and the dependency cache; pushes and
`recorder()` blocks share two attributes of the client.

## Modules

| Module | What it is |
|---|---|
| `Attempt` | abstract: what a worker promises of one attempt, its answer against the work it did |
| `Worker` | the worker side, one request from body to answer, in any number of contexts; implements `Attempt` |
| `WorkerProofs` | theorems about `Worker` |
| `AtLeastOnce` | abstract: what a caller of `push()` may rely on, end to end |
| `Delivery` | pushes, the queue, the network and workers built from `Attempt`'s actions; implements `AtLeastOnce` |
| `Recorder` | one client's mode and recordings, pushers and `recorder()` blocks, coroutines or threads |
| `Deployment` | extends `Delivery` with two revisions of the application, in traffic at the same time |
| `Headers` | the headers of one push, from the layers to the context of the task |
| `InProcess` | immediate runs, nested and inherited contexts, background deliveries of remote mode |
| `DeliveryProofs`, `DeploymentProofs`, `RecorderProofs`, `HeadersProofs`, `InProcessProofs` | theorems about those modules |
| `MCWorker`, `MCDelivery`, `MCRecorder`, `MCDeployment`, `MCHeaders`, `MCInProcess` | constants of the small instances |

`Worker` implements `Attempt`, and `Delivery` uses the steps of `Attempt` as its workers: what the second shows
rests on the worker's promise alone.

### Worker

A request of context `c` goes through `pc[c]`: `received` (the router awaits the body), then `Refuse` or `Admit`
(authentication and `_prepare_execution`, one synchronous piece), `solving` (one step for each dependency that
FastAPI opens, `_task_exit_stack` around them), `calling` (the factory and `execute()`), `running` (the function),
`closing` (the exit stack, one step per dependency, each given the exception in flight), and `answered` (`Respond`:
wrapping, reset of the context, the answer of `_run_task`). `Cancel` is the server cancelling the handler at an
await of any of these. `Register` adds a task while requests are served.

The data is reduced to what the code distinguishes: a task has one data parameter, and a request fits it, binds
too much, too little, or has the wrong type; a parameter that the payload lacks may be in the query string, where
`solve_dependencies` finds it (`FromRequest`, `Unmet`); a dependency does not yield, lets exceptions through, swallows
them, or raises whatever it likes in its teardown, `TaskAbort` and `InvalidTaskPayload` included; a name renders from JSON arguments or not. `body`, `origin` and `seen` are history:
what the function did, who raised, what the dependencies were given at their close. `sync_run` is the same machine
without dependencies; its caller is assumed to answer as the router does. A sync function
runs on the event loop itself, without an await, so it cannot be cancelled midway; the model lets other contexts
move meanwhile, which the threads of `sync_run` do.

Toward `Attempt` the work of a request is none, begun, complete, declined or failed (`WorkDone`): declined once the
exception in flight is one that calls the task off, by the function or by a teardown. `Attempt` allows a success for
complete work only, and `aborted` or `rejected` for no work or declined work only.

Dependencies are external: they raise any exception of the library or another one. A request parameter that a
*dependency* declares and the request lacks is modelled as that dependency raising.

### Recorder

Every access to `client.eager` and `client.pushed` is a step of its own: push reads the mode (`Begin`), then
`queue_path` (`Build`) and `service` (`CallService`) read it again; `_record` takes the list, searches it and
appends (`ReadList`, `Check`, `Record`); `recorder()` saves, switches, replaces, yields, and restores in two steps
(`Enter` to `Restore`). `create_task` may fail for any other reason than a taken name, whatever became of the request
(`Reply`). `MayRun` is the scheduling: threads run at any time, coroutines only while no other
coroutine is between two awaits. `Nested` says whether blocks nest, as one test's fixtures do.

### Delivery

`Push` sends `create_task`; the request may arrive at any later time, or never, and the call may fail whatever
became of it (`Fail`). Cloud Tasks is external: it refuses names of tasks it holds or held recently, dispatches,
gives up an attempt at the deadline while the worker carries on, listens only to the attempt it waits for, and
retries up to `MaxAttempts`. Workers take the steps of `Attempt` (`Dispatch`, `Proceed`, `Answer`, `Crash`).
Refinement mapping: a push is *queued* once its task was created, *awaited* is what the attempt came to that the queue
waits for, its *fate* is the queue's verdict, and *promised* are the pushes that returned a path. `AtLeastOnce` closes
a task as done only if the awaited attempt is complete, as declined only if it did not begin or was called off, and as
exhausted only after the last attempt, so neither a crash nor a late answer of another attempt can end a task otherwise. `push(at=...)` only delays a
dispatch, which may be late anyway.

### Deployment

Each action of `Deployment` is one of `Delivery` with a further condition, as a deployment allows fewer things than
a worker in general: a push comes from a live revision that has the function (`DPush`), a dispatch goes to a live one
(`DDispatch`; instances without traffic finish what they have), a task that is not registered or whose arguments do
not fit never starts (`DProceed`; nor does a function call its task off here), and the answer is one of `Verdicts`: 404 or `rejected` for an unknown path, `rejected` (too much) or 500 (one argument
missing, see below the findings) for arguments of the other signature, anything else otherwise. A deployment starts the new
revision, stops the old, or is rolled back. `decided` is history: the slot whose answer ended the task.

A task can still use up its attempts on instances without its code: 404 counts as an attempt. That is the queue's
configuration, and the property leaves `exhausted` aside. It also admits that a task is rejected by an instance
whose function has another signature: the documentation promises nothing of that.

### Headers

A name is a word with its separator (dashes or underscores), its case and the number of prefixes `http-`, so
`replace`, `lower` and `removeprefix` change one field each; a value is the layer that set it. Secrets are values of
their own, since no other header is assumed to repeat one (`HeadersAssumption`). `Push` merges the layers
(`MergeHeaders`: of each name the header at the last place, a place being a layer and a position in it), refuses
reserved names (`Reserved`) and merges the library's over them. The request goes through Cloud Tasks (`Forwarded`) and a gateway (`Spelled`), both external, to
`NormalizeHeaders`, `Authentic` and `Visible`. `secret` may be assigned at any time, and `authenticator` holds the
copy. `secretName` is any configured `secret_header_name`; `Plain` ones have dashes and no prefix `http-`, and are
looked for, and hidden, under the name they are sent by. `EagerContext` is what an immediate run would show of the
headers a push built. A provider that raises is one that returns nothing. `Stray` is a header named `http-...`, which
`normalize_headers` takes for the WSGI spelling of another: two headers may fall together there, either may be the
later one, and the properties make an exception of them.

### InProcess

Activities are coroutines of a loop or threads; each has its context variable, its stack of scopes with their tokens,
and the loop that it runs on. A loop is the main one or that of an immediate run that `asyncio.run` executes, and when
that run ends its loop cancels the coroutines and deliveries left on it (`Finish`). A plain function keeps
the loop busy while it runs; the model lets other coroutines move, which threads do. How a run ends makes
no difference to its scope: `how` is there for the mutant. Contexts are copied by `create_task` and empty in a
new thread, as the interpreter's default build has it. A delivery is encoded in the push, posted later (`Send`),
released by the done callback (`Discard`), and collected when nothing holds it (`Collect`). The application may
change the arguments at any time (`Edit`), and `task.timeout`, which counts as it is when `_send` posts
(`SetTimeout`).

## Runs

| Run | Question | Result |
|---|---|---|
| `worker_one` | one context, every request, tasks with two yield dependencies (one may fail), none, a non-yielding one, and unresolvable annotations; URL suffix on, asgiref absent | holds, and liveness |
| `worker_two` | two interleaved contexts, async entry, 404 for unknown tasks | holds |
| `recorder` | two coroutines with two pushes each, two nested blocks, all initial modes | holds |
| `delivery` | two pushes that may share a name, two slots, two attempts | `AtLeastOnce` implemented |
| `deployment` | two pushes of kept, added, removed or changed tasks, an instance of each revision, fairness | only an instance that has the code decides; every created task is settled |
| `headers` | four layers in several spellings, secret names with and without underscores, two secrets, two gateways, OIDC | holds |
| `inprocess` | a root coroutine and two other activities, two runs, a delivery, fairness | holds, and liveness |
| `worker_swallow` | `success` means that the function returned | violated, see findings |
| `worker_teardown` | a task whose function returned is answered neither `aborted` nor `rejected` | violated |
| `worker_renamed` | an admitted, fitting payload runs | violated |
| `recorder_overlap` | blocks that overlap restore the client | violated |
| `headers_shown` | an immediate run never shows the secret, under every `secret_header_name` | violated |

**Bounds.** `worker_one` is exhaustive over requests (`EveryRequest`: all fields, malformed bodies once) with stacks
of two, the least at which an exception passes through one teardown into another, and any number of requests one
after another, so leftovers of one meet the next. `worker_two` needs two contexts because the shared state (registry,
cache) is only read and filled, each time by one of them. Recorder: the check-then-append and the saved values
involve two parties; two blocks give both nesting and overlap, and `PushBound = 2` puts a push in each of two
lists. Delivery: two pushes for a shared name, two slots for concurrent attempts at one task, two attempts for one
retry; `Answers` keeps one acknowledgement of success, one of a decision and one error, since the queue treats the
others alike. `deployment` has one instance of each revision, so a task is refused by one and run by the other within its
two attempts, and two pushes that contend for a slot; of two pushes, `EveryMix` leaves out the mirror images, which is
sound because pushes are interchangeable. It leaves out what `Delivery` covers and workers do not see: names, calls
that return, fail or get lost. `headers`: one push, since a push reads nothing of earlier ones; two assignments to
`task.headers`; one secret name with dashes and one with an underscore; five names, of which three fall together in some spelling, one is the secret's and one is reserved.
`inprocess`: two runs nest or belong to a parent and a child; three activities put one on the main loop, one in a
thread and one on the loop that the thread makes; deliveries do not read each other, so one is enough.
Symmetry is used for contexts, pushes, slots and secrets in runs that check no liveness; the
constants distinguish none of them.

**Fairness.** `Worker!FairSpec`: weak fairness of the steps the program itself takes; the event loop and threads run
what is ready, and `Finish` is among them (a task function ends, or is cancelled). `Receive`, `Register` and
`Cancel` are never owed. `Deployment!DFairSpec`: weak fairness of dispatch, which Cloud Tasks does, and of the worker's
answer, which `EveryRequestAnswered` of `Worker` justifies. Nothing is assumed of the network, the callers, the
deployment or crashes; attempts are bounded, so crashes cannot go on for ever.
`InProcess!FairSpec`: loops and threads run what is ready, and a POST ends if its task has a timeout; without one, which
is the default, httpx waits for ever and nothing is assumed. Deadlock is checked in the `Worker` runs;
the other systems stop when all pushes are made or the process has ended, and their configurations say so.

**Mutants.** Each property of a passing run has a mutated definition in its module (`\* Mutant:`), a plausible bug
of that code, under which TLC finds it violated. `KeepsPromise` has three: a timeout taken for a success, an answer
that settles the task whichever attempt gave it, and a crash that drops the task.

## Findings

1. *Swallowed failures* (`worker_swallow`): the task is called inside the `async with AsyncExitStack()` that holds
   its dependencies, so one that catches the exception without raising it again ends the run normally, and the
   router answers `success`. The trace shows a rejected argument swallowed.
2. *Dropped complete work* (`worker_teardown`): the handlers of `_execute_impl` stand around the exit stack, so a
   `TaskAbort` or `InvalidTaskPayload` of a teardown, after the function returned, is answered `aborted` or `rejected`.
3. *Names rendered again* (`worker_renamed`): the worker builds the task through the decorated factory, which
   renders the name from JSON arguments, and a name that needs the Python value raises there on every attempt.
4. *Overlapping recorders* (`recorder_overlap`): the second block saves the first one's mode and restores it last.
5. *The secret in an immediate run* (`headers_shown`): the producer turns `_` in names into `-`, and `_eager_context`
   hides the configured name as it is. With `X_SECRET` the header is `X-SECRET`, `x_secret` is hidden, and the task
   sees the secret. `SecretDecides` shows the same disagreement in the worker: it looks for `x_secret`, which no
   request has, and refuses every request that needs the secret.

Without swallowing dependencies the first does not occur, under nested blocks the fourth does not, with dashes the
fifth does not: that is what `worker_one`, `recorder`, `headers` and the theorems show. Of the second
`DroppedByDecision` shows how far it goes: only those two exceptions, raised by the function or a teardown, drop a
task that began.

Two more consequences of the code are modelled but contradict no promise of the documentation. `bind_partial` accepts
a payload that lacks a required argument; only where FastAPI solves dependencies is it looked for again, and otherwise
the call raises `TypeError`, which is 500 and retried, not `rejected`. And record mode has no lock: threads that push
one name together may record it twice, and one that enters `recorder()` between the reads of another's push makes that
push call `create_task` on `None`. `recorder` and the theorems named below exclude both for coroutines.

## Proofs

Every invariant and every action property that a passing run checks is also a theorem, for all values of the
constants. The assumptions on constants (`WorkerAssumption`, `DeliveryAssumption`, ...) only type them, but for the
secrets of `Headers` (above); whatever else a theorem needs is a hypothesis that it states. Each inductive invariant
was an invariant of the component's run before it was proved.

### WorkerProofs: any contexts, tasks, dependencies (of any number) and requests

- `TypeCorrect`, type correctness.
- `StagesCorrect`, the inductive invariant. None of the safety properties is inductive alone: that the context is
  the request's own needs to know at which stages a context is set; that `403` is all an unauthenticated request
  gets needs that no later stage is reached without the secret; that a dropped task was called off on purpose needs
  that such an exception in flight, once the function began, is its own or a teardown's; that a decision survives needs that the
  exception in flight is the function's as long as nobody else raised. `Stages` says these things of one context and
  `Stage` joins them with the properties; a step of one context leaves the stages of the others alone
  (`OtherStages`), so each action is checked at its own context (`OwnStage`). From it: `SecretGuardsEverything`,
  `ContextNeverLeaks`, `ScopeIsPutBack`, `DroppedOnPurpose`, `DecisionsAreKept`.
- `MissingNeverRuns`: a task with dependencies never runs without an argument that neither the payload nor the request
  has, and is answered `rejected` unless something else failed it first. The cached analysis is shared by all
  requests, and the invariant says that every entry of it stays complete (`AnalysesComplete`, `MissingStage`).
- `AnalysisNeverChanges`, an action property.
- `SuccessIsEarned` and `FailureIsSeen`, by a second invariant (`TeardownStage`): while the stack closes, no exception
  in flight means that the function returned and nothing but success was seen. Finding 1 breaks both, so they
  assume `NothingSwallowed`: no dependency swallows exceptions. The run `worker_swallow` shows that the assumption
  is needed.
- `WorkerKeepsPromise`, the refinement of `Attempt`, under the same assumption: every step is `Take`, `Start`,
  `Complete`, `Decline`, `Break` or `Reply` of its own slot, or a stutter, and what a teardown raises moves the work on
  as `Attempt` allows (`Closing`).

### DeliveryProofs and DeploymentProofs: any pushes, names, slots and attempts

- `QueueCorrect`, the inductive invariant `DeliveryInv`. `TypeOK` is not inductive: a late answer retries or settles
  the task that its slot serves, so there must be one (`SlotHasTask`). A name is held by, or reserved for, a task that
  was created (`NameHasTask`), which is why a push refused with `ALREADY_EXISTS` implies an earlier push of its name.
  A running task has one attempt that the queue waits for, by a slot at work on it (`OneAwaited`): so a late answer of
  another attempt moves nothing.
- `TypeCorrect`, and `DeliveryKeepsPromise`: each step, the network's and the crashes included, is a step of
  `AtLeastOnce` or a stutter. A step that ends the wait for an attempt is `Retry` or `Close` (`SettleSeen`), one of a slot
  is `Progress` if the queue waits for it (`ProgressSeen`).
- `DeploymentKeepsPromise` and `DeploymentTypeCorrect` carry them over, each step of `Deployment` being one of `Delivery`.
- `DeploymentLosesNothing`, with `retry_unknown_tasks`, the hypothesis; without it an unknown path is `rejected`, as
  the option's documentation says.

### InProcessProofs: any activities, runs and deliveries

- `ContextCorrect`, the inductive invariant behind `ContextIsInnermost`: the token of each scope restores what the scope
  beneath it set, the lowest what the activity began with, and a loop of `asyncio.run` belongs to a thread, so
  that its end never cancels the activity that called it.
- `DeliveriesCorrect`, behind `NothingCollectedEarly` and `PostedAsPushed`: a delivery under way on a loop is in
  `_background_tasks` until it ends, and only its own payload was ever posted.
- `TypeCorrect`.

### RecorderProofs: any pushers, blocks and numbers of pushes

- `TypeCorrect` and `RecordModeIsFaithful`, for coroutines and threads alike. The second needs that the push passed
  the checks of `_record` by the time it appends (`RecordingInv`).
- `NestedBlocksRestore`, under `Nested`, for threads too. The blocks open form a chain (`BlockInv`): each saved the list
  and the mode of the one beneath it, at most one is half-way into its entry or its exit, and the client has
  what the innermost yields. Finding 4 is what happens otherwise.
- `PathsStayUnique` and `PushesFailOnTheirOwn`, under `Threads = {}`. `_record` has no await between its search and its
  append, so for coroutines what a push found still holds when it goes on (`PushInv`), and the number
  of a recording is its place in the list (`Numbered`). Both fail with threads.
- `RecordedWherePushed` and `FrozenWhenLeft`, under both hypotheses (`OwnInv`): a push that records does so in the
  list that was innermost when it began.

### HeadersProofs: any names, secrets, layers and assignments

- Lemmas say what the operators compute: `MergedIs`, `MergedCovers` and `MergedOnce` (each name once, with the header of
  the last place), `BuiltIs` and `BuiltSecret` (what a push sends), `NormalizedIs` (what the worker finds), `SpelledBack`
  (the spelling of a gateway is undone) and `StrippedOnce`. That a last place exists is well-foundedness of `<` (`Greatest`).
- `HeadersInv`, the inductive invariant: the layers of the push are well formed, what was sent is what was built from
  them with no reserved name, and the answer is the one that a gateway's form of the request calls for.
- `TypeCorrect`, `EagerRunIsAlike`, `HighestLayerWins` and `CredentialsHidden` under every configuration; the last
  shows the secret hidden for a plain `secret_header_name`, finding 5 being about the others.
- `SecretIsDecisive` and `CountIsGenuine`, under `DistinctSecretNames`: a `secret_header_name` is not `Content-Type`,
  `Authorization` or the retry count, since the library's headers would take each other's place. Of names that
  are not plain the first says that the worker finds no secret under them.

### Not proved

The liveness properties `EveryRequestAnswered` (`Worker`), `EveryTaskSettled` (`Deployment`) and `EveryDeliveryEnds`
(`InProcess`): fairness is a matter of `ENABLED`, which the prover does not support. They stay model-checked.

## Not modelled

The encoder and pydantic's conversions (pure; their refusals are), logging, OpenAPI, the parsing of numbers and times in
Cloud Tasks headers, packaging and CI. The rendering and the regular expression of names (strings; that they
may fail is modelled). `schedule_time` and timezones: a delay of the dispatch, which may be late anyway. The Google
clients that `service` and `sync_service` cache: two threads may make two, and both work. `autodiscover` and
redefinition under one path in one process. Request parameters of sub-dependencies, whose errors are a dependency
that raises. `PROJECT.json` lists under hazards what each of them leaves open.

## Plan

Done: all the modules above and their proofs.

Next: the hazards in `PROJECT.json` that no property covers, of which provider errors against reserved headers and the collision of a task named `recorded-N` with a generated path are within reach
of the present modules; the registry (`_register`, redefinition) as a part of `Deployment`.
