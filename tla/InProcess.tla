------------------------------ MODULE InProcess ------------------------------
(***************************************************************************)
(* Pushes that stay in the process: immediate runs, which nest, and remote *)
(* deliveries, which go on in the background.                              *)
(*                                                                         *)
(*   core.py      _run_immediate(_sync), _remote(_sync), _background_tasks *)
(*   context.py   current_task, task_context_scope                         *)
(*   external     asyncio and threading: context copies, loops that end,   *)
(*                tasks the loop refers to only weakly; httpx              *)
(*                                                                         *)
(* An activity is a coroutine of an event loop or a thread, where several  *)
(* clients may push, in either mode. Activities move in any order, also    *)
(* while a plain function keeps their loop busy.                           *)
(***************************************************************************)
EXTENDS Naturals, Sequences

CONSTANTS
    Activities, Root,   \* Root is there from the start, on the main loop
    Runs,               \* bound: the immediate runs there are at a time
    Deliveries,         \* bound: the remote pushes, each made once
    NoRun, Main, NoLoop,
    MaxEdits            \* bound: changes to the arguments of one task object

ASSUME InProcessAssumption ==
    /\ Root \in Activities
    /\ NoRun \notin Runs /\ Main \notin Runs /\ NoLoop \notin Runs \cup {Main}
    /\ MaxEdits \in Nat

VARIABLES
    status,     \* of each activity: unused, active, ended
    loop,       \* the loop it runs on: Main, a run that asyncio.run made one for, NoLoop in a thread
    current,    \* its ContextVar _current, named by its run
    frames,     \* the scopes it is in: the run, the token, whether asyncio.run runs it
    base,       \* (history) the context the activity began with
    args,       \* the arguments each remote task object holds now, as a version
    payload,    \* the body each delivery encoded
    timed,      \* whether task.timeout is set; _send reads it
    delivery,   \* unpushed, scheduled, sending, done, freed, lost
    posted,     \* (history) the bodies that were POSTed
    home,       \* the loop of the delivery's coroutine, NoLoop for a daemon thread
    held,       \* _background_tasks
    closed,     \* (history) loops that ended
    exited      \* the process ended

runVars == <<status, loop, current, frames, base>>
deliveryVars == <<args, payload, timed, delivery, posted, home, held>>
vars == <<runVars, deliveryVars, closed, exited>>

Loops == Runs \cup {Main, NoLoop}
Frames == [run : Runs, token : Runs \cup {NoRun}, own : BOOLEAN]

TypeOK ==
    /\ status \in [Activities -> {"unused", "active", "ended"}]
    /\ loop \in [Activities -> Loops]
    /\ current \in [Activities -> Runs \cup {NoRun}]
    /\ frames \in [Activities -> Seq(Frames)]
    /\ base \in [Activities -> Runs \cup {NoRun}]
    /\ args \in [Deliveries -> 0..MaxEdits]
    /\ payload \in [Deliveries -> 0..MaxEdits]
    /\ timed \in [Deliveries -> BOOLEAN]
    /\ delivery \in [Deliveries -> {"unpushed", "scheduled", "sending", "done", "freed", "lost"}]
    /\ posted \in [Deliveries -> SUBSET (0..MaxEdits)]
    /\ home \in [Deliveries -> Loops]
    /\ held \subseteq Deliveries
    /\ closed \subseteq Runs /\ exited \in BOOLEAN

Init ==
    /\ status = [a \in Activities |-> IF a = Root THEN "active" ELSE "unused"]
    /\ loop = [a \in Activities |-> IF a = Root THEN Main ELSE NoLoop]
    /\ current = [a \in Activities |-> NoRun]
    /\ frames = [a \in Activities |-> <<>>]
    /\ base = [a \in Activities |-> NoRun]
    /\ args = [d \in Deliveries |-> 0] /\ payload = args
    /\ timed \in [Deliveries -> BOOLEAN]
    /\ delivery = [d \in Deliveries |-> "unpushed"]
    /\ posted = [d \in Deliveries |-> {}]
    /\ home = [d \in Deliveries |-> NoLoop]
    /\ held = {} /\ closed = {} /\ exited = FALSE

Runnable(a) == ~exited /\ status[a] = "active"
InFrame(a) == frames[a] # <<>>
Top(a) == frames[a][Len(frames[a])]

\* The loop that runs on the activity's thread, for _loop_is_running; only a thread has own ones.
LoopOf(a) ==
    LET own == {i \in DOMAIN frames[a] : frames[a][i].own} IN
    IF own = {} THEN loop[a] ELSE frames[a][CHOOSE i \in own : TRUE].run

-----------------------------------------------------------------------------
(***************************************************************************)
(* Immediate mode                                                          *)
(***************************************************************************)

\* push(), or sync_push() of a plain function, runs the task in place; sync_push() of a
\* coroutine function gives it a loop of its own, and raises RuntimeError if one runs.
PushImmediate(a, r, own) ==
    /\ Runnable(a)
    /\ \A b \in Activities : r # base[b] /\ \A i \in DOMAIN frames[b] : r # frames[b][i].run
    /\ r \notin closed
    /\ own => LoopOf(a) = NoLoop
    /\ current' = [current EXCEPT ![a] = r]
    /\ frames' = [frames EXCEPT ![a] =
                     Append(@, [run |-> r, token |-> current[a], own |-> own])]
    /\ UNCHANGED <<status, loop, base, deliveryVars, closed, exited>>

\* Mutant: the scope is not left when the task raises.
ResetOnReturn(a, how) == IF how = "error" THEN current[a] ELSE Top(a).token

\* Mutant: the scope is reset to itself, not to its token.
ResetToScope(a, how) == Top(a)

\* _current.reset(token), however the task ended.
Reset(a, how) == Top(a).token

\* (external) When asyncio.run ends it cancels what is left on its loop l.
Cancelled(l) == {d \in Deliveries : home[d] = l /\ delivery[d] \in {"scheduled", "sending"}}

\* The innermost task ends: it returns, raises TaskAbort (logged), or another exception (raised
\* by the push in the pusher, which goes on or ends in turn).
Finish(a, how) ==
    LET f == Top(a)
        left == {b \in Activities : f.own /\ loop[b] = f.run /\ status[b] = "active"}
        cancelled == IF f.own THEN Cancelled(f.run) ELSE {}
    IN  /\ Runnable(a) /\ InFrame(a)
        /\ current' = [b \in Activities |->
              CASE b = a -> Reset(a, how) [] b \in left -> base[b] [] OTHER -> current[b]]
        /\ frames' = [b \in Activities |->
              CASE b = a -> SubSeq(frames[a], 1, Len(frames[a]) - 1)
                [] b \in left -> <<>>
                [] OTHER -> frames[b]]
        /\ status' = [b \in Activities |-> IF b \in left THEN "ended" ELSE status[b]]
        /\ delivery' = [d \in Deliveries |-> IF d \in cancelled THEN "lost" ELSE delivery[d]]
        /\ held' = {d \in held : ~f.own \/ home[d] # f.run}
        /\ closed' = IF f.own THEN closed \cup {f.run} ELSE closed
        /\ UNCHANGED <<loop, base, args, payload, timed, posted, home, exited>>

\* (external) A task of the loop starts with a copy of its creator's context, a thread with none.
Spawn(a, b, thread) ==
    /\ Runnable(a) /\ status[b] = "unused"
    /\ thread \/ LoopOf(a) # NoLoop
    /\ status' = [status EXCEPT ![b] = "active"]
    /\ loop' = [loop EXCEPT ![b] = IF thread THEN NoLoop ELSE LoopOf(a)]
    /\ base' = [base EXCEPT ![b] = IF thread THEN NoRun ELSE current[a]]
    /\ current' = [current EXCEPT ![b] = base'[b]]
    /\ UNCHANGED <<frames, deliveryVars, closed, exited>>

End(a) ==
    /\ Runnable(a) /\ ~InFrame(a)
    /\ status' = [status EXCEPT ![a] = "ended"]
    /\ UNCHANGED <<loop, current, frames, base, deliveryVars, closed, exited>>

-----------------------------------------------------------------------------
(***************************************************************************)
(* Remote mode                                                             *)
(***************************************************************************)

\* Mutant: the loop's weak reference is the only one.
HoldNothing(d) == held

\* _background_tasks.add
Hold(d) == held \cup {d}

\* push() (needs the loop) or sync_push(): the body is encoded now and sent in the background.
PushRemote(a, d, sync) ==
    /\ Runnable(a) /\ delivery[d] = "unpushed"
    /\ sync \/ LoopOf(a) # NoLoop
    /\ payload' = [payload EXCEPT ![d] = args[d]]
    /\ delivery' = [delivery EXCEPT ![d] = "scheduled"]
    /\ home' = [home EXCEPT ![d] = IF sync THEN NoLoop ELSE LoopOf(a)]
    /\ held' = IF sync THEN held ELSE Hold(d)
    /\ UNCHANGED <<runVars, args, timed, posted, closed, exited>>

\* The application changes an argument it passed.
Edit(d) ==
    /\ ~exited /\ args[d] < MaxEdits
    /\ args' = [args EXCEPT ![d] = @ + 1]
    /\ UNCHANGED <<runVars, payload, timed, delivery, posted, home, held, closed, exited>>

\* task.timeout = ..., until the post has read it.
SetTimeout(d) ==
    /\ ~exited /\ delivery[d] \in {"unpushed", "scheduled"}
    /\ timed' = [timed EXCEPT ![d] = ~@]
    /\ UNCHANGED <<runVars, args, payload, delivery, posted, home, held, closed, exited>>

\* Mutant: _send encodes the body.
BodyAtSend(d) == args[d]

Body(d) == payload[d]

\* _send posts.
Send(d) ==
    /\ ~exited /\ delivery[d] = "scheduled"
    /\ delivery' = [delivery EXCEPT ![d] = "sending"]
    /\ posted' = [posted EXCEPT ![d] = @ \cup {Body(d)}]
    /\ UNCHANGED <<runVars, args, payload, timed, home, held, closed, exited>>

\* The POST is answered, fails or times out: errors are logged.
Delivered(d) ==
    /\ ~exited /\ delivery[d] = "sending"
    /\ delivery' = [delivery EXCEPT ![d] = "done"]
    /\ UNCHANGED <<runVars, args, payload, timed, posted, home, held, closed, exited>>

\* Mutant: the done callback does nothing.
DiscardNothing(d) ==
    /\ ~exited /\ d \in held /\ delivery[d] \in {"done", "lost"}
    /\ UNCHANGED vars

\* The done callback, in a later turn of the loop.
Discard(d) ==
    /\ ~exited /\ d \in held /\ delivery[d] \in {"done", "lost"}
    /\ held' = held \ {d}
    /\ UNCHANGED <<runVars, args, payload, timed, delivery, posted, home, closed, exited>>

\* (external) The garbage collector takes a coroutine that nothing refers to, finished or not.
Collect(d) ==
    /\ ~exited /\ home[d] # NoLoop /\ d \notin held
    /\ delivery[d] \in {"scheduled", "sending", "done"}
    /\ delivery' = [delivery EXCEPT ![d] = IF @ = "done" THEN "freed" ELSE "lost"]
    /\ UNCHANGED <<runVars, args, payload, timed, posted, home, held, closed, exited>>

\* The process ends, and with it its loops and daemon threads.
Exit ==
    /\ ~exited
    /\ exited' = TRUE
    /\ delivery' = [d \in Deliveries |->
                      IF delivery[d] \in {"scheduled", "sending"} THEN "lost" ELSE delivery[d]]
    /\ held' = {}
    /\ UNCHANGED <<runVars, args, payload, timed, posted, home, closed>>

Next ==
    \/ \E a \in Activities, r \in Runs, own \in BOOLEAN : PushImmediate(a, r, own)
    \/ \E a \in Activities, how \in {"return", "abort", "error"} : Finish(a, how)
    \/ \E a, b \in Activities, thread \in BOOLEAN : Spawn(a, b, thread)
    \/ \E a \in Activities : End(a)
    \/ \E a \in Activities, d \in Deliveries, sync \in BOOLEAN : PushRemote(a, d, sync)
    \/ \E d \in Deliveries : \/ Edit(d) \/ SetTimeout(d)
                             \/ Send(d) \/ Delivered(d) \/ Discard(d) \/ Collect(d)
    \/ Exit

Spec == Init /\ [][Next]_vars

(***************************************************************************)
(* Loops and threads run what is ready, and a POST with a timeout ends. A  *)
(* task without one (the default) posts with timeout=None: nothing is owed.*)
(***************************************************************************)
FairSpec ==
    /\ Spec
    /\ \A d \in Deliveries : /\ WF_vars(Send(d))
                             /\ WF_vars(timed[d] /\ Delivered(d))
                             /\ WF_vars(Discard(d))

-----------------------------------------------------------------------------
(***************************************************************************)
(* Properties                                                              *)
(***************************************************************************)

(***************************************************************************)
(* current_task() is the innermost task its activity runs; outside of one  *)
(* it is what the activity inherited, even after the task it inherited     *)
(* from ended, and nothing in a thread (task_context_scope under nesting,  *)
(* exceptions and cancellation).                                           *)
(***************************************************************************)
ContextOfRun ==
    \A a \in Activities : current[a] = IF InFrame(a) THEN Top(a).run ELSE base[a]

(***************************************************************************)
(* A delivery is lost only with the process or with the loop it was pushed *)
(* on: never to the garbage collector, and a thread's never to a loop      *)
(* (_background_tasks).                                                    *)
(***************************************************************************)
LostOnlyWithLoop ==
    \A d \in Deliveries : delivery[d] = "lost" => exited \/ home[d] \in closed

(***************************************************************************)
(* What is POSTed is the task as it was when it was pushed, whatever the   *)
(* application does to its arguments before the delivery (_encode_body in  *)
(* the push, not in _send).                                                *)
(***************************************************************************)
DeliveredAsPushed == \A d \in Deliveries : posted[d] \subseteq {payload[d]}

(***************************************************************************)
(* A delivery comes to its end, and then nothing holds it, unless its task *)
(* had no timeout at the moment it was posted, whatever it had at the push *)
(* (then it may wait for the worker for ever).                             *)
(***************************************************************************)
EveryDeliveryEnds ==
    \A d \in Deliveries :
        delivery[d] = "scheduled"
          ~> \/ delivery[d] \in {"done", "freed", "lost"} /\ d \notin held
             \/ delivery[d] = "sending" /\ ~timed[d]
=============================================================================
