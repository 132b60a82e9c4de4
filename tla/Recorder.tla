------------------------------ MODULE Recorder ------------------------------
(***************************************************************************)
(* One CloudTaskClient shared by the code that pushes and by recorder()    *)
(* blocks that switch it to record mode for a while.                       *)
(*                                                                         *)
(*   core.py     Task.push, Task.sync_push, _record, queue_path, service   *)
(*   testing.py  recorder                                                  *)
(*                                                                         *)
(* client.eager and client.pushed are plain attributes. A process that is  *)
(* a thread may be preempted between any two accesses to them; coroutines  *)
(* share one event loop and switch at an await only, of which a push has   *)
(* one (create_task) and a block as many as its body.                      *)
(***************************************************************************)
EXTENDS Naturals, Sequences, FiniteSets

CONSTANTS
    Pushers,      \* the processes that push
    Blocks,       \* the executions of a recorder() block, each with a list of its own
    Threads,      \* the processes that are threads, the others are coroutines
    Pushes,       \* the pushes made
    Names,        \* task names (with their queue)
    NoName,
    ClientList,   \* the list of recordings the client was created with
    Nested,       \* blocks are nested: the last one entered is the first one left
    PushBound     \* bound: pushes by each pusher

(***************************************************************************)
(* What is wrong with a push, if anything: its name, a reserved header, an *)
(* argument JSON cannot encode (or the size), its timeout.                 *)
(***************************************************************************)
Faults == {"name", "header", "body", "timeout"}
Push == [name : Names \cup {NoName}, faults : SUBSET Faults, if_exists : {"ignore", "raise"}]

Modes == {"production", "immediate", "remote", "record"}   \* production: eager is None
Lists == Blocks \cup {ClientList}

ASSUME RecorderAssumption ==
    /\ Pushers \cap Blocks = {}
    /\ Threads \subseteq Pushers \cup Blocks
    /\ Pushes \subseteq Push
    /\ NoName \notin Names
    /\ ClientList \notin Blocks
    /\ Nested \in BOOLEAN
    /\ PushBound \in Nat

VARIABLES
    eager,     \* client.eager
    pushed,    \* client.pushed: which list it is
    lists,     \* the recordings of each list
    google,    \* (external) the names Cloud Tasks knows
    state,     \* where each process is
    saved,     \* previous_mode and previous_pushed of each block
    yielded,   \* the list a block got from its recorder
    open,      \* the blocks entered and not yet left, in order
    task,      \* the push of each pusher
    mode,      \* what the push read from client.eager
    parent,    \* the push read a queue path for its request
    into,      \* the list the push read from client.pushed
    number,    \* the N of recorded-N
    inside,    \* (history) the block the push began in, ClientList outside
    result,    \* what the last push of each pusher returned or raised
    count,     \* pushes begun
    first      \* (history) client.eager before any block

clientVars == <<eager, pushed, lists, google>>
pushVars == <<task, mode, parent, into, number, inside, result, count>>
blockVars == <<saved, yielded, open>>
vars == <<clientVars, state, pushVars, blockVars, first>>

Recording == [name : Names \cup {NoName}, number : Nat, inside : Lists]

States == {"idle", "building", "ready", "calling", "listing", "checking", "appending",
           "outside", "saved", "switched", "replaced", "inside", "leaving", "left"}

\* CloudTasksError: the TaskPushError whose cause is Cloud Tasks' own (or the network's).
Results == {"none", "created", "exists", "recorded", "ran", "sent", "ValueError",
            "TaskPushError", "TaskAlreadyExists", "CloudTasksError"}

TypeOK ==
    /\ eager \in Modes /\ first \in Modes
    /\ pushed \in Lists
    /\ lists \in [Lists -> Seq(Recording)]
    /\ google \subseteq Names
    /\ state \in [Pushers \cup Blocks -> States]
    /\ saved \in [Blocks -> [mode : Modes, list : Lists]]
    /\ yielded \in [Blocks -> Lists]
    /\ open \in Seq(Blocks)
    /\ task \in [Pushers -> Push]
    /\ mode \in [Pushers -> Modes]
    /\ parent \in [Pushers -> BOOLEAN]
    /\ into \in [Pushers -> Lists]
    /\ number \in [Pushers -> Nat]
    /\ inside \in [Pushers -> Lists]
    /\ result \in [Pushers -> Results]
    /\ count \in [Pushers -> 0..PushBound]

Init ==
    /\ eager \in Modes /\ first = eager
    /\ pushed = ClientList
    /\ lists = [l \in Lists |-> <<>>]
    /\ google = {}
    /\ state = [p \in Pushers \cup Blocks |-> IF p \in Pushers THEN "idle" ELSE "outside"]
    /\ saved = [b \in Blocks |-> [mode |-> eager, list |-> ClientList]]
    /\ yielded = [b \in Blocks |-> ClientList]
    /\ open = <<>>
    /\ task = [p \in Pushers |-> [name |-> NoName, faults |-> {}, if_exists |-> "ignore"]]
    /\ mode = [p \in Pushers |-> eager]
    /\ parent = [p \in Pushers |-> FALSE]
    /\ into = [p \in Pushers |-> ClientList]
    /\ number = [p \in Pushers |-> 0]
    /\ inside = [p \in Pushers |-> ClientList]
    /\ result = [p \in Pushers |-> "none"]
    /\ count = [p \in Pushers |-> 0]

-----------------------------------------------------------------------------
\* Mutant: a push that awaits between building its request and calling the service.
AtRestReady(p) == state[p] \in {"idle", "ready", "calling", "outside", "inside", "left"}

\* A process may be switched away from here: it waits, or awaits.
AtRest(p) == state[p] \in {"idle", "calling", "outside", "inside", "left"}

\* Threads run whenever they like, coroutines one at a time between awaits.
MayRun(p) == p \in Threads \/ \A q \in (Pushers \cup Blocks) \ (Threads \cup {p}) : AtRest(q)

Goto(p, s) == state' = [state EXCEPT ![p] = s]

\* The end of a push.
Return(p, r) ==
    /\ result' = [result EXCEPT ![p] = r]
    /\ Goto(p, "idle")

\* The exception of the first failing check of a list of them, "none" if all pass.
FirstFault(checks, t) ==
    LET failing == {i \in 1..Len(checks) : checks[i] \in t.faults}
        i == CHOOSE j \in failing : \A k \in failing : j <= k
    IN  IF failing = {} THEN "none"
        ELSE IF checks[i] = "body" THEN "TaskPushError" ELSE "ValueError"

\* push(): the name, then _build_task_request_payload.
ProductionFault(t) == FirstFault(<<"name", "header", "body", "timeout">>, t)

\* Mutant: record mode encodes nothing and leaves the body unchecked.
RecordFaultNoBody(t) == FirstFault(<<"name", "header", "timeout">>, t)

\* _record: the same checks, written out again.
RecordFault(t) == FirstFault(<<"name", "header", "body", "timeout">>, t)

\* immediate builds the headers of its context, remote headers and body.
EagerFault(m, t) ==
    FirstFault(IF m = "remote" THEN <<"header", "body">> ELSE <<"header">>, t)

\* _handle_already_exists
Exists(t) == IF t.if_exists = "raise" THEN "TaskAlreadyExists" ELSE "exists"

-----------------------------------------------------------------------------
(***************************************************************************)
(* push() and sync_push()                                                  *)
(***************************************************************************)

\* The mode is read once, at the start. immediate and remote end here: what the function
\* or the delivery then does is no matter of the client's state.
Begin(p) ==
    /\ state[p] = "idle" /\ MayRun(p)
    /\ count[p] < PushBound
    /\ count' = [count EXCEPT ![p] = @ + 1]
    /\ \E t \in Pushes :
          /\ task' = [task EXCEPT ![p] = t]
          /\ CASE eager = "production" -> Goto(p, "building") /\ result' = [result EXCEPT ![p] = "none"]
               [] eager = "record"     -> Goto(p, "listing") /\ result' = [result EXCEPT ![p] = "none"]
               [] OTHER                -> Return(p, IF EagerFault(eager, t) # "none" THEN EagerFault(eager, t)
                                                    ELSE IF eager = "remote" THEN "sent" ELSE "ran")
    /\ mode' = [mode EXCEPT ![p] = eager]
    /\ inside' = [inside EXCEPT ![p] = IF open = <<>> THEN ClientList ELSE open[Len(open)]]
    /\ UNCHANGED <<clientVars, parent, into, number, blockVars, first>>

\* The request is built; its parent is queue_path, None in any eager mode.
Build(p) ==
    /\ state[p] = "building" /\ MayRun(p)
    /\ IF ProductionFault(task[p]) # "none"
         THEN Return(p, ProductionFault(task[p])) /\ UNCHANGED parent
         ELSE /\ parent' = [parent EXCEPT ![p] = (eager = "production")]
              /\ Goto(p, "ready") /\ UNCHANGED result
    /\ UNCHANGED <<clientVars, task, mode, into, number, inside, count, blockVars, first>>

\* service and sync_service are None too in any eager mode: None has no create_task.
CallService(p) ==
    /\ state[p] = "ready" /\ MayRun(p)
    /\ IF eager = "production" THEN Goto(p, "calling") /\ UNCHANGED result
                               ELSE Return(p, "TaskPushError")
    /\ UNCHANGED <<clientVars, task, mode, parent, into, number, inside, count,
                   blockVars, first>>

\* Cloud Tasks answers: a request without a parent is refused, and a known name exists. A call
\* may also fail for any other reason, whether or not the task was created.
Reply(p) ==
    LET known == google \cup ({task[p].name} \ {NoName}) IN
    /\ state[p] = "calling" /\ MayRun(p)
    /\ \/ ~parent[p] /\ Return(p, "TaskPushError") /\ UNCHANGED google
       \/ /\ parent[p] /\ task[p].name \in google
          /\ Return(p, Exists(task[p])) /\ UNCHANGED google
       \/ /\ parent[p] /\ task[p].name \notin google
          /\ Return(p, "created") /\ google' = known
       \/ /\ parent[p]
          /\ Return(p, "CloudTasksError") /\ google' \in {google, known}
    /\ UNCHANGED <<eager, pushed, lists, task, mode, parent, into, number, inside, count,
                   blockVars, first>>

\* _record: after its checks it takes the list the client has now.
ReadList(p) ==
    /\ state[p] = "listing" /\ MayRun(p)
    /\ IF RecordFault(task[p]) # "none"
         THEN Return(p, RecordFault(task[p])) /\ UNCHANGED into
         ELSE into' = [into EXCEPT ![p] = pushed] /\ Goto(p, "checking") /\ UNCHANGED result
    /\ UNCHANGED <<clientVars, task, mode, parent, number, inside, count, blockVars, first>>

\* Mutant: only the last recording is compared.
CheckLast(p) ==
    LET l == lists[into[p]] IN
    /\ state[p] = "checking" /\ MayRun(p)
    /\ IF task[p].name # NoName /\ l # <<>> /\ l[Len(l)].name = task[p].name
         THEN Return(p, Exists(task[p])) /\ UNCHANGED number
         ELSE number' = [number EXCEPT ![p] = Len(l) + 1] /\ Goto(p, "appending") /\ UNCHANGED result
    /\ UNCHANGED <<clientVars, task, mode, parent, into, inside, count, blockVars, first>>

\* A name already in the list exists; otherwise the path is recorded-N without one.
Check(p) ==
    LET l == lists[into[p]] IN
    /\ state[p] = "checking" /\ MayRun(p)
    /\ IF task[p].name # NoName /\ \E i \in 1..Len(l) : l[i].name = task[p].name
         THEN Return(p, Exists(task[p])) /\ UNCHANGED number
         ELSE number' = [number EXCEPT ![p] = Len(l) + 1] /\ Goto(p, "appending") /\ UNCHANGED result
    /\ UNCHANGED <<clientVars, task, mode, parent, into, inside, count, blockVars, first>>

\* Mutant: every recording goes to the list the client was created with.
RecordInClientList(p) ==
    /\ state[p] = "appending" /\ MayRun(p)
    /\ lists' = [lists EXCEPT ![ClientList] =
                    Append(@, [name |-> task[p].name, number |-> number[p], inside |-> inside[p]])]
    /\ Return(p, "recorded")
    /\ UNCHANGED <<eager, pushed, google, task, mode, parent, into, number, inside, count,
                   blockVars, first>>

Record(p) ==
    /\ state[p] = "appending" /\ MayRun(p)
    /\ lists' = [lists EXCEPT ![into[p]] =
                    Append(@, [name |-> task[p].name, number |-> number[p], inside |-> inside[p]])]
    /\ Return(p, "recorded")
    /\ UNCHANGED <<eager, pushed, google, task, mode, parent, into, number, inside, count,
                   blockVars, first>>

-----------------------------------------------------------------------------
(***************************************************************************)
(* with recorder(client) as pushed                                         *)
(***************************************************************************)

\* No other block is half way in or out.
Settled(b) == \A a \in Blocks \ {b} : state[a] \in {"outside", "inside", "left"}

\* previous_mode, previous_pushed = client.eager, client.pushed
Enter(b) ==
    /\ state[b] = "outside" /\ MayRun(b)
    /\ Nested => Settled(b)
    /\ saved' = [saved EXCEPT ![b] = [mode |-> eager, list |-> pushed]]
    /\ Goto(b, "saved")
    /\ UNCHANGED <<clientVars, pushVars, yielded, open, first>>

\* client.eager = "record"
Switch(b) ==
    /\ state[b] = "saved" /\ MayRun(b)
    /\ eager' = "record"
    /\ Goto(b, "switched")
    /\ UNCHANGED <<pushed, lists, google, pushVars, blockVars, first>>

\* client.pushed = PushedTasks()
Replace(b) ==
    /\ state[b] = "switched" /\ MayRun(b)
    /\ pushed' = b
    /\ Goto(b, "replaced")
    /\ UNCHANGED <<eager, lists, google, pushVars, blockVars, first>>

\* yield client.pushed: the attribute is read again.
Yield(b) ==
    /\ state[b] = "replaced" /\ MayRun(b)
    /\ yielded' = [yielded EXCEPT ![b] = pushed]
    /\ open' = Append(open, b)
    /\ Goto(b, "inside")
    /\ UNCHANGED <<clientVars, pushVars, saved, first>>

\* s without b, which is in it once.
Without(s, b) ==
    LET i == CHOOSE j \in 1..Len(s) : s[j] = b
    IN  SubSeq(s, 1, i - 1) \o SubSeq(s, i + 1, Len(s))

\* Mutant: the block goes back to production, not to the previous mode.
LeaveToProduction(b) ==
    /\ state[b] = "inside" /\ MayRun(b)
    /\ Nested => open[Len(open)] = b /\ Settled(b)
    /\ eager' = "production"
    /\ open' = Without(open, b)
    /\ Goto(b, "leaving")
    /\ UNCHANGED <<pushed, lists, google, pushVars, saved, yielded, first>>

\* client.eager = previous_mode, on a normal exit and on an exception.
Leave(b) ==
    /\ state[b] = "inside" /\ MayRun(b)
    /\ Nested => open[Len(open)] = b /\ Settled(b)
    /\ eager' = saved[b].mode
    /\ open' = Without(open, b)
    /\ Goto(b, "leaving")
    /\ UNCHANGED <<pushed, lists, google, pushVars, saved, yielded, first>>

\* Mutant: the recordings stay with the client.
RestoreModeOnly(b) ==
    /\ state[b] = "leaving" /\ MayRun(b)
    /\ Goto(b, "left")
    /\ UNCHANGED <<clientVars, pushVars, blockVars, first>>

\* Mutant: the two saved values are put back the wrong way round.
RestoreSwapped(b) ==
    /\ state[b] = "leaving" /\ MayRun(b)
    /\ pushed' = saved[b].mode
    /\ Goto(b, "left")
    /\ UNCHANGED <<eager, lists, google, pushVars, blockVars, first>>

\* client.pushed = previous_pushed
Restore(b) ==
    /\ state[b] = "leaving" /\ MayRun(b)
    /\ pushed' = saved[b].list
    /\ Goto(b, "left")
    /\ UNCHANGED <<eager, lists, google, pushVars, blockVars, first>>

Next ==
    \/ \E p \in Pushers :
          \/ Begin(p) \/ Build(p) \/ CallService(p) \/ Reply(p)
          \/ ReadList(p) \/ Check(p) \/ Record(p)
    \/ \E b \in Blocks : Enter(b) \/ Switch(b) \/ Replace(b) \/ Yield(b) \/ Leave(b) \/ Restore(b)

Spec == Init /\ [][Next]_vars

-----------------------------------------------------------------------------
(***************************************************************************)
(* Properties                                                              *)
(***************************************************************************)

(***************************************************************************)
(* Record mode emulates AlreadyExists: no list holds two recordings of the *)
(* same task path, so of pushes with one name exactly one is recorded, and *)
(* unnamed ones get a path each.                                           *)
(***************************************************************************)
PathsAreUnique ==
    \A l \in Lists : \A i, j \in 1..Len(lists[l]) :
        i # j => LET a == lists[l][i]
                     b == lists[l][j]
                 IN  IF a.name = NoName THEN b.name = NoName => a.number # b.number
                                        ELSE a.name # b.name

(***************************************************************************)
(* After the last block is left, the client is in the mode it was in       *)
(* before the first one, with the recordings it had.                       *)
(***************************************************************************)
RestoredOnExit ==
    (\A b \in Blocks : state[b] \in {"outside", "left"}) => eager = first /\ pushed = ClientList

(***************************************************************************)
(* What a block sees recorded is what was pushed inside it: a recording is *)
(* in the list of the innermost block its push began in, and that list is  *)
(* the one the block was given.                                            *)
(***************************************************************************)
RecordedInOwnBlock ==
    \A l \in Lists : \A i \in 1..Len(lists[l]) :
        /\ lists[l][i].inside = l
        /\ l \in Blocks => yielded[l] = l

(***************************************************************************)
(* The list of a block that was left no longer changes: the assertions of  *)
(* a test are about a finished recording.                                  *)
(***************************************************************************)
FrozenOnExit ==
    [][\A b \in Blocks : state[b] = "left" =>
          lists'[yielded[b]] = lists[yielded[b]]]_vars

(***************************************************************************)
(* A push fails for a reason of its own or of Cloud Tasks only, never      *)
(* because somebody switched the client's mode meanwhile.                  *)
(***************************************************************************)
NoSpuriousError ==
    \A p \in Pushers :
        /\ result[p] = "TaskPushError" => "body" \in task[p].faults
        /\ result[p] = "TaskAlreadyExists" => task[p].name # NoName

(***************************************************************************)
(* A push that record mode refuses is refused by production, with the same *)
(* exception, and one that it records is one production would have sent.   *)
(***************************************************************************)
RecordsAsProduction ==
    \A p \in Pushers :
        state[p] = "idle" /\ mode[p] = "record" /\ result[p] # "none" =>
            IF ProductionFault(task[p]) # "none" THEN result[p] = ProductionFault(task[p])
            ELSE result[p] \in {"recorded", "exists", "TaskAlreadyExists"}
=============================================================================
