------------------------------- MODULE Attempt -------------------------------
(***************************************************************************)
(* What a worker promises about one attempt at a task, and all that the    *)
(* queue may rely on: the answer it gives agrees with the work it did.     *)
(* Worker implements this module; Delivery is built on it.                 *)
(***************************************************************************)
CONSTANT Slots    \* what executes attempts, one each at a time

(***************************************************************************)
(* What the attempt came to so far:                                        *)
(*   none      the task function has not begun                             *)
(*   begun     it runs                                                     *)
(*   complete  it returned, and nothing failed since                       *)
(*   declined  the function, or what closes after it, called the task off  *)
(*   failed    the function, or what closes after it, failed               *)
(***************************************************************************)
Works == {"none", "begun", "complete", "declined", "failed"}

VARIABLES
    phase,   \* idle, serving or answered
    work,    \* what the attempt came to
    answer   \* the answer given

avars == <<phase, work, answer>>

Acks == {"success", "aborted", "rejected"}
Errors == {"403", "404", "503", "500", "dropped"}

Init ==
    /\ phase = [s \in Slots |-> "idle"]
    /\ work = [s \in Slots |-> "none"]
    /\ answer = [s \in Slots |-> "none"]

\* A request is taken.
Take(s) ==
    /\ phase[s] # "serving"
    /\ phase' = [phase EXCEPT ![s] = "serving"]
    /\ work' = [work EXCEPT ![s] = "none"]
    /\ answer' = [answer EXCEPT ![s] = "none"]

Advance(s, from, to) ==
    /\ phase[s] = "serving" /\ work[s] \in from
    /\ work' = [work EXCEPT ![s] = to]
    /\ UNCHANGED <<phase, answer>>

\* The task function starts.
Start(s) == Advance(s, {"none"}, "begun")

\* The task function returns.
Complete(s) == Advance(s, {"begun"}, "complete")

\* Once it began, the attempt's own code may call the task off, or fail, and fail at that.
Decline(s) == Advance(s, {"begun", "complete", "failed"}, "declined")
Break(s) == Advance(s, {"begun", "complete", "declined"}, "failed")

\* Success is for complete work only; a task whose function began is only disowned by its own code.
Reply(s, a) ==
    /\ phase[s] = "serving"
    /\ a = "success" => work[s] = "complete"
    /\ a \in {"aborted", "rejected"} => work[s] \in {"none", "declined"}
    /\ phase' = [phase EXCEPT ![s] = "answered"]
    /\ answer' = [answer EXCEPT ![s] = a]
    /\ UNCHANGED work

\* The process dies.
Stop(s) ==
    /\ phase[s] = "serving"
    /\ phase' = [phase EXCEPT ![s] = "idle"]
    /\ UNCHANGED <<work, answer>>

Step(s) ==
    \/ Take(s) \/ Start(s) \/ Complete(s) \/ Decline(s) \/ Break(s) \/ Stop(s)
    \/ \E a \in Acks \cup Errors : Reply(s, a)

Spec == Init /\ [][\E s \in Slots : Step(s)]_avars
=============================================================================
