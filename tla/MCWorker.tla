------------------------------ MODULE MCWorker ------------------------------
(***************************************************************************)
(* Small instances of Worker.                                              *)
(*   charge   validated, two yield dependencies, the inner one may raise   *)
(*   report   no dependencies, a name rendered from rich values            *)
(*   notify   a coroutine whose dependency does not yield                  *)
(*   broken   annotations the validator cannot resolve                     *)
(*   audited  its dependency catches exceptions and does not raise again   *)
(***************************************************************************)
EXTENDS Worker, TLC

OneTasks == {"charge", "report", "notify", "broken"}

MCDeps == [t \in Tasks |->
    CASE t = "charge"  -> <<"reraise", "flaky">>
      [] t = "notify"  -> <<"value">>
      [] t = "audited" -> <<"swallow">>
      [] OTHER         -> <<>>]

MCValidation == [t \in Tasks |->
    CASE t = "charge" -> "on"
      [] t = "broken" -> "broken"
      [] OTHER        -> "off"]

MCNaming == [t \in Tasks |-> IF t = "report" THEN "rich" ELSE "fixed"]

MCCoroutines == {"notify", "audited"} \cap Tasks

\* A query matters to an argument that the payload lacks only.
QueriesThatMatter == {r \in Request : r.query => r.args = "missing"}

\* Every request; a body that is not an object carries nothing else to vary.
EveryRequest ==
    {r \in QueriesThatMatter : r.body = "malformed" =>
        r.args = "fit" /\ r.segment /\ r.path = CHOOSE t \in Tasks : TRUE}

\* The requests of two concurrent contexts: async, authenticated or not.
AsyncRequests ==
    {r \in QueriesThatMatter : r.entry = "run" /\ r.body = "wellformed" /\ r.segment
                     /\ r.args \in {"fit", "missing"}
                     /\ (~r.secret => r.args = "fit")}

ContextSymmetry == Permutations(Contexts)

TwoTasks == {"charge", "notify"}
AuditedTasks == {"audited", "notify"}
NamedTasks == {"report", "notify"}
=============================================================================
