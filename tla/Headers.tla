------------------------------- MODULE Headers -------------------------------
(***************************************************************************)
(* The headers of a task, from the layers a push merges to the context a   *)
(* task reads.                                                             *)
(*                                                                         *)
(*   core.py      _merge_headers, _check_reserved_headers, _build_headers, *)
(*                _get_context_headers, Task.headers, authenticator        *)
(*   auth.py      normalize_headers, WorkerAuthenticator                   *)
(*   context.py   from_headers, with _task_context and _eager_context      *)
(*   external     Cloud Tasks, which adds headers; the server's gateway,   *)
(*                which spells names its own way                           *)
(*                                                                         *)
(* Producer and worker are one application with one client.                *)
(***************************************************************************)
EXTENDS Integers, Sequences

(***************************************************************************)
(* A name is a word in one of its spellings: with dashes or underscores,   *)
(* in lower case or not, after that many prefixes "http-".                 *)
(***************************************************************************)
CONSTANTS
    AppNames,       \* the names the application sets headers by
    SecretNames,    \* the values of secret_header_name
    Secrets, NoSecret,
    Unbuilt,        \* the authenticator before its first use
    Oidc,           \* whether the client has an sae
    InsecureAllowUnauthenticated,
    MaxAssigned     \* bound: the names assigned to task.headers

Words == {"x-id", "x-secret", "content-type", "x-cloudtasks-taskretrycount", "authorization"}
Spellings == [word : Words, sep : {"-", "_"}, case : {"lower", "mixed"}, http : 0..2]

Name(w) == [word |-> w, sep |-> "-", case |-> "lower", http |-> 0]
Lower(n) == [n EXCEPT !.case = "lower"]
Dashed(n) == [n EXCEPT !.sep = "-"]
Stripped(n) == [n EXCEPT !.http = IF @ > 0 THEN @ - 1 ELSE 0]
Header(n, v) == [name |-> n, value |-> v]

\* The layers of a push, lowest first. The value of an application's header is its layer.
Layers == <<"context", "decorator", "task", "push">>
LayerDicts(l) == {<<>>} \cup {<<Header(n, l)>> : n \in AppNames}

\* No other header has a secret for its value.
ASSUME HeadersAssumption ==
    /\ AppNames \cup SecretNames \subseteq Spellings
    /\ NoSecret \notin Secrets /\ Unbuilt \notin Secrets \cup {NoSecret}
    /\ Oidc \in BOOLEAN /\ InsecureAllowUnauthenticated \in BOOLEAN
    /\ Secrets \cap ({Layers[i] : i \in 1..4} \cup {"json", "queue"}) = {}

VARIABLES
    secretName,     \* client.secret_header_name
    secret,         \* client.secret
    authenticator,  \* the secret client._authenticator copied
    decorator,      \* the decorator's headers
    instance,       \* task.headers as assigned so far: a dict, in its order
    request,        \* none, ValueError, sent, 403, run
    sent,           \* the headers of the request
    context,        \* the headers the task sees, by name
    pushed, used    \* (history) the layers of the push, the secret it sent

config == <<secretName, decorator>>
pushVars == <<request, sent, context, pushed, used>>
vars == <<config, secret, authenticator, instance, pushVars>>

Values == {Layers[i] : i \in 1..4} \cup {"json", "queue"} \cup Secrets

TypeOK ==
    /\ secretName \in SecretNames
    /\ secret \in Secrets \cup {NoSecret}
    /\ authenticator \in Secrets \cup {NoSecret, Unbuilt}
    /\ decorator \in LayerDicts("decorator")
    /\ instance \in Seq([name : AppNames, value : {"task"}])
    /\ request \in {"none", "ValueError", "sent", "403", "run"}
    /\ \A h \in sent : h.name \in Spellings /\ h.value \in Values
    /\ \A n \in DOMAIN context : n \in Spellings /\ n.case = "lower" /\ context[n] \in Values
    /\ \A i \in DOMAIN pushed : pushed[i] \in Seq([name : AppNames, value : {Layers[i]}])
    /\ used \in Secrets \cup {NoSecret}

Init ==
    /\ secretName \in SecretNames
    /\ secret \in Secrets \cup {NoSecret}
    /\ authenticator = Unbuilt
    /\ decorator \in LayerDicts("decorator")
    /\ instance = <<>>
    /\ request = "none" /\ sent = {} /\ context = <<>>
    /\ pushed = <<>> /\ used = NoSecret

-----------------------------------------------------------------------------
(***************************************************************************)
(* The producer: building the headers                                      *)
(***************************************************************************)

\* Of the headers with one name the last is kept, in its spelling.
MergeHeaders(layers) ==
    LET places == UNION {{i} \X DOMAIN layers[i] : i \in DOMAIN layers}
        At(p) == layers[p[1]][p[2]]
        Key(p) == Lower(Dashed(At(p).name))
        Later(p, q) == p[1] > q[1] \/ (p[1] = q[1] /\ p[2] > q[2])
    IN  {Header(Dashed(At(p).name), At(p).value) :
            p \in {q \in places : \A r \in places : Later(r, q) => Key(r) # Key(q)}}

\* Mutant: a reserved name is looked up as it is spelled.
ReservedAsSpelled(n) == n = Name("x-cloudtasks-taskretrycount")

Reserved(n) ==
    Lower(n) \in {Name("x-cloudtasks-taskretrycount")}
                 \cup (IF Oidc THEN {Name("authorization")} ELSE {})

Library(name, s) ==
    (IF s = NoSecret THEN <<>> ELSE <<Header(name, s)>>)
    \o <<Header([Name("content-type") EXCEPT !.case = "mixed"], "json")>>

\* Mutant: the application's headers are merged over the library's.
BuildAppLast(name, s, layers) == MergeHeaders(<<Library(name, s)>> \o layers)

\* Merging the library's headers over the merged layers is merging them last.
BuildHeaders(name, s, layers) == MergeHeaders(Append(layers, Library(name, s)))

\* Mutant: the context provider wins over the decorator.
ProviderSecond(ctx, dec, inst, extra) == <<dec, ctx, inst, extra>>

PushLayers(ctx, dec, inst, extra) == <<ctx, dec, inst, extra>>

\* A push, with what context_headers returns (nothing, when it raises) and push(headers=).
\* Bound: one push, which reads nothing of the ones before it.
Push ==
    /\ request = "none"
    /\ \E ctx \in LayerDicts("context"), extra \in LayerDicts("push") :
          LET layers == PushLayers(ctx, decorator, instance, extra) IN
          /\ pushed' = layers
          /\ IF \E h \in MergeHeaders(layers) : Reserved(h.name)
               THEN request' = "ValueError" /\ UNCHANGED sent
               ELSE request' = "sent" /\ sent' = BuildHeaders(secretName, secret, layers)
    /\ used' = secret
    /\ UNCHANGED <<config, secret, authenticator, instance, context>>

\* dict.update: a name that is there keeps its place.
Updated(d, h) ==
    IF \E i \in DOMAIN d : d[i].name = h.name
      THEN [i \in DOMAIN d |-> IF d[i].name = h.name THEN h ELSE d[i]]
      ELSE Append(d, h)

\* task.headers = {n: ...}. Bound: before the push, the only one to read them.
SetHeaders(n) ==
    /\ request = "none"
    /\ Len(Updated(instance, Header(n, "task"))) <= MaxAssigned
    /\ instance' = Updated(instance, Header(n, "task"))
    /\ UNCHANGED <<config, secret, authenticator, pushVars>>

\* client.secret = s
AssignSecret(s) ==
    /\ secret' = s
    /\ UNCHANGED <<config, authenticator, instance, pushVars>>

-----------------------------------------------------------------------------
(***************************************************************************)
(* The worker: authentication and context                                  *)
(***************************************************************************)

\* Mutant: a client without a secret gets an authenticator that was never configured.
AuthenticatorUnchecked ==
    /\ authenticator = Unbuilt
    /\ authenticator' = IF secret = NoSecret THEN "" ELSE secret
    /\ UNCHANGED <<config, secret, instance, pushVars>>

\* WorkerAuthenticator is made only of these; otherwise it raises ImproperlyConfigured.
Configured == secret # NoSecret \/ InsecureAllowUnauthenticated

\* client.authenticator, first read when the router is built; the exception leaves it unbuilt.
BuildAuthenticator ==
    /\ authenticator = Unbuilt
    /\ Configured
    /\ authenticator' = secret
    /\ UNCHANGED <<config, secret, instance, pushVars>>

\* (external) What Cloud Tasks adds or overrides.
Forwarded(hs) ==
    LET own == {Header(Name("x-cloudtasks-taskretrycount"), "queue")}
               \cup (IF Oidc THEN {Header(Name("authorization"), "queue")} ELSE {})
    IN  {h \in hs : \A o \in own : Lower(h.name) # o.name} \cup own

\* (external) ASGI servers send names in lower case, WSGI as HTTP_NAME, except Content-Type.
Spelled(n, gateway) ==
    IF gateway = "asgi" THEN Lower(n)
    ELSE [n EXCEPT !.sep = "_", !.case = "mixed",
                   !.http = IF n.word = "content-type" /\ @ = 0 THEN 0 ELSE @ + 1]

\* normalize_headers. Of two headers that end up with one name the later wins, and only an
\* "http-" prefix makes them two: strayLast says that it is the one with the prefix.
NormalizeHeaders(hs, strayLast) ==
    LET Key(h) == Stripped(Lower(Dashed(h.name))) IN
    [n \in {Key(h) : h \in hs} |->
        (CHOOSE h \in hs : /\ Key(h) = n
                           /\ (h.name.http > 0) = strayLast
                              \/ \A g \in hs \ {h} : Key(g) # n).value]

Hidden == {Name("authorization")}

\* Mutant: the secret's name is hidden as it was configured.
HideAsConfigured(headers, name) ==
    [n \in DOMAIN headers \ (Hidden \cup {name}) |-> headers[n]]

\* TaskContext.from_headers
Visible(headers, name) ==
    [n \in DOMAIN headers \ (Hidden \cup {Lower(name)}) |-> headers[n]]

\* Lower-cased names (from_headers), not normalised.
Lowered(hs) ==
    [n \in {Lower(h.name) : h \in hs} |-> (CHOOSE h \in hs : Lower(h.name) = n).value]

\* Mutant: the context is built from the layers, without the library's headers.
EagerFromLayers(built, name) == Visible(Lowered({h \in built : h.value # "json"}), name)

\* _eager_context: an immediate run sees the headers of the request a push would send.
EagerContext(built, name) == Visible(Lowered(built), name)

Authentic(headers) ==
    \/ authenticator = NoSecret
    \/ Lower(secretName) \in DOMAIN headers /\ headers[Lower(secretName)] = authenticator

\* The request reaches the worker, through either gateway.
Deliver ==
    /\ request = "sent" /\ authenticator # Unbuilt
    /\ \E gateway \in {"asgi", "wsgi"}, strayLast \in BOOLEAN :
          LET received == {Header(Spelled(h.name, gateway), h.value) : h \in Forwarded(sent)}
              headers == NormalizeHeaders(received, strayLast)
          IN  IF Authentic(headers)
                THEN request' = "run" /\ context' = Visible(headers, secretName)
                ELSE request' = "403" /\ UNCHANGED context
    /\ UNCHANGED <<config, secret, authenticator, instance, sent, pushed, used>>

Next ==
    \/ Push \/ BuildAuthenticator \/ Deliver
    \/ \E n \in AppNames : SetHeaders(n)
    \/ \E s \in Secrets \cup {NoSecret} : AssignSecret(s)

Spec == Init /\ [][Next]_vars

-----------------------------------------------------------------------------
(***************************************************************************)
(* Properties                                                              *)
(***************************************************************************)

\* A secret_header_name that is looked for, and hidden, under the name it is sent by.
Plain(name) == name.sep = "-" /\ name.http = 0

\* The lower-case name under which a worker would know the application's header n.
Known(n) == Stripped(Lower(Dashed(n)))

\* A header named "http-...": normalize_headers takes it for another one's WSGI name.
Stray == \E h \in sent : h.name.http > 0

(***************************************************************************)
(* Whatever the application's headers are, and whenever the secret was     *)
(* assigned, a delivered request is run exactly if the worker asks for no  *)
(* secret or the secret in use at the push is the one the authenticator    *)
(* copied when it was built (_build_headers, authenticate). Under a        *)
(* secret_header_name that is not plain the worker looks for a header that *)
(* no request has: it refuses what its own client pushed.                  *)
(***************************************************************************)
SecretDecides ==
    request \in {"403", "run"} /\ ~Stray
      => (request = "run" <=> \/ authenticator = NoSecret
                              \/ Plain(secretName) /\ authenticator = used)

\* What a worker's task sees, and what an immediate run would show of the same push.
Shown == {context, EagerContext(sent, secretName)}

(***************************************************************************)
(* The secret is never among the headers a task sees, in a worker or in an *)
(* immediate run, under every secret_header_name.                          *)
(***************************************************************************)
SecretNeverShown == \A shown \in Shown : \A n \in DOMAIN shown : shown[n] \notin Secrets

(***************************************************************************)
(* The Authorization header is never among the headers a task sees, and    *)
(* neither is the secret if its header has a plain name.                   *)
(***************************************************************************)
CredentialsNeverShown ==
    /\ \A shown \in Shown : Name("authorization") \notin DOMAIN shown
    /\ Plain(secretName) => SecretNeverShown

(***************************************************************************)
(* The task sees each header with the value of the highest layer that set  *)
(* it, in any spelling; the names the library sets itself are left aside.  *)
(***************************************************************************)
PrecedenceKept ==
    request = "run" /\ ~Stray =>
        \A i \in DOMAIN pushed : \A j \in DOMAIN pushed[i] :
            LET n == Known(pushed[i][j].name)
                above == \E k \in (i + 1)..4 : \E m \in DOMAIN pushed[k] :
                            Known(pushed[k][m].name) = n
                library == {Name("content-type"), Lower(Dashed(secretName)), Name("authorization")}
            IN  n \notin library /\ ~above => n \in DOMAIN context /\ context[n] = Layers[i]

(***************************************************************************)
(* The retry count a task reads is the one of Cloud Tasks: no header of    *)
(* the application stands in for it, in any spelling                       *)
(* (_check_reserved_headers); in an immediate run there is none.           *)
(***************************************************************************)
CountIsTheQueues ==
    LET n == Name("x-cloudtasks-taskretrycount") IN
    /\ request = "run" /\ ~Stray => context[n] = "queue"
    /\ n \notin DOMAIN EagerContext(sent, secretName)

(***************************************************************************)
(* An immediate run and a worker show a task the same headers, except      *)
(* those that Cloud Tasks adds.                                            *)
(***************************************************************************)
EagerLikeWorker ==
    request = "run" /\ ~Stray =>
        LET eager == EagerContext(sent, secretName) IN
        \A n \in DOMAIN context \cup DOMAIN eager :
            \/ n = Name("x-cloudtasks-taskretrycount")
            \/ n \in DOMAIN context \cap DOMAIN eager /\ context[n] = eager[n]
=============================================================================
