--------------------------- MODULE SessionRunStart ---------------------------
(***************************************************************************)
(* Starting a SessionRun: the handler of a start request looks for a       *)
(* projection with the same client request id, and otherwise creates one,  *)
(* submits its AgentRun and binds it. A client repeats a request whose     *)
(* response it did not get; projections are collected when they are idle   *)
(* and lost in a restart, the AgentRuns and the bindings are stored.       *)
(***************************************************************************)
EXTENDS Naturals, FiniteSets

CONSTANTS
    RequestId,    \* client request ids
    Handler,      \* handler threads
    MaxRuns,      \* bound: SessionRuns
    MaxRestarts   \* bound: restarts of the server

SessionRunStartAssumption ==
    MaxRuns \in Nat /\ MaxRestarts \in Nat /\ RequestId \cap {"none", "gone"} = {}

VARIABLES
    created,     \* number of SessionRuns created so far
    projection,  \* _session_runs: [SessionRun -> its client request id, "none"
                 \* if it has none, "gone" if there is no projection]
    run,         \* [SessionRun -> status of its AgentRun]
    binding,     \* [SessionRun -> status of its main binding]
    handler,     \* [Handler -> [at, request, session]]
    told,        \* history: [RequestId -> SessionRuns a start was answered with]
    origin,      \* history: [SessionRun -> the request it was created for]
    disturbed,   \* history: requests that overlapped with their repetition, or
                 \* whose projection was collected or lost
    restarts

vars == <<created, projection, run, binding, handler, told, origin, disturbed, restarts>>
history == <<told, origin, disturbed, restarts>>

SessionRun == 1..MaxRuns
Free == [at |-> "idle", request |-> "none", session |-> 0]

TypeOK ==
    /\ created \in 0..MaxRuns
    /\ projection \in [SessionRun -> RequestId \cup {"none", "gone"}]
    /\ run \in [SessionRun -> {"absent", "open", "failed"}]
    /\ binding \in [SessionRun -> {"none", "active", "closed"}]
    /\ \A s \in SessionRun : binding[s] # "none" => run[s] # "absent"
    /\ \A h \in Handler :
         /\ handler[h].at \in {"idle", "missing", "created", "submitted", "bound"}
         /\ handler[h].session \in 0..created
    /\ told \in [RequestId -> SUBSET SessionRun]

Init ==
    /\ created = 0
    /\ projection = [s \in SessionRun |-> "gone"]
    /\ run = [s \in SessionRun |-> "absent"]
    /\ binding = [s \in SessionRun |-> "none"]
    /\ handler = [h \in Handler |-> Free]
    /\ told = [q \in RequestId |-> {}]
    /\ origin = [s \in SessionRun |-> "none"]
    /\ disturbed = {} /\ restarts = 0

-----------------------------------------------------------------------------
(* Mutants *)

\* Mutant: the projection is created without the id of its request.
CreateUnkeyed(h) ==
    /\ handler[h].at = "missing" /\ created < MaxRuns
    /\ created' = created + 1
    /\ projection' = [projection EXCEPT ![created + 1] = "none"]
    /\ origin' = [origin EXCEPT ![created + 1] = handler[h].request]
    /\ handler' = [handler EXCEPT ![h].at = "created", ![h].session = created + 1]
    /\ UNCHANGED <<run, binding, told, disturbed, restarts>>

-----------------------------------------------------------------------------
(* The start handler *)

\* _get_session_run_by_request
Found(q) == {s \in SessionRun : projection[s] = q}

\* _resolve_binding: an active binding whose run has not failed.
Observable(s) == binding[s] = "active" /\ run[s] = "open"

\* The request arrives. A projection of an earlier attempt answers it, or
\* refuses it when its main branch has no observable binding.
Receive(h, q) ==
    /\ handler[h].at = "idle"
    /\ disturbed' = IF \E g \in Handler : handler[g].request = q
                    THEN disturbed \cup {q} ELSE disturbed
    /\ IF Found(q) = {}
       THEN /\ handler' = [handler EXCEPT ![h] =
                             [at |-> "missing", request |-> q, session |-> 0]]
            /\ UNCHANGED told
       ELSE /\ \E s \in Found(q) :
                 told' = IF Observable(s) THEN [told EXCEPT ![q] = @ \cup {s}] ELSE told
            /\ UNCHANGED handler
    /\ UNCHANGED <<created, projection, run, binding, origin, restarts>>

Create(h) ==
    /\ handler[h].at = "missing" /\ created < MaxRuns
    /\ created' = created + 1
    /\ projection' = [projection EXCEPT ![created + 1] = handler[h].request]
    /\ origin' = [origin EXCEPT ![created + 1] = handler[h].request]
    /\ handler' = [handler EXCEPT ![h].at = "created", ![h].session = created + 1]
    /\ UNCHANGED <<run, binding, told, disturbed, restarts>>

Submit(h) ==
    /\ handler[h].at = "created"
    /\ run' = [run EXCEPT ![handler[h].session] = "open"]
    /\ handler' = [handler EXCEPT ![h].at = "submitted"]
    /\ UNCHANGED <<created, projection, binding, history>>

\* An invalid AgentRun: the projection stays, and refuses every repetition.
Refuse(h) ==
    /\ handler[h].at = "created"
    /\ handler' = [handler EXCEPT ![h] = Free]
    /\ UNCHANGED <<created, projection, run, binding, history>>

Bind(h) ==
    /\ handler[h].at = "submitted"
    /\ binding' = [binding EXCEPT ![handler[h].session] = "active"]
    /\ handler' = [handler EXCEPT ![h].at = "bound"]
    /\ UNCHANGED <<created, projection, run, history>>

Answer(h) ==
    /\ handler[h].at = "bound"
    /\ told' = [told EXCEPT ![handler[h].request] = @ \cup {handler[h].session}]
    /\ handler' = [handler EXCEPT ![h] = Free]
    /\ UNCHANGED <<created, projection, run, binding, origin, disturbed, restarts>>
-----------------------------------------------------------------------------
(* Its environment *)

Fail(s) ==
    /\ run[s] = "open"
    /\ run' = [run EXCEPT ![s] = "failed"]
    /\ binding' = [binding EXCEPT ![s] = IF @ = "active" THEN "closed" ELSE @]
    /\ UNCHANGED <<created, projection, handler, history>>

\* _gc_session_runs: a projection nobody has touched for the idle time.
Collect(s) ==
    /\ projection[s] # "gone"
    /\ \A h \in Handler : handler[h].session # s
    /\ projection' = [projection EXCEPT ![s] = "gone"]
    /\ disturbed' = disturbed \cup ({projection[s]} \cap RequestId)
    /\ UNCHANGED <<created, run, binding, handler, told, origin, restarts>>

\* The server restarts with the Postgres store.
Restart ==
    /\ restarts < MaxRestarts
    /\ restarts' = restarts + 1
    /\ projection' = [s \in SessionRun |-> "gone"]
    /\ handler' = [h \in Handler |-> Free]
    /\ disturbed' = RequestId
    /\ UNCHANGED <<created, run, binding, told, origin>>

\* recover_session_run_projection_from_binding: without a client request id.
Recover(s) ==
    /\ projection[s] = "gone" /\ binding[s] # "none"
    /\ projection' = [projection EXCEPT ![s] = "none"]
    /\ binding' = [binding EXCEPT ![s] =
                     IF @ = "active" /\ run[s] = "failed" THEN "closed" ELSE @]
    /\ UNCHANGED <<created, run, handler, history>>

Next ==
    \/ \E h \in Handler :
         \/ \E q \in RequestId : Receive(h, q)
         \/ Create(h) \/ Submit(h) \/ Refuse(h) \/ Bind(h) \/ Answer(h)
    \/ \E s \in SessionRun : Fail(s) \/ Collect(s) \/ Recover(s)
    \/ Restart

Spec == Init /\ [][Next]_vars
-----------------------------------------------------------------------------
(* Properties *)

Started(q) == {s \in SessionRun : origin[s] = q /\ run[s] # "absent"}

\* However requests, failures, collections and restarts interleave, a start
\* is answered only with a SessionRun that was created for that very request,
\* and that has a stored AgentRun and binding.
ToldIsOwn ==
    \A q \in RequestId : \A s \in told[q] :
        s \in Started(q) /\ binding[s] # "none"

\* A request whose repetitions do not overlap, and whose projection was
\* neither collected nor lost, starts at most one SessionRun.
RepeatedStartsOnce ==
    \A q \in RequestId \ disturbed : Cardinality(Started(q)) <= 1

-----------------------------------------------------------------------------
(* What a document, a comment or a test says and the code does not keep:   *)
(* README.md tells what happens instead.                                   *)

\* "`clientRequestId` remains backend idempotency ... metadata": a request
\* starts at most one SessionRun.
OneRunPerRequest == \A q \in RequestId : Cardinality(Started(q)) <= 1
=============================================================================
