-------------------------- MODULE SessionRunWorker --------------------------
(***************************************************************************)
(* The two worker threads inside the server that execute the AgentRuns of  *)
(* chats: one for runs on the server, one for runs in the workspace of a   *)
(* connected peer. A worker claims a run, gives its prompt to an agent and *)
(* completes the activation; the server's worker has a thread beside it    *)
(* that renews the lease and brings the cancellation to the agent.         *)
(***************************************************************************)
EXTENDS Naturals, FiniteSets

CONSTANTS
    Run,         \* AgentRuns of chats
    OnPeer,      \* those that work in a peer's workspace
    MissingStops,\* a heartbeat without a claim says that a cancellation is requested
    Faults,      \* whether the control plane may fail under a call
    MaxEvents,   \* bound: events of one execution
    MaxCancels,  \* bound: cancellations
    NoRun        \* not a run

SessionRunWorkerAssumption ==
    /\ OnPeer \subseteq Run
    /\ {MissingStops, Faults} \subseteq BOOLEAN
    /\ MaxEvents \in Nat /\ MaxEvents >= 2 /\ MaxCancels \in Nat
    /\ NoRun \notin Run

VARIABLES
    status,   \* AgentRun.status
    cancelRequests, \* _cancel_requests
    worker,   \* [Worker -> the claim it executes]
    cancels

vars == <<status, cancelRequests, worker, cancels>>

\* Only the server's worker has heartbeats.
Worker == {"server", "peer"}
Beats == {"server"}
WorkerOf(r) == IF r \in OnPeer THEN "peer" ELSE "server"

Event == 1..MaxEvents
Ended == {"completed", "failed", "blocked", "cancelled"}
Executing == {"registered", "chatting"}

Idle == [at |-> "idle", run |-> NoRun, lease |-> "none", beat |-> FALSE, stop |-> FALSE,
         again |-> FALSE, emitted |-> 0, delivered |-> {}, stored |-> [e \in Event |-> 0],
         result |-> "none"]

Held(w) == worker[w].lease # "none"
Becomes(w, s) == worker' = [worker EXCEPT ![w] = s]

TypeOK ==
    /\ status \in [Run -> {"absent", "queued", "dispatched", "running"} \cup Ended]
    /\ cancelRequests \subseteq {r \in Run : status[r] \in {"dispatched", "running"}}
    /\ cancels \in 0..MaxCancels
    /\ \A w \in Worker :
         /\ worker[w].at \in {"idle", "creating", "registered", "chatting", "returned", "settled",
                              "dead"}
         /\ worker[w].lease \in {"none", "live", "lapsed"}
         /\ worker[w].beat => w \in Beats
         /\ worker[w].delivered \subseteq 1..worker[w].emitted
         /\ worker[w].run = NoRun <=> worker[w] = Idle

Init ==
    /\ status = [r \in Run |-> "absent"]
    /\ cancelRequests = {}
    /\ worker = [w \in Worker |-> Idle]
    /\ cancels = 0

-----------------------------------------------------------------------------
(* The session: a message starts a run or continues one, and a request
   cancels it or stops its activation. *)

Submit(r) ==
    /\ status[r] \in {"absent", "completed", "blocked"}
    /\ status' = [status EXCEPT ![r] = "queued"]
    /\ UNCHANGED <<cancelRequests, worker, cancels>>

\* The leases of the run go.
ClearClaims(r) ==
    worker' = [w \in Worker |->
        IF worker[w].run = r THEN [worker[w] EXCEPT !.lease = "none"] ELSE worker[w]]

Cancel(r) ==
    /\ cancels < MaxCancels /\ cancels' = cancels + 1
    /\ \/ /\ status[r] = "queued"
          /\ status' = [status EXCEPT ![r] = "cancelled"]
          /\ ClearClaims(r)
          /\ cancelRequests' = cancelRequests \ {r}
       \/ /\ status[r] \in {"dispatched", "running"}
          /\ cancelRequests' = cancelRequests \cup {r}
          /\ UNCHANGED <<status, worker>>

StopActivation(r) ==
    /\ cancels < MaxCancels /\ cancels' = cancels + 1
    /\ status[r] \in {"queued", "dispatched", "running"}
    /\ status' = [status EXCEPT ![r] = "completed"]
    /\ ClearClaims(r)
    /\ cancelRequests' = cancelRequests \ {r}

-----------------------------------------------------------------------------
(* A worker thread *)

Claim(w, r) ==
    /\ worker[w].at = "idle"
    /\ status[r] = "queued" /\ WorkerOf(r) = w
    /\ status' = [status EXCEPT ![r] = "dispatched"]
    /\ Becomes(w, [Idle EXCEPT !.at = "creating", !.run = r, !.lease = "live",
                               !.beat = w \in Beats])
    /\ UNCHANGED <<cancelRequests, cancels>>

\* The worker `s` with one more event, which the control plane stores if it
\* takes it.
Emits(s, taken) ==
    LET e == s.emitted + 1 IN
    IF taken THEN [s EXCEPT !.emitted = e, !.delivered = @ \cup {e}, !.stored[e] = @ + 1]
             ELSE [s EXCEPT !.emitted = e]

\* Mutant: an append needs no claim.
MayTakeStale(w) == IF Faults THEN BOOLEAN ELSE {TRUE}

\* The outcomes of a live append: refused without the claim, and lost when the
\* control plane fails.
MayTake(w) == {b \in BOOLEAN : IF b THEN Held(w) ELSE Faults \/ ~Held(w)}

\* The agent is made, registered for a cancellation, and said to be running.
Register(w) ==
    /\ worker[w].at = "creating"
    /\ \E taken \in MayTake(w) :
         /\ Becomes(w, [Emits(worker[w], taken) EXCEPT !.at = "registered"])
         /\ status' = [status EXCEPT ![worker[w].run] = IF taken THEN "running" ELSE @]
    /\ UNCHANGED <<cancelRequests, cancels>>

\* The call ends, and the thread of the heartbeats with it.
Returns(s, result) == [s EXCEPT !.at = "returned", !.result = result, !.beat = FALSE]

\* The agent cannot be made.
CreateFails(w) ==
    /\ worker[w].at = "creating"
    /\ Becomes(w, Returns(Emits(worker[w], FALSE), "failed"))
    /\ UNCHANGED <<status, cancelRequests, cancels>>

\* Agent.chat clears what was asked of the agent before.
ChatStart(w) ==
    /\ worker[w].at = "registered"
    /\ Becomes(w, [worker[w] EXCEPT !.at = "chatting", !.stop = FALSE])
    /\ UNCHANGED <<status, cancelRequests, cancels>>

\* The stop is seen between two rounds.
Round(w) ==
    /\ worker[w].at = "chatting" /\ ~worker[w].stop
    /\ worker[w].emitted < MaxEvents - 1
    /\ \E taken \in MayTake(w) : Becomes(w, Emits(worker[w], taken))
    /\ UNCHANGED <<status, cancelRequests, cancels>>

\* The chat raises a TypeError, and is taken for one without the parameter.
ChatAgain(w) ==
    /\ worker[w].at = "chatting" /\ ~worker[w].again
    /\ Becomes(w, [worker[w] EXCEPT !.at = "registered", !.again = TRUE])
    /\ UNCHANGED <<status, cancelRequests, cancels>>

\* A stopped chat ends as completed. The agent is no longer registered.
ChatEnds(w) ==
    /\ worker[w].at = "chatting"
    /\ \E taken \in MayTake(w), result \in {"completed", "failed", "blocked"} :
         /\ result = "blocked" => ~worker[w].stop
         /\ Becomes(w, Returns(Emits(worker[w], taken), result))
    /\ UNCHANGED <<status, cancelRequests, cancels>>

\* The completion brings the events the control plane did not take; without the
\* claim it is refused.
Complete(w) ==
    LET s == worker[w]
        late == (1..s.emitted) \ s.delivered
    IN
    /\ s.at = "returned"
    /\ IF Held(w)
       THEN /\ status' = [status EXCEPT ![s.run] = s.result]
            /\ cancelRequests' = cancelRequests \ {s.run}
            /\ Becomes(w, [s EXCEPT !.at = "settled", !.lease = "none",
                                    !.stored = [e \in Event |-> s.stored[e] +
                                                 IF e \in late THEN 1 ELSE 0]])
       ELSE Becomes(w, Idle) /\ UNCHANGED <<status, cancelRequests>>
    /\ UNCHANGED cancels

\* The session is told, and the thread looks for the next run.
Finalize(w) ==
    /\ worker[w].at = "settled"
    /\ Becomes(w, Idle)
    /\ UNCHANGED <<status, cancelRequests, cancels>>

\* The control plane fails under the completion: nothing catches it.
WorkerDies(w) ==
    /\ Faults /\ worker[w].at = "returned"
    /\ Becomes(w, [worker[w] EXCEPT !.at = "dead"])
    /\ UNCHANGED <<status, cancelRequests, cancels>>

-----------------------------------------------------------------------------
(* The thread that renews the lease, and the recovery of leases *)

\* The agent is asked to stop, if it is registered.
Stopped(s) == [s EXCEPT !.beat = FALSE, !.stop = @ \/ s.at \in Executing]

Heartbeat(w) ==
    LET s == worker[w] IN
    /\ s.beat
    /\ IF Held(w)
       THEN /\ status' = [status EXCEPT ![s.run] = IF @ = "dispatched" THEN "running" ELSE @]
            /\ LET renewed == [s EXCEPT !.lease = "live"] IN
               Becomes(w, IF s.run \in cancelRequests THEN Stopped(renewed) ELSE renewed)
       ELSE /\ Becomes(w, IF MissingStops \/ s.run \in cancelRequests
                          THEN Stopped(s) ELSE [s EXCEPT !.beat = FALSE])
            /\ UNCHANGED status
    /\ UNCHANGED <<cancelRequests, cancels>>

\* The control plane fails under a heartbeat: the thread ends.
HeartbeatDies(w) ==
    /\ Faults /\ worker[w].beat
    /\ Becomes(w, [worker[w] EXCEPT !.beat = FALSE])
    /\ UNCHANGED <<status, cancelRequests, cancels>>

\* A lease outlives twelve heartbeats, and the moment from the last of them to
\* the completion; a worker without heartbeats has one of 15 seconds.
Lapse(w) ==
    /\ worker[w].lease = "live" /\ ~worker[w].beat
    /\ w \in Beats => worker[w].at # "returned"
    /\ Becomes(w, [worker[w] EXCEPT !.lease = "lapsed"])
    /\ UNCHANGED <<status, cancelRequests, cancels>>

Recover(w) ==
    LET r == worker[w].run IN
    /\ worker[w].lease = "lapsed"
    /\ status' = [status EXCEPT ![r] = IF @ \in {"dispatched", "running"} THEN "queued" ELSE @]
    /\ cancelRequests' = IF status[r] \in {"dispatched", "running"}
                         THEN cancelRequests \ {r} ELSE cancelRequests
    /\ Becomes(w, [worker[w] EXCEPT !.lease = "none"])
    /\ UNCHANGED cancels

-----------------------------------------------------------------------------
Thread(w) ==
    \/ \E r \in Run : Claim(w, r)
    \/ Register(w) \/ ChatStart(w) \/ ChatEnds(w) \/ Complete(w) \/ Finalize(w)

Next ==
    \/ \E r \in Run : Submit(r) \/ Cancel(r) \/ StopActivation(r)
    \/ \E w \in Worker :
         \/ Thread(w) \/ CreateFails(w) \/ Round(w) \/ ChatAgain(w) \/ WorkerDies(w)
         \/ Heartbeat(w) \/ HeartbeatDies(w) \/ Lapse(w) \/ Recover(w)

\* Threads are scheduled, an agent answers in the end, and time passes for a
\* lease that nobody renews.
Fairness ==
    \A w \in Worker : WF_vars(Thread(w)) /\ WF_vars(Lapse(w)) /\ WF_vars(Recover(w))

Spec == Init /\ [][Next]_vars
FairSpec == Spec /\ Fairness

-----------------------------------------------------------------------------
\* An event the control plane took as it happened is not brought again by the
\* completion, and one it did not take is: each event of an execution that was
\* accepted is stored once.
EventsOnce ==
    \A w \in Worker, e \in Event :
        /\ worker[w].stored[e] <= 1
        /\ worker[w].at = "settled" => worker[w].stored[e] = IF e <= worker[w].emitted THEN 1 ELSE 0

\* A run that looks busy is held by a worker's lease, so that the recovery finds
\* it: neither a late event nor a late completion leaves it busy for nobody.
BusyIsHeld ==
    \A r \in Run : status[r] \in {"dispatched", "running"} =>
        Cardinality({w \in Worker : worker[w].run = r /\ Held(w)}) = 1

-----------------------------------------------------------------------------
(* These were checked with this module alone; no standing run lists them. *)

\* What a cancellation or a stop decided is not undone by the execution that
\* was still going on: only the next message starts the run again.
DecisionHolds ==
    [][\A r \in Run : status[r] \in Ended => status'[r] \in {status[r], "queued"}]_vars

\* A run that waits for a worker is executed to its end, whatever was cancelled.
Finishes == \A r \in Run : status[r] = "queued" ~> status[r] \in Ended

\* The lease of a worker that died goes, and its run waits for another.
Requeued ==
    \A w \in Worker : worker[w].at = "dead" ~> ~Held(w)

-----------------------------------------------------------------------------
(* What a document, a comment or a test says and the code does not keep:   *)
(* README.md tells what happens instead.                                   *)

\* A heartbeat that ends while the agent is at work leaves it asked to stop: the
\* claim is gone, or the run is cancelled.
EndedBeatStops ==
    [][\A w \in Worker : worker[w].beat /\ worker[w].at = "chatting" /\ ~worker'[w].beat
                           /\ worker'[w].at = "chatting" => worker'[w].stop]_vars

\* A request to stop is for the execution it reached: it is not forgotten before
\* the execution ends.
StopSurvives ==
    [][\A w \in Worker : worker[w].stop /\ worker'[w].at \in Executing => worker'[w].stop]_vars

\* A run is given to another execution only when the worker that has it is not
\* at work: there is no hidden limit on the time an agent takes.
WorkKeepsLease ==
    [][\A w \in Worker : worker[w].lease = "lapsed" /\ worker'[w].lease = "none"
          => worker[w].at \notin Executing]_vars
=============================================================================
