--------------------------- MODULE ActivationSteers ---------------------------
(***************************************************************************)
(* Input that users give to an activation while it is executed.  The       *)
(* control plane queues a steer, hands it to the worker in the response to *)
(* a heartbeat, and takes it for delivered when a later heartbeat of that  *)
(* worker names it.  The worker (Go: runner.runtimeHeartbeatLoop) passes   *)
(* steers on to the buffer of its executor, which uses what it finds there *)
(* between two turns.                                                      *)
(*                                                                         *)
(* The module follows one activation.  A heartbeat is one step of the      *)
(* server; its response is received or lost, since the worker gives a      *)
(* request up after 10 seconds, and a request under way may still reach    *)
(* the server when its worker has stopped.                                 *)
(***************************************************************************)
EXTENDS Naturals

CONSTANTS
    Steer,       \* what users want to say
    MaxClaims,   \* bound: claims of the activation
    MaxLost      \* bound: heartbeats whose response is lost

BoundAssumption == MaxClaims \in Nat /\ MaxLost \in Nat

Claim == 1..MaxClaims

VARIABLES
    activation,  \* what the server holds of it: queued, leased or ended
    holder,      \* the newest claim; it has a lease if activation is leased
    steer,       \* per steer its status, and the claim that delivers it
    worker,      \* per claim: none, running, finished, stopped
    pending,     \* per claim: steers received and not passed on
    named,       \* per claim: steers that its heartbeats name as delivered
    buffer,      \* per claim: steers that wait for the next turn
    used,        \* steers that a turn was started with
    lost

vars == <<activation, holder, steer, worker, pending, named, buffer, used,
          lost>>

TypeOK ==
    /\ activation \in {"queued", "leased", "ended"} /\ holder \in 0..MaxClaims
    /\ steer \in [Steer -> [status : {"absent", "queued"}, by : {0}]
                    \cup [status : {"delivering", "delivered"}, by : Claim]]
    /\ worker \in [Claim -> {"none", "running", "finished", "stopped"}]
    /\ pending \in [Claim -> SUBSET Steer] /\ named \in [Claim -> SUBSET Steer]
    /\ buffer \in [Claim -> SUBSET Steer] /\ used \subseteq Steer
    /\ lost \in 0..MaxLost

Init ==
    /\ activation = "queued" /\ holder = 0
    /\ steer = [s \in Steer |-> [status |-> "absent", by |-> 0]]
    /\ worker = [c \in Claim |-> "none"]
    /\ pending = [c \in Claim |-> {}] /\ named = [c \in Claim |-> {}]
    /\ buffer = [c \in Claim |-> {}]
    /\ used = {} /\ lost = 0

-----------------------------------------------------------------------------
(* The server.                                                             *)

Leased(c) == activation = "leased" /\ holder = c

\* claim_agent_run_activation.
ClaimActivation ==
    /\ activation = "queued" /\ holder < MaxClaims
    /\ activation' = "leased" /\ holder' = holder + 1
    /\ worker' = [worker EXCEPT ![holder + 1] = "running"]
    /\ UNCHANGED <<steer, pending, named, buffer, used, lost>>

\* append_activation_steer: needs an activation that a worker holds.
AppendSteer(s) ==
    /\ steer[s].status = "absent" /\ activation = "leased"
    /\ steer' = [steer EXCEPT ![s].status = "queued"]
    /\ UNCHANGED <<activation, holder, worker, pending, named, buffer, used,
                   lost>>

\* _claim_activation_steers_for_delivery_locked: a steer is offered once, and
\* not with the heartbeat that acknowledges it.
Offered(c) == {s \in Steer : /\ steer[s].status = "queued"
                             /\ s \notin named[c]}

\* _mark_activation_steers_delivered_locked: any steer that was not yet.
Acknowledged(c) ==
    {s \in named[c] : steer[s].status \in {"queued", "delivering"}}

\* The server's part of a heartbeat.
SteersAfterHeartbeat(c) ==
    [s \in Steer |->
        IF s \in Acknowledged(c) THEN [steer[s] EXCEPT !.status = "delivered"]
        ELSE IF s \in Offered(c) THEN [status |-> "delivering", by |-> c]
        ELSE steer[s]]

\* Mutant: recovery leaves the steers alone.
NotRequeued(c) == steer

\* _requeue_delivering_activation_steers_locked.
Requeued(c) ==
    [s \in Steer |-> IF steer[s] = [status |-> "delivering", by |-> c]
                     THEN [status |-> "queued", by |-> 0] ELSE steer[s]]

\* recover_stale_agent_runs: a lease lapses whatever its worker does.
Recover ==
    /\ activation = "leased"
    /\ activation' = "queued"
    /\ steer' = Requeued(holder)
    /\ UNCHANGED <<holder, worker, pending, named, buffer, used, lost>>

-----------------------------------------------------------------------------
(* The worker.                                                             *)

Beats(c) == worker[c] \in {"running", "finished"}

\* A heartbeat that is answered; a worker without a lease is told to stop.
Heartbeat(c) ==
    /\ Beats(c)
    /\ IF Leased(c)
       THEN /\ steer' = SteersAfterHeartbeat(c)
            /\ pending' = [pending EXCEPT ![c] = @ \cup Offered(c)]
            /\ UNCHANGED worker
       ELSE /\ worker' = [worker EXCEPT ![c] = "stopped"]
            /\ UNCHANGED <<steer, pending>>
    /\ UNCHANGED <<activation, holder, named, buffer, used, lost>>

\* A heartbeat whose response does not arrive.
HeartbeatLost(c) ==
    /\ worker[c] # "none" /\ Leased(c) /\ lost < MaxLost
    /\ steer' = SteersAfterHeartbeat(c)
    /\ lost' = lost + 1
    /\ UNCHANGED <<activation, holder, worker, pending, named, buffer, used>>

\* deliverPendingActivationSteers: the executor's buffer takes a steer, and
\* the next heartbeat names it.
PassOn(c, s) ==
    /\ Beats(c) /\ s \in pending[c]
    /\ pending' = [pending EXCEPT ![c] = @ \ {s}]
    /\ buffer' = [buffer EXCEPT ![c] = @ \cup {s}]
    /\ named' = [named EXCEPT ![c] = @ \cup {s}]
    /\ UNCHANGED <<activation, holder, steer, worker, used, lost>>

\* SubprocessBackend.Execute: a turn ends; what is in the buffer is the prompt
\* of the next one.  Without it, or when the turn failed, which leaves what is
\* in the buffer unused, the executor has finished.  Its buffer takes steers a
\* little longer.
TurnEnds(c) ==
    /\ worker[c] = "running"
    /\ buffer' = [buffer EXCEPT ![c] = {}]
    /\ \/ /\ buffer[c] # {}
          /\ used' = used \cup buffer[c]
          /\ UNCHANGED worker
       \/ /\ worker' = [worker EXCEPT ![c] = "finished"]
          /\ UNCHANGED used
    /\ UNCHANGED <<activation, holder, steer, pending, named, lost>>

\* The worker completes its activation, or finds that it no longer has it.
Complete(c) ==
    /\ worker[c] = "finished"
    /\ worker' = [worker EXCEPT ![c] = "stopped"]
    /\ activation' = IF Leased(c) THEN "ended" ELSE activation
    /\ UNCHANGED <<holder, steer, pending, named, buffer, used, lost>>

Crash(c) ==
    /\ Beats(c)
    /\ worker' = [worker EXCEPT ![c] = "stopped"]
    /\ UNCHANGED <<activation, holder, steer, pending, named, buffer, used,
                   lost>>

-----------------------------------------------------------------------------
Next ==
    \/ ClaimActivation \/ Recover
    \/ \E s \in Steer : AppendSteer(s)
    \/ \E c \in Claim : \/ Heartbeat(c) \/ HeartbeatLost(c)
                        \/ \E s \in Steer : PassOn(c, s)
                        \/ TurnEnds(c) \/ Complete(c) \/ Crash(c)

Spec == Init /\ [][Next]_vars

\* Heartbeats are sent every few seconds, the buffer of an executor takes
\* steers at any time, executors end, and stale leases are recovered, and
\* activations claimed, by threads that never stop.
LiveSpec ==
    /\ Spec
    /\ WF_vars(ClaimActivation)
    /\ WF_vars(Recover /\ ~Beats(holder))
    /\ \A c \in Claim :
        /\ WF_vars(Heartbeat(c))
        /\ \A s \in Steer : WF_vars(PassOn(c, s))

-----------------------------------------------------------------------------
(* Properties.                                                             *)

\* A steer that is being delivered is delivered by the worker that has the
\* lease: no steer is left behind with a worker that lost it.
DeliveredByHolder ==
    \A s \in Steer : (steer[s].status = "delivering" /\ activation # "ended")
                        => Leased(steer[s].by)

\* A steer counts as delivered only if an executor took it, however responses
\* are lost and leases change hands.
DeliveredWasTaken ==
    \A s \in Steer : steer[s].status = "delivered" =>
        \E c \in Claim : s \in named[c]

\* A steer is passed on to an executor or the activation ends, however often
\* workers die, unless the response of a heartbeat is lost.
IsPassedOn(s) ==
    steer[s].status = "queued"
        ~> \/ \E c \in DOMAIN named : s \in named[c]
           \/ activation = "ended" \/ holder = MaxClaims \/ lost > 0
SteerIsPassedOn == \A s \in Steer : IsPassedOn(s)

-----------------------------------------------------------------------------
(* What a document, a comment or a test says and the code does not keep:   *)
(* README.md tells what happens instead.                                   *)

\* An activation that ends has passed on what it was offered.
SteerIsResent ==
    [][activation = "leased" /\ activation' = "ended" =>
          \A s \in Steer : steer[s].status = "delivering"
                              => s \in named[holder] \cup pending[holder]]_vars

\* A steer that was acknowledged has been used when the activation ends.
DeliveredIsConsumed ==
    activation = "ended" =>
        \A s \in Steer : steer[s].status = "delivered" => s \in used
=============================================================================
