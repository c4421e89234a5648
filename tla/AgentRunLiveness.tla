-------------------------- MODULE AgentRunLiveness --------------------------
(***************************************************************************)
(* What must eventually happen in the AgentRun control plane, and the      *)
(* fairness under which it does.                                           *)
(*                                                                         *)
(* To the control plane this module adds the answers of its heartbeats: a  *)
(* worker that reads that its run is to be cancelled, or that its claim is *)
(* refused, is told, and cancels its executor.                             *)
(*                                                                         *)
(* Calls are those of the agent tool to runs that could be submitted, and  *)
(* again to a thread whose run has completed, with the wait the thread was *)
(* created with if SameWait.  Executors report no approval or blocked      *)
(* status of their own: the ones of this repository complete or fail.      *)
(* Revisions are asked of capability ingests, which nobody calls.          *)
(***************************************************************************)
EXTENDS AgentRunControlPlane

CONSTANT SameWait  \* a thread is called again with the wait of its first call

ASSUME SameWaitAssumption == SameWait \in BOOLEAN

VARIABLE told      \* workers whose executor was cancelled by a heartbeat's answer

liveVars == <<vars, told>>

LiveInit == Init /\ told = {}

\* Broken variant of CancelRequested: a renewed claim is all that is answered.
NothingRequested(c) == FALSE

\* cancel_requested in the answer to a claim that holds.
CancelRequested(c) == claim[c].run \in cancelRequests

\* A heartbeat and its answer.  A claim that does not hold is refused.  The
\* heartbeat loop of a worker that was told has returned.
HeartbeatAnswered(c) ==
    /\ c \in working \ told
    /\ \/ /\ Heartbeat(c)
          /\ told' = IF CancelRequested(c) THEN told \cup {c} ELSE told
       \/ /\ c \notin leased
          /\ told' = told \cup {c}
          /\ UNCHANGED vars

\* The answer is lost, or comes too late: the worker logs it and goes on.
HeartbeatUnanswered(c) == c \notin told /\ Heartbeat(c)

\* A worker that was told ends: its executor was cancelled, and it completes
\* its activation, or is refused and gives up.
ToldWorkerEnds(c) ==
    /\ c \in told
    /\ \/ \E result \in Result : Complete(c, result, FALSE)
       \/ c \notin leased /\ WorkerStops(c)

\* The steps that no worker is told anything by.
PlainStep ==
    \/ \E r \in Run : Submit(r, TRUE)
    \/ \E k \in WorkerKind : ClaimActivation(k)
    \/ \E c \in Claim :
        \/ HeartbeatUnanswered(c)
        \/ ReportRunning(c)
        \/ \E result \in Result : Complete(c, result, FALSE)
        \/ \E r \in Run, persistent, wait \in BOOLEAN :
                SubmitAgentCall(c, r, persistent, wait, TRUE)
        \/ \E r \in Run, wait \in BOOLEAN :
                /\ status[r] = "completed"
                /\ SameWait => wait = relation[r].wait
                /\ FindThread(c, r, wait)
        \/ WorkerStops(c)
        \/ c \notin working /\ LeaseLapses(c)
    \/ \E x \in calling : CallStep(x)
    \/ RecoverStale
    \/ \E r \in Run : Cancel(r)
    \/ \E r \in Run : relation[r].owner = NoRun /\ AppendReviewFeedback(r)

LiveNext ==
    \/ \E c \in Claim : HeartbeatAnswered(c)
    \/ PlainStep /\ told' = told \cap working'

-----------------------------------------------------------------------------
(***************************************************************************)
(* The server's recovery thread runs recover_stale_agent_runs every few    *)
(* seconds and workers poll claim_agent_run_activation.  A worker that     *)
(* stopped sends no heartbeat, so its lease passes its deadline.  One that *)
(* is alive sends heartbeats in time from a goroutine of its own, of which *)
(* some is answered, and finishes the tool call it is in; when it was told *)
(* and has cancelled its executor, it ends, within the lease it renewed.   *)
(* That an executor ends by itself is not assumed here.                    *)
(***************************************************************************)
CallAdvances(c) == \E x \in calling : x.by = c /\ CallStep(x)

LiveSpec ==
    /\ LiveInit /\ [][LiveNext]_liveVars
    /\ WF_vars(RecoverStale)
    /\ \A k \in WorkerKind : WF_vars(ClaimActivation(k))
    /\ \A c \in Claim :
        /\ WF_vars(c \notin working /\ LeaseLapses(c))
        /\ WF_vars(CallAdvances(c))
        /\ WF_liveVars(HeartbeatAnswered(c))
        /\ WF_vars(ToldWorkerEnds(c))

\* The bounds of the model were reached, so that a queued run is not claimed
\* or a parked run not continued.
Exhausted == issued = MaxClaims \/ \E r \in Run : current[r] = MaxSeq

\* The worker of a run is lost when none of its claims has an executor left.
Lost(r) ==
    status[r] \in {"dispatched", "running"} /\ ClaimsOf(r) \cap working = {}

\* recover_stale_agent_runs takes a run whose worker died back: it does not
\* stay DISPATCHED or RUNNING.
LostRunIsRecovered == \A r \in Run : Lost(r) ~> ~Lost(r)

\* Executors do not work for ever.
ExecutorsEnd ==
    \A c \in Claim : WF_vars(\E result \in Result : Complete(c, result, FALSE))

\* A caller that mark_agent_call_waiting parked does not wait for ever if
\* executors end: the run it called ends, reports, and the caller is queued
\* again.
AgentCallAnswered ==
    ExecutorsEnd =>
        \A r \in Run : waiting[r] = "agent_call" ~>
                            (waiting[r] # "agent_call" \/ Exhausted)

\* A cancel that found a worker reaches it, although its executor would go on
\* for ever: a heartbeat is answered with cancel_requested, or with a refusal if
\* the claim went meanwhile, and the worker ends.
CancelReachesWorker ==
    \A c \in Claim :
        c \in working \cap leased /\ claim[c].run \in cancelRequests ~>
            (c \notin working \/ Exhausted)

\* Every cancellation that was accepted stops its run, also one of a run that
\* is parked and has no worker to read the request.
CancelTakesEffect ==
    \A r \in Run : r \in cancelRequests ~> (r \notin cancelRequests \/ Exhausted)
=============================================================================
