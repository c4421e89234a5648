------------------------ MODULE AgentRunControlPlane ------------------------
(***************************************************************************)
(* The AgentRun control plane of the Labrastro server in its in-memory     *)
(* mode (labrastro_server/services/agent_runtime/control_plane.py): the    *)
(* life of an AgentRun through its activations, the worker claims and      *)
(* leases under which an activation executes, cancellation, the recovery   *)
(* of expired leases, and calls from one AgentRun to another.              *)
(*                                                                         *)
(* Every public method of the class takes the control plane's lock, so one *)
(* method is one action.  What interleaves is the methods: HTTP handlers,  *)
(* the recovery thread, workers whose lease is gone but which still run,   *)
(* and the two separate critical sections of an agent call (submit the     *)
(* called run, then mark the caller as waiting).                           *)
(*                                                                         *)
(* Left out: prompts, outputs, event log, artifacts, grants, worktree      *)
(* files, steers, session-run bindings and the sandbox provider.           *)
(* A worker's identity is its claim: a call that does not present the      *)
(* owner of a live claim is answered with an error and changes nothing.    *)
(***************************************************************************)
EXTENDS Naturals, FiniteSets

CONSTANTS
    Run,             \* AgentRuns, numbered in submission order
    MaxSeq,          \* bound: activations of one run
    MaxClaims,       \* bound: claims handed out in one behaviour
    MaxReviews,      \* bound: pending review feedback of one run
    MaxCalls,        \* bound: agent calls in progress at the same time
    WorkerKind,      \* what a worker offers: kind, features and workspace
    KindOf,          \* what each run needs of the worker that claims it
    Slot,            \* runtime slot classes
    SlotsOf,         \* the slots a run occupies while it is running
    SlotLimit,       \* running AgentRuns allowed per slot class
    SandboxRuns,     \* runs whose profile asks for a sandbox worker
    BackgroundRuns,  \* runs whose source may not wait for an approval
    EnvironmentRuns  \* runs under the environment-configuration policy

NoRun == 0
Claim == 1..MaxClaims
Seq1  == 1..MaxSeq

ASSUME RunAssumption == Run \subseteq Nat \ {0} /\ IsFiniteSet(Run)

ASSUME BoundAssumption ==
    /\ MaxSeq \in Nat \ {0}
    /\ MaxClaims \in Nat /\ MaxReviews \in Nat /\ MaxCalls \in Nat

ASSUME SlotAssumption ==
    /\ KindOf \in [Run -> WorkerKind]
    /\ SlotsOf \in [Run -> SUBSET Slot]
    /\ SlotLimit \in [Slot -> Nat]

VARIABLES
    status,          \* AgentRun.status
    waiting,         \* AgentRun.waiting_reason
    current,         \* sequence number of AgentRun.current_activation_id
    activation,      \* status of each activation record of each run
    relation,        \* the run that called this one, and whether it waits
    callFeedback,    \* unconsumed agent-call feedback that requires activation
    reviewFeedback,  \* unconsumed other feedback that requires activation
    violating,       \* runs with a recorded environment policy violation
    sandboxed,       \* runs with a sandbox session
    thread,          \* status of the thread binding whose target the run is
    cancelRequests,  \* _cancel_requests
    issued,          \* number of claims handed out so far
    claim,           \* run and activation each claim was handed out for
    leased,          \* claims present in _claims and _claim_leases
    lapsed,          \* leases whose deadline has passed
    working,         \* claims whose executor has neither returned nor died
    calling,         \* agent tool calls between two of their steps
    overtaken        \* history: runs given a new activation under a live lease

runVars  == <<status, waiting, current, activation>>
callVars == <<relation, callFeedback, reviewFeedback, violating, sandboxed>>
leaseVars == <<issued, claim, leased, lapsed, overtaken>>
vars == <<runVars, callVars, thread, cancelRequests, leaseVars, working,
          calling>>

-----------------------------------------------------------------------------
\* Statuses.

RunStatus == {"absent", "queued", "dispatched", "running", "waiting",
              "completed", "failed", "cancelled", "blocked"}
WaitingReason == {"none", "agent_call", "user_approval", "server_processing"}
Result == {"completed", "failed", "cancelled", "blocked"}

\* Statuses that occupy a runtime slot and that an expired lease requeues.
OccupyingStatus == {"dispatched", "running", "waiting"}

\* AgentRun.is_terminal.
TerminalStatus == {"completed", "failed", "cancelled", "blocked"}

\* Ends no worker may add to: BLOCKED is terminal too, but an executor event
\* reaches it while the worker keeps its claim.
ClosedStatus == {"completed", "failed", "cancelled"}

EndedActivation == {"completed", "failed", "cancelled", "blocked"}

ClaimsOf(r) == {c \in leased : claim[c].run = r}

Occupying(s) == {r \in Run : status[r] \in OccupyingStatus /\ s \in SlotsOf[r]}

\* Every slot class the run needs has room.
SlotsAllow(r) == \A s \in SlotsOf[r] : Cardinality(Occupying(s)) < SlotLimit[s]

\* What continue_agent_run accepts.
ContinuableStatus == {"completed", "waiting", "blocked"}

ThreadStatus == {"none", "active", "ended"}

\* Runs with an activation to come or going on.
ActiveStatus == {"queued", "dispatched", "running", "waiting"}

\* A call by the worker of claim c of the run r, whether it will wait, and what
\* it does next: store the thread binding, continue the run of a thread it
\* found, or mark the caller as waiting.
Call(c, r, wait, step) == [by |-> c, called |-> r, wait |-> wait, step |-> step]
AgentCall == [by : working, called : Run, wait : BOOLEAN,
              step : {"bind", "continue", "mark"}]

\* What is left to do once the called run is on its way.
MarkIf(wait, c, r) == IF wait THEN {Call(c, r, wait, "mark")} ELSE {}

\* Runs that `r` called, directly or through other runs, and `r` itself.
CallTree(r) ==
    LET under[d \in Run] ==
            d = r \/ (relation[d].owner \in Run /\ under[relation[d].owner])
    IN  {d \in Run : under[d]}
-----------------------------------------------------------------------------
Init ==
    /\ status = [r \in Run |-> "absent"]
    /\ waiting = [r \in Run |-> "none"]
    /\ current = [r \in Run |-> 1]  \* the first activation of every run
    /\ activation = [r \in Run |-> [s \in Seq1 |-> "absent"]]
    /\ relation = [r \in Run |-> [owner |-> NoRun, wait |-> FALSE]]
    /\ callFeedback = [r \in Run |-> 0]
    /\ reviewFeedback = [r \in Run |-> 0]
    /\ violating = {}
    /\ sandboxed = {}
    /\ thread = [r \in Run |-> "none"]
    /\ cancelRequests = {}
    /\ issued = 0
    /\ claim = [c \in Claim |-> [run |-> NoRun, seq |-> 0]]
    /\ leased = {}
    /\ lapsed = {}
    /\ working = {}
    /\ calling = {}
    /\ overtaken = {}

\* Only runs that still hold a lease stay marked as overtaken.
StillLeased(S, held) == {r \in S : \E c \in held : claim[c].run = r}

\* Broken variant of NextSeq: the current activation is queued again.
SameSeq(s) == s

\* The number of the activation after the one numbered s.
NextSeq(s) == s + 1

\* continue_agent_run: a fresh activation after the current one, whatever
\* claims and cancel requests the run still has.
QueueNextActivation(r) ==
    /\ current[r] < MaxSeq
    /\ status' = [status EXCEPT ![r] = "queued"]
    /\ waiting' = [waiting EXCEPT ![r] = "none"]
    /\ current' = [current EXCEPT ![r] = NextSeq(@)]
    /\ activation' = [activation EXCEPT ![r][NextSeq(current[r])] = "queued"]
    /\ overtaken' = StillLeased(overtaken \cup {r}, leased)

\* Broken variant of Reports: nobody is told of a run that had no worker.
ReportsOfExecuted(ended, o) ==
    {r \in ended : /\ relation[r].owner = o /\ relation[r].wait
                   /\ status[r] # "queued"}

\* Runs of `ended` whose end is fed back to `o` as feedback that requires
\* activation.
Reports(ended, o) ==
    {r \in ended : relation[r].owner = o /\ relation[r].wait}

(***************************************************************************)
(* The tail shared by everything that ends runs: the runs of `ended`       *)
(* report to the runs that called them, then a caller that is parked on an *)
(* agent call, with its own activation over, consumes one report and gets  *)
(* a new activation.  `self` is the run that is completing, which looks at *)
(* its own pending reports too.  st, wr, cur and act are the run rows and  *)
(* `held` the live leases when the reports are made.                       *)
(***************************************************************************)
\* Broken variant of Resumed: only a report made now wakes the caller, not one
\* that came while the caller was still executing.
ResumedByReportOnly(ended, self, st, wr, cur, act) ==
    {o \in Run :
        /\ st[o] = "waiting" /\ wr[o] = "agent_call"
        /\ act[o][cur[o]] \in EndedActivation
        /\ Reports(ended, o) # {}}

\* Broken variant of Resumed: nobody looks whether there is a report at all.
ResumedWithoutReport(ended, self, st, wr, cur, act) ==
    {o \in Run :
        /\ st[o] = "waiting" /\ wr[o] = "agent_call"
        /\ act[o][cur[o]] \in EndedActivation}

\* Parked callers with their activation over and a report at hand.
Resumed(ended, self, st, wr, cur, act) ==
    {o \in Run :
        /\ st[o] = "waiting"
        /\ wr[o] = "agent_call"
        /\ act[o][cur[o]] \in EndedActivation
        /\ \/ Reports(ended, o) # {}
           \/ o \in self /\ callFeedback[o] > 0}

Settle(ended, self, st, wr, cur, act, held) ==
    LET resumed == Resumed(ended, self, st, wr, cur, act) IN
    /\ \A o \in resumed : cur[o] < MaxSeq
    /\ status' = [o \in Run |-> IF o \in resumed THEN "queued" ELSE st[o]]
    /\ waiting' = [o \in Run |-> IF o \in resumed THEN "none" ELSE wr[o]]
    /\ current' = [o \in Run |-> IF o \in resumed THEN NextSeq(cur[o]) ELSE cur[o]]
    /\ activation' = [o \in Run |->
            IF o \in resumed THEN [act[o] EXCEPT ![NextSeq(cur[o])] = "queued"]
                             ELSE act[o]]
    /\ callFeedback' = [o \in Run |->
            callFeedback[o] + Cardinality(Reports(ended, o))
                - IF o \in resumed THEN 1 ELSE 0]
    /\ leased' = held
    /\ lapsed' = lapsed \cap held
    /\ overtaken' = StillLeased(overtaken \cup resumed, held)
    /\ UNCHANGED <<issued, claim>>

\* Broken variants of ClearClaims and ClearCancel: the end of a run leaves its
\* leases, or its cancel request, in place.
ClaimsKept(r) == leased
CancelKept(r) == cancelRequests

\* _clear_task_claims: the leases left when those of `r` go.
ClearClaims(r) == leased \ ClaimsOf(r)

\* _cancel_requests.pop.
ClearCancel(r) == cancelRequests \ {r}

\* Broken variant of ThreadsEnd: bindings are not cleaned up.
ThreadsSurvive(S) == UNCHANGED thread

\* _cleanup_bindings_for_terminal_task: the threads of runs that ended
\* otherwise than COMPLETED become unavailable.
ThreadsEnd(S) ==
    thread' = [o \in Run |->
                IF o \in S /\ thread[o] = "active" THEN "ended" ELSE thread[o]]
-----------------------------------------------------------------------------
\* Submission.

\* submit_agent_run, which stores the run as FAILED, without telling anyone,
\* when its sandbox session could not be started.
AddRun(r, owner, wait, started) ==
    /\ status[r] = "absent"
    /\ \A p \in Run : p < r => status[p] # "absent"
    /\ started \/ r \in SandboxRuns
    /\ status' = [status EXCEPT ![r] = IF started THEN "queued" ELSE "failed"]
    /\ activation' = [activation EXCEPT ![r][1] = "queued"]
    /\ relation' = [relation EXCEPT ![r] = [owner |-> owner, wait |-> wait]]
    /\ sandboxed' = IF started /\ r \in SandboxRuns THEN sandboxed \cup {r}
                                                    ELSE sandboxed
    /\ UNCHANGED <<waiting, current, callFeedback, reviewFeedback, violating,
                   thread, cancelRequests, leaseVars, working>>

Submit(r, started) ==
    /\ AddRun(r, NoRun, FALSE, started)
    /\ UNCHANGED calling

\* The agent tool, first critical section.  The executor need not hold its
\* lease any more: nothing checks it.  Tool calls of one turn run in parallel.
SubmitAgentCall(c, r, persistent, wait, started) ==
    /\ c \in working
    /\ Cardinality(calling) < MaxCalls
    /\ AddRun(r, claim[c].run, wait, started)
    /\ calling' = calling \cup IF persistent THEN {Call(c, r, wait, "bind")}
                                             ELSE MarkIf(wait, c, r)

\* upsert_agent_thread_binding, in a critical section of its own: what became
\* of the called run since its submission is not looked at.
BindThread(x) ==
    /\ x \in calling /\ x.step = "bind"
    /\ thread' = [thread EXCEPT ![x.called] = "active"]
    /\ calling' = (calling \ {x}) \cup MarkIf(x.wait, x.by, x.called)
    /\ UNCHANGED <<runVars, callVars, cancelRequests, leaseVars, working>>

\* call_persistent_agent on a thread that exists, which is not busy.
FindThread(c, r, wait) ==
    /\ c \in working
    /\ Cardinality(calling) < MaxCalls
    /\ thread[r] = "active" /\ relation[r].owner = claim[c].run
    /\ status[r] \notin ActiveStatus
    /\ calling' = calling \cup {Call(c, r, wait, "continue")}
    /\ UNCHANGED <<runVars, callVars, thread, cancelRequests, leaseVars, working>>

\* Then, in a critical section of its own, its run is continued, or the call
\* fails because the run is not continuable (any more).  The relation keeps the
\* wait of the call that created the thread.
ContinueThread(x) ==
    /\ x \in calling /\ x.step = "continue"
    /\ \/ /\ status[x.called] \in ContinuableStatus
          /\ QueueNextActivation(x.called)
          /\ calling' = (calling \ {x}) \cup MarkIf(x.wait, x.by, x.called)
       \/ /\ status[x.called] \notin ContinuableStatus
          /\ calling' = calling \ {x}
          /\ UNCHANGED <<runVars, overtaken>>
    /\ UNCHANGED <<callVars, thread, cancelRequests, issued, claim, leased,
                   lapsed, working>>

\* mark_agent_call_waiting, the last critical section: the caller is parked
\* whatever became of it, or of its claim, in between.
MarkAgentCallWaiting(x) ==
    LET r == claim[x.by].run IN
    /\ x \in calling /\ x.step = "mark"
    /\ calling' = calling \ {x}
    /\ IF status[r] \in TerminalStatus
       THEN UNCHANGED <<status, waiting>>
       ELSE /\ status' = [status EXCEPT ![r] = "waiting"]
            /\ waiting' = [waiting EXCEPT ![r] = "agent_call"]
    /\ UNCHANGED <<current, activation, callVars, thread, cancelRequests,
                   leaseVars, working>>
-----------------------------------------------------------------------------
\* Claims and leases.

\* Broken variant of ReadyRuns: a run stays claimable until its worker is heard.
ReadyUntilHeard(k) ==
    {r \in Run : /\ status[r] \in {"queued", "dispatched"} /\ KindOf[r] = k
                 /\ SlotsAllow(r)}

\* The queued runs a worker of kind k may take.
ReadyRuns(k) ==
    {r \in Run : status[r] = "queued" /\ KindOf[r] = k /\ SlotsAllow(r)}

\* _claim_task_once: the oldest queued run that matches the worker and whose
\* slots are free.  It recovers expired leases first, so none is left when it
\* looks.
ClaimActivation(k) ==
    LET c == issued + 1 IN
    /\ lapsed = {}
    /\ c \in Claim
    /\ \E r \in ReadyRuns(k) :
        /\ \A p \in ReadyRuns(k) : r <= p
        /\ status' = [status EXCEPT ![r] = "dispatched"]
        /\ activation' = [activation EXCEPT ![r][current[r]] = "dispatched"]
        /\ claim' = [claim EXCEPT ![c] = [run |-> r, seq |-> current[r]]]
    /\ issued' = c
    /\ leased' = leased \cup {c}
    /\ working' = working \cup {c}
    /\ UNCHANGED <<waiting, current, callVars, thread, cancelRequests, lapsed,
                   calling, overtaken>>

\* heartbeat_agent_run_activation, which renews the lease even when its
\* deadline has passed, as long as it has not been recovered.  What its answer
\* tells the worker is in AgentRunLiveness: here a worker may end at any time.
Heartbeat(c) ==
    LET r == claim[c].run IN
    /\ c \in working \cap leased
    /\ lapsed' = lapsed \ {c}
    /\ status' = [status EXCEPT ![r] = IF @ = "dispatched" THEN "running" ELSE @]
    /\ activation' = [activation EXCEPT ![r][claim[c].seq] = "running"]
    /\ UNCHANGED <<waiting, current, callVars, thread, cancelRequests, issued,
                   claim, leased, overtaken, working, calling>>

\* pin_claimed_activation_session.
PinSession(c) ==
    LET r == claim[c].run IN
    /\ c \in working \cap leased
    /\ status' = [status EXCEPT ![r] = "running"]
    /\ waiting' = [waiting EXCEPT ![r] = "none"]
    /\ activation' = [activation EXCEPT ![r][claim[c].seq] = "running"]
    /\ UNCHANGED <<current, callVars, thread, cancelRequests, leaseVars, working,
                   calling>>

\* append_executor_event, for the events that move the run: the worker keeps
\* its claim, also when the run becomes BLOCKED.
ExecutorStatus(c, st, reason) ==
    LET r == claim[c].run IN
    /\ c \in working \cap leased
    /\ status' = [status EXCEPT ![r] = st]
    /\ waiting' = [waiting EXCEPT ![r] = reason]
    /\ UNCHANGED <<current, activation, relation, callFeedback, reviewFeedback,
                   sandboxed, thread, cancelRequests, leaseVars, working,
                   calling>>

ReportRunning(c) ==
    ExecutorStatus(c, "running", "none") /\ UNCHANGED violating

ReportBlocked(c) ==
    ExecutorStatus(c, "blocked", "none") /\ UNCHANGED violating

ReportWaitingApproval(c) ==
    /\ IF claim[c].run \in BackgroundRuns
       THEN ExecutorStatus(c, "blocked", "none")
       ELSE ExecutorStatus(c, "waiting", "user_approval")
    /\ UNCHANGED violating

ReportPolicyViolation(c) ==
    /\ claim[c].run \in EnvironmentRuns
    /\ ExecutorStatus(c, "blocked", "none")
    /\ violating' = violating \cup {claim[c].run}

\* The clock: a lease not renewed in time passes its deadline.
LeaseLapses(c) ==
    /\ c \in leased \ lapsed
    /\ lapsed' = lapsed \cup {c}
    /\ UNCHANGED <<runVars, callVars, thread, cancelRequests, issued, claim,
                   leased, overtaken, working, calling>>

\* A worker dies, or notices that its claim is gone and gives up.
WorkerStops(c) ==
    /\ c \in working
    /\ working' = working \ {c}
    /\ calling' = {x \in calling : x.by # c}
    /\ UNCHANGED <<runVars, callVars, thread, cancelRequests, leaseVars>>

\* Broken variant of StaleRuns: runs whose worker was never heard are left out.
StaleHeardRuns ==
    {r \in Run : status[r] \in {"running", "waiting"}
                    /\ \E c \in lapsed : claim[c].run = r}

\* The runs that an expired lease requeues.
StaleRuns ==
    {r \in Run : status[r] \in OccupyingStatus
                    /\ \E c \in lapsed : claim[c].run = r}

\* recover_stale_agent_runs: all expired leases go; a run that occupies a slot
\* returns to the queue on the activation of its first expired lease, and its
\* cancel request is dropped.
RecoverStale ==
    LET first(r) == CHOOSE c \in lapsed :
                        /\ claim[c].run = r
                        /\ \A d \in lapsed : claim[d].run = r => c <= d
    IN
    /\ lapsed # {}
    /\ status' = [r \in Run |-> IF r \in StaleRuns THEN "queued" ELSE status[r]]
    /\ waiting' = [r \in Run |-> IF r \in StaleRuns THEN "none" ELSE waiting[r]]
    /\ current' = [r \in Run |->
            IF r \in StaleRuns THEN claim[first(r)].seq ELSE current[r]]
    /\ activation' = [r \in Run |->
            IF r \in StaleRuns
            THEN [activation[r] EXCEPT ![claim[first(r)].seq] = "queued"]
            ELSE activation[r]]
    /\ cancelRequests' = cancelRequests \ StaleRuns
    /\ leased' = leased \ lapsed
    /\ lapsed' = {}
    /\ overtaken' = StillLeased(overtaken, leased \ lapsed)
    /\ UNCHANGED <<callVars, thread, issued, claim, working, calling>>
-----------------------------------------------------------------------------
\* Completion.

\* What pending required feedback makes a finished run wait for.
FeedbackReasons(r) ==
    (IF callFeedback[r] > 0 THEN {"agent_call"} ELSE {})
        \cup (IF reviewFeedback[r] > 0 THEN {"server_processing"} ELSE {})

\* complete_claimed_agent_run_activation: the activation of the worker's lease
\* becomes the current one and is ended with `result`; `violates` says that the
\* result reports an environment policy violation.  All claims of the run go.
Complete(c, result, violates) ==
    LET r == claim[c].run
        cur == [current EXCEPT ![r] = claim[c].seq]
        act == [activation EXCEPT ![r][claim[c].seq] = result]
        broken == violates \/ r \in violating
        parks == /\ result = "completed" /\ ~broken
                 /\ status[r] = "waiting" \/ FeedbackReasons(r) # {}
        end == IF broken THEN "blocked" ELSE result
        held == ClearClaims(r)
    IN
    /\ c \in working \cap leased
    /\ \A x \in calling : x.by # c
    /\ violates => r \in EnvironmentRuns
    /\ violating' = IF violates THEN violating \cup {r} ELSE violating
    /\ \/ /\ parks
          /\ \E reason \in IF status[r] = "waiting" THEN {waiting[r]}
                                                    ELSE FeedbackReasons(r) :
                Settle({}, {r}, [status EXCEPT ![r] = "waiting"],
                       [waiting EXCEPT ![r] = reason], cur, act, held)
          /\ UNCHANGED thread
       \/ /\ ~parks
          /\ Settle({r}, {}, [status EXCEPT ![r] = end],
                    [waiting EXCEPT ![r] = "none"], cur, act, held)
          /\ ThreadsEnd(IF end = "completed" THEN {} ELSE {r})
    /\ cancelRequests' = ClearCancel(r)
    /\ working' = working \ {c}
    /\ UNCHANGED <<relation, reviewFeedback, sandboxed, calling>>
-----------------------------------------------------------------------------
\* Continuation, cancellation and stop.

\* append_agent_run_feedback with requires_activation, used for revisions.
AppendReviewFeedback(r) ==
    /\ status[r] # "absent"
    /\ reviewFeedback[r] < MaxReviews
    /\ reviewFeedback' = [reviewFeedback EXCEPT ![r] = @ + 1]
    /\ UNCHANGED <<runVars, relation, callFeedback, violating, sandboxed, thread,
                   cancelRequests, leaseVars, working, calling>>

\* continue_agent_run; `consumed` is 1 when it names a pending review feedback.
Continue(r, consumed) ==
    /\ status[r] \in ContinuableStatus
    /\ consumed <= reviewFeedback[r]
    /\ QueueNextActivation(r)
    /\ reviewFeedback' = [reviewFeedback EXCEPT ![r] = @ - consumed]
    /\ UNCHANGED <<relation, callFeedback, violating, sandboxed, thread,
                   cancelRequests, issued, claim, leased, lapsed, working,
                   calling>>

\* retry_agent_run, an administrator's continuation, also of a closed run.
Retry(r) ==
    /\ status[r] \in ContinuableStatus \cup ClosedStatus
    /\ QueueNextActivation(r)
    /\ UNCHANGED <<callVars, thread, cancelRequests, issued, claim, leased,
                   lapsed, working, calling>>

\* Broken variant of Open: a run that has ended is taken for one that has not.
Submitted(r) == status[r] # "absent"

Open(r) == status[r] \notin TerminalStatus \cup {"absent"}

\* Those of a set of open runs that _cancel_task_locked ends at once: nobody
\* executes them, or a sandbox that it stops does.
EndsAtOnce(open) == {d \in open : status[d] = "queued" \/ d \in sandboxed}

\* The others have a worker, which is asked to stop.
CancelRuns(open) ==
    LET ended == EndsAtOnce(open) IN
    /\ Settle(ended, {},
              [d \in Run |-> IF d \in ended THEN "cancelled" ELSE status[d]],
              [d \in Run |-> IF d \in ended THEN "none" ELSE waiting[d]],
              current, activation,
              {c \in leased : claim[c].run \notin ended})
    /\ cancelRequests' = (cancelRequests \cup open) \ ended
    /\ UNCHANGED <<relation, reviewFeedback, violating, sandboxed, working,
                   calling>>

\* cancel_agent_run, with the cascade to every run called from `r`.
Cancel(r) ==
    LET open == {d \in CallTree(r) : Open(d)} IN
    /\ Open(r)
    /\ CancelRuns(open)
    /\ ThreadsEnd(EndsAtOnce(open))

\* A thread binding is closed, marked unavailable or deleted, with or without
\* cancelling its target; runs the target called are not cancelled.
EndThread(r, cancel) ==
    /\ thread[r] # "none"
    /\ thread' = [thread EXCEPT ![r] = "ended"]
    /\ CancelRuns({d \in {r} : cancel /\ Open(d)})

\* stop_agent_run_activation: the run completes as continuable and its claims
\* go, whether or not a worker is executing it.  The caller is not told.
StopActivation(r) ==
    LET held == ClearClaims(r) IN
    /\ Open(r)
    /\ status' = [status EXCEPT ![r] = "completed"]
    /\ waiting' = [waiting EXCEPT ![r] = "none"]
    /\ activation' = [activation EXCEPT ![r][current[r]] = "cancelled"]
    /\ leased' = held
    /\ lapsed' = lapsed \cap held
    /\ overtaken' = StillLeased(overtaken, held)
    /\ cancelRequests' = ClearCancel(r)
    /\ UNCHANGED <<current, callVars, thread, issued, claim, working, calling>>
-----------------------------------------------------------------------------
WorkerStep(c) ==
    \/ Heartbeat(c)
    \/ PinSession(c)
    \/ ReportRunning(c)
    \/ ReportBlocked(c)
    \/ ReportWaitingApproval(c)
    \/ ReportPolicyViolation(c)
    \/ \E result \in Result, violates \in BOOLEAN : Complete(c, result, violates)
    \/ \E r \in Run, persistent, wait, started \in BOOLEAN :
            SubmitAgentCall(c, r, persistent, wait, started)
    \/ \E r \in Run, wait \in BOOLEAN : FindThread(c, r, wait)

CallStep(x) == BindThread(x) \/ ContinueThread(x) \/ MarkAgentCallWaiting(x)

Next ==
    \/ \E r \in Run, started \in BOOLEAN : Submit(r, started)
    \/ \E k \in WorkerKind : ClaimActivation(k)
    \/ \E c \in Claim : WorkerStep(c) \/ LeaseLapses(c) \/ WorkerStops(c)
    \/ \E x \in calling : CallStep(x)
    \/ RecoverStale
    \/ \E r \in Run : \/ AppendReviewFeedback(r)
                      \/ \E consumed \in {0, 1} : Continue(r, consumed)
                      \/ Retry(r)
                      \/ Cancel(r)
                      \/ \E cancel \in BOOLEAN : EndThread(r, cancel)
                      \/ StopActivation(r)

Spec == Init /\ [][Next]_vars
-----------------------------------------------------------------------------
\* Rows have their types: only claims that were handed out are leased or at
\* work, and an agent call is made by an executor that is still at work.
TypeOK ==
    /\ status \in [Run -> RunStatus]
    /\ waiting \in [Run -> WaitingReason]
    /\ current \in [Run -> Seq1]
    /\ activation \in [Run -> [Seq1 -> RunStatus]]
    /\ relation \in [Run -> [owner : Run \cup {NoRun}, wait : BOOLEAN]]
    /\ callFeedback \in [Run -> Nat]
    /\ reviewFeedback \in [Run -> 0..MaxReviews]
    /\ violating \subseteq Run \cap EnvironmentRuns
    /\ sandboxed \subseteq Run
    /\ thread \in [Run -> ThreadStatus]
    /\ cancelRequests \subseteq Run
    /\ issued \in 0..MaxClaims
    /\ claim \in [Claim -> [run : Run \cup {NoRun}, seq : 0..MaxSeq]]
    /\ \A c \in 1..issued : claim[c] \in [run : Run, seq : Seq1]
    /\ leased \subseteq 1..issued
    /\ lapsed \subseteq leased
    /\ working \subseteq 1..issued
    /\ calling \subseteq AgentCall
    /\ overtaken \subseteq Run

\* A run that is being executed has a live claim: recovery, completion, stop
\* and cancellation never leave a run DISPATCHED or RUNNING with no worker
\* that could finish it and no lease that could expire.
ActiveRunIsLeased ==
    \A r \in Run : status[r] \in {"dispatched", "running"} => ClaimsOf(r) # {}

\* A run that has ended is let go of by _clear_task_claims and
\* _cancel_requests.pop: no claim through which a late worker could still write
\* to it, and no cancel request that its next activation would obey.
ClosedRunReleased ==
    \A r \in Run : status[r] \in ClosedStatus =>
        ClaimsOf(r) = {} /\ r \notin cancelRequests

\* As long as continue_agent_run did not continue a run under a live lease, one
\* worker at most may write to it, that worker executes the current activation,
\* and a queued run belongs to nobody.
ExclusiveClaim ==
    \A r \in Run \ overtaken :
        /\ \A c, d \in ClaimsOf(r) : c = d
        /\ \A c \in ClaimsOf(r) : claim[c].seq = current[r]
        /\ status[r] = "queued" => ClaimsOf(r) = {}

\* Activations that ended lie behind everything that can still be executed,
\* for overtaken runs too: no live claim is for one of them or for an earlier
\* one, a queued run does not offer one to the next worker, and the sequence
\* number continue_agent_run takes next is not that of one.
EndedActivationsBehind ==
    \A r \in Run : \A s \in Seq1 : activation[r][s] \in EndedActivation =>
        /\ s <= current[r]
        /\ status[r] = "queued" => s # current[r]
        /\ \A c \in ClaimsOf(r) : s < claim[c].seq

\* An activation ends once: whatever heartbeats, pins, recoveries, retries and
\* completions of overtaken workers follow, it is not executed again.
ActivationEndsOnce ==
    [][\A r \in Run : \A s \in Seq1 :
        activation[r][s] \in EndedActivation =>
            activation'[r][s] \in EndedActivation]_vars

\* What a closed run ended with stays: it leaves its status only for a new
\* activation, and the ended one keeps its record.  No late heartbeat, event,
\* pin, mark or completion of an earlier worker brings it back.
ClosedRunReopensOnlyByContinue ==
    [][\A r \in Run :
        status[r] \in ClosedStatus /\ status'[r] # status[r] =>
            /\ status'[r] = "queued"
            /\ current'[r] = current[r] + 1
            /\ activation'[r][current[r]] = activation[r][current[r]]]_vars

\* A parked caller with nothing left to wait for: its activation is over and a
\* report is there, but nobody will look at it again.
MissedReport(r) ==
    /\ status[r] = "waiting" /\ waiting[r] = "agent_call"
    /\ activation[r][current[r]] \in EndedActivation
    /\ callFeedback[r] > 0

\* The report of a called run wakes its caller whichever of the two finishes
\* first: _resume_from_pending_agent_call_feedback misses a report only if the
\* mark of the call comes so late that the caller's worker has lost its lease.
ReportMissedOnlyByLateMark ==
    [][\A r \in Run :
        ~MissedReport(r) /\ MissedReport(r)' =>
            \E x \in calling \ calling' :
                claim[x.by].run = r /\ x.by \notin leased]_vars

\* The runs of which r awaits a report: it called them to wait, and they are open.
AwaitedBy(r) ==
    {d \in Run : relation[d] = [owner |-> r, wait |-> TRUE] /\ Open(d)}

\* A parked caller to which nobody will report.
Deserted(r) ==
    /\ status[r] = "waiting" /\ waiting[r] = "agent_call"
    /\ callFeedback[r] = 0 /\ AwaitedBy(r) = {}

\* A run that is not open and whose caller was not told: an administrator stopped
\* it, its sandbox did not start, or an executor event set it BLOCKED.  Every
\* other end leaves a cancelled run, or an activation that the worker ended.
EndedUnreported(d) ==
    LET last == activation[d][current[d]] IN
    \/ status[d] = "completed" /\ last = "cancelled"
    \/ status[d] \in {"failed", "blocked"} /\ last \notin EndedActivation

\* Whoever waits is told: a parked caller is deserted only by a run that ends
\* in one of the three unreported ways, or by a mark that comes when the
\* caller's worker has lost its lease, when the called run has ended so, or when
\* the thread was created by a call that does not wait.  However the steps of
\* both runs interleave, every other end of a called run is fed back and is not
\* consumed before the mark.
DesertedOnlyUnreported ==
    [][\A r \in Run :
        ~Deserted(r) /\ Deserted(r)' =>
            \/ \E d \in AwaitedBy(r) : EndedUnreported(d)'
            \/ \E x \in calling \ calling' :
                /\ claim[x.by].run = r
                /\ \/ x.by \notin leased
                   \/ EndedUnreported(x.called)
                   \/ ~relation[x.called].wait]_vars

\* A thread binding does not outlive its target: when the run of an ACTIVE
\* thread fails or is cancelled, by whatever path, call_persistent_agent no
\* longer finds the thread active.
ThreadEndsWithTarget ==
    [][\A r \in Run :
        /\ thread[r] = "active"
        /\ status'[r] # status[r] /\ status'[r] \in {"failed", "cancelled"}
        => thread'[r] # "active"]_vars

\* continue_agent_run moves a run to a new activation, and the activation of
\* before is stale: a completion for it must be refused.
StaleActivationRejected ==
    [][\A c \in Claim, result \in Result, violates \in BOOLEAN :
        Complete(c, result, violates) =>
            claim[c].seq = current[claim[c].run]]_vars

\* A cancellation that was accepted is not forgotten: the request goes when
\* the run ends or parks, never when the run is queued to execute again.
CancelNotForgotten ==
    [][\A r \in cancelRequests \ cancelRequests' : status'[r] # "queued"]_vars
=============================================================================
