--------------------------- MODULE CapabilityIngest ---------------------------
(***************************************************************************)
(* The workflow of a capability package: a thread of the server follows    *)
(* one AgentRun, builds an install candidate from what it produced, asks   *)
(* the user for an approval, and installs the candidate or continues the   *)
(* AgentRun with the user's revision (CapabilityPackageSessionRunService). *)
(*                                                                         *)
(* Beside it run the handlers of the user: the reply to an approval, a     *)
(* revision, a cancel.  They share with the thread the SessionRun (one     *)
(* lock), the revision queue (another lock) and the control plane; a step  *)
(* here is what happens under one of these locks.  A candidate is named by *)
(* the activation that produced it.                                        *)
(***************************************************************************)
EXTENDS Naturals, Sequences, FiniteSets

CONSTANTS
    Ticket,     \* revisions the user may submit
    Canceller,  \* cancel requests
    MaxRepair   \* _CAPABILITY_CANDIDATE_REPAIR_LIMIT

CapabilityIngestAssumption ==
    IsFiniteSet(Ticket) /\ MaxRepair \in Nat

VARIABLES
    run,      \* status of the AgentRun
    act,      \* its activation
    pc,       \* where the workflow thread is
    repairs,  \* candidate repairs asked for
    callback, \* revision_feedback_callback is set
    cancelled,\* cancel_requested
    waiter,   \* [activation -> its approval: none, asked, allow, deny, popped]
    active,   \* active_approval_id, 0 when none
    queue,    \* revision_queue
    ticket,   \* [Ticket -> where its revision is]
    cancel,   \* [Canceller -> where its handler is]
    decision, \* what wait_approval returned to the thread
    allowed,  \* the candidates the user was told he has allowed
    installed,\* the candidates that were installed
    shown     \* [activation -> how often the thread has shown its events]

vars == <<run, act, pc, repairs, callback, cancelled, waiter, active, queue,
          ticket, cancel, decision, allowed, installed, shown>>

\* A revision continues the AgentRun once, a repair up to the limit.
MaxAct == 1 + MaxRepair + Cardinality(Ticket)
Act == 1..MaxAct
Open == {"asked", "allow", "deny"}

TypeOK ==
    /\ run \in {"active", "cancelling", "completed", "failed", "cancelled"}
    /\ act \in Act /\ repairs \in 0..MaxRepair
    /\ pc \in {"hear", "bind", "follow", "followed", "register", "activate", "wait",
               "answered", "pop", "decide", "continue", "loop", "ended"}
    /\ callback \in BOOLEAN /\ cancelled \in BOOLEAN
    /\ waiter \in [Act -> Open \cup {"none", "popped"}]
    /\ active \in 0..MaxAct
    /\ \A i \in DOMAIN queue : ticket[queue[i]] = "queued"
    /\ \A t \in Ticket :
         ticket[t] \in {"none", "accepted", "unheard", "queued", "consumed"}
    /\ \A c \in Canceller : cancel[c] \in {"none", "begun", "asked", "done"}
    /\ decision \in {"none", "allow", "deny"}
    /\ allowed \subseteq Act /\ installed \subseteq Act
    /\ shown \in [Act -> 0..MaxAct]

\* start has submitted and bound the AgentRun and starts the thread.
Init ==
    /\ run = "active" /\ act = 1 /\ pc = "hear" /\ repairs = 0
    /\ callback = FALSE /\ cancelled = FALSE
    /\ waiter = [a \in Act |-> "none"] /\ active = 0
    /\ queue = <<>> /\ ticket = [t \in Ticket |-> "none"]
    /\ cancel = [c \in Canceller |-> "none"]
    /\ decision = "none" /\ allowed = {} /\ installed = {}
    /\ shown = [a \in Act |-> 0]

userVars == <<cancelled, ticket, cancel, allowed>>
approvalVars == <<waiter, active, queue, decision>>

-----------------------------------------------------------------------------
(* The AgentRun *)

RunEnds(status) ==
    /\ \/ run = "active" /\ status \in {"completed", "failed"}
       \/ run = "cancelling" /\ status \in {"completed", "failed", "cancelled"}
    /\ run' = status
    /\ UNCHANGED <<act, pc, repairs, callback, approvalVars, userVars, installed, shown>>

\* cancel_agent_run: an ended run is left as it is.
Cancelled(r) == IF r = "active" THEN "cancelling" ELSE r

-----------------------------------------------------------------------------
(* The workflow thread *)

\* The thread ends, taking its callback back, or goes on.
EndOr(end, next) ==
    /\ pc' = IF end THEN "ended" ELSE next
    /\ callback' = (callback /\ ~end)

\* set_revision_feedback_callback
Hear ==
    /\ pc = "hear" /\ pc' = "loop" /\ callback' = TRUE
    /\ UNCHANGED <<run, act, repairs, approvalVars, userVars, installed, shown>>

Loop ==
    /\ pc = "loop" /\ EndOr(cancelled, "bind")
    /\ UNCHANGED <<run, act, repairs, approvalVars, userVars, installed, shown>>

\* set_cancel_callback calls the callback at once when a cancel was requested.
Bind ==
    /\ pc = "bind" /\ pc' = "follow"
    /\ run' = IF cancelled THEN Cancelled(run) ELSE run
    /\ UNCHANGED <<act, repairs, callback, approvalVars, userVars, installed, shown>>

\* _project_agent_run_events starts at the first event of the run and returns
\* when the run has ended or a cancel is requested.
Follow ==
    /\ pc = "follow" /\ (cancelled \/ run \notin {"active", "cancelling"})
    /\ EndOr(cancelled, "followed")
    /\ shown' = [a \in Act |-> IF a <= act THEN shown[a] + 1 ELSE shown[a]]
    /\ UNCHANGED <<run, act, repairs, approvalVars, userVars, installed>>

\* _completed_draft_status: the run failed, or its draft or candidate is not
\* valid; a candidate that can be repaired is; or there is one to ask for.
Candidate ==
    /\ pc = "followed"
    /\ \/ EndOr(TRUE, pc) /\ UNCHANGED repairs
       \/ /\ run = "completed" /\ repairs < MaxRepair
          /\ EndOr(FALSE, "continue") /\ repairs' = repairs + 1
       \/ run = "completed" /\ EndOr(FALSE, "register") /\ UNCHANGED repairs
    /\ UNCHANGED <<run, act, approvalVars, userVars, installed, shown>>

Register ==
    /\ pc = "register" /\ pc' = "activate"
    /\ waiter' = [waiter EXCEPT ![act] = "asked"]
    /\ decision' = "none"
    /\ UNCHANGED <<run, act, repairs, callback, active, queue, userVars, installed, shown>>

\* has_pending_revision
Pending == queue # <<>>

\* An approval is answered once.
Resolve(a, answer) ==
    waiter' = IF a # 0 /\ waiter[a] = "asked" THEN [waiter EXCEPT ![a] = answer] ELSE waiter

\* The approval is made known to the revision callback and, when a revision
\* is queued already, denied.
Activate ==
    /\ pc = "activate" /\ pc' = "wait"
    /\ active' = act
    /\ Resolve(IF Pending THEN act ELSE 0, "deny")
    /\ UNCHANGED <<run, act, repairs, callback, queue, decision, userVars, installed, shown>>

WaitApproval ==
    /\ pc = "wait" /\ waiter[act] \in {"allow", "deny"}
    /\ pc' = "answered"
    /\ decision' = waiter[act]
    /\ waiter' = [waiter EXCEPT ![act] = "popped"]
    /\ UNCHANGED <<run, act, repairs, callback, active, queue, userVars, installed, shown>>

Answered ==
    /\ pc = "answered"
    /\ active' = 0
    /\ EndOr(cancelled, "pop")
    /\ UNCHANGED <<run, act, repairs, waiter, queue, decision, userVars, installed, shown>>

RestOfQueue == Tail(queue)

\* _pop_revision_ticket and mark_revision_feedback_consumed: a revision wins
\* over the answer.
PopTicket ==
    /\ pc = "pop"
    /\ IF queue = <<>>
       THEN pc' = "decide" /\ UNCHANGED <<queue, ticket>>
       ELSE /\ pc' = "continue"
            /\ queue' = RestOfQueue
            /\ ticket' = [ticket EXCEPT ![Head(queue)] = "consumed"]
    /\ UNCHANGED <<run, act, repairs, callback, waiter, active, decision, cancelled,
                   cancel, allowed, installed, shown>>

\* Mutant: the candidate is installed whatever the answer was.
DecideAlways == installed \cup {act}

\* apply_capability_install_candidate, after an allow.
Decided == IF decision = "allow" THEN installed \cup {act} ELSE installed

\* The candidate is installed, or fails to install, or is not to be.
Decide ==
    /\ pc = "decide" /\ EndOr(TRUE, pc)
    /\ installed' \in {installed, Decided}
    /\ UNCHANGED <<run, act, repairs, approvalVars, userVars, shown>>

\* Feedback and continue_agent_run: only a completed run is continued.
Continue ==
    /\ pc = "continue"
    /\ EndOr(run # "completed", "loop")
    /\ IF run = "completed" THEN run' = "active" /\ act' = act + 1 ELSE UNCHANGED <<run, act>>
    /\ UNCHANGED <<repairs, approvalVars, userVars, installed, shown>>

-----------------------------------------------------------------------------
(* The user *)

\* resolve_approval: the answer given first counts; the user is told that it
\* was resolved.
Reply(a, answer) ==
    /\ waiter[a] = "asked"
    /\ Resolve(a, answer)
    /\ allowed' = IF answer = "allow" THEN allowed \cup {a} ELSE allowed
    /\ UNCHANGED <<run, act, pc, repairs, callback, active, queue, decision,
                   cancelled, ticket, cancel, installed, shown>>

\* submit_revision_feedback takes the ticket, and the callback when the
\* workflow has set one; it is called after the lock was released.
SubmitRevision(t) ==
    /\ ticket[t] = "none"
    /\ ticket' = [ticket EXCEPT ![t] = IF callback THEN "accepted" ELSE "unheard"]
    /\ UNCHANGED <<run, act, pc, repairs, callback, approvalVars, cancelled, cancel,
                   allowed, installed, shown>>

\* on_revision_feedback: the ticket is queued and the active approval denied.
QueueRevision(t) ==
    /\ ticket[t] = "accepted"
    /\ ticket' = [ticket EXCEPT ![t] = "queued"]
    /\ queue' = Append(queue, t)
    /\ Resolve(active, "deny")
    /\ UNCHANGED <<run, act, pc, repairs, callback, active, decision, cancelled,
                   cancel, allowed, installed, shown>>

\* Pending approvals are denied.
DenyAll == waiter' = [a \in Act |-> IF waiter[a] = "asked" THEN "deny" ELSE waiter[a]]

\* request_branch_cancel
CancelBegin(c) ==
    /\ cancel[c] = "none"
    /\ cancel' = [cancel EXCEPT ![c] = "begun"]
    /\ cancelled' = TRUE
    /\ DenyAll
    /\ UNCHANGED <<run, act, pc, repairs, callback, active, queue, ticket, decision,
                   allowed, installed, shown>>

\* The callback and the handler call cancel_agent_run.
CancelRun(c) ==
    /\ cancel[c] = "begun"
    /\ cancel' = [cancel EXCEPT ![c] = "asked"]
    /\ run' = Cancelled(run)
    /\ UNCHANGED <<act, pc, repairs, callback, approvalVars, cancelled, ticket,
                   allowed, installed, shown>>

\* session_run_cancelled, and mark_done denies what was asked meanwhile.
CancelShow(c) ==
    /\ cancel[c] = "asked"
    /\ cancel' = [cancel EXCEPT ![c] = "done"]
    /\ DenyAll
    /\ UNCHANGED <<run, act, pc, repairs, callback, active, queue, decision, cancelled,
                   ticket, allowed, installed, shown>>

Thread ==
    \/ Hear \/ Loop \/ Bind \/ Follow \/ Candidate \/ Register \/ Activate
    \/ WaitApproval \/ Answered \/ PopTicket \/ Decide \/ Continue

Next ==
    \/ Thread
    \/ \E s \in {"completed", "failed", "cancelled"} : RunEnds(s)
    \/ \E a \in Act, answer \in {"allow", "deny"} : Reply(a, answer)
    \/ \E t \in Ticket : SubmitRevision(t) \/ QueueRevision(t)
    \/ \E c \in Canceller : CancelBegin(c) \/ CancelRun(c) \/ CancelShow(c)

\* The thread goes on, handlers that began do too, and a run that was asked
\* to cancel ends.  The user need not answer, nor a run end by itself.
Fairness ==
    /\ WF_vars(Thread)
    /\ WF_vars(run = "cancelling" /\ RunEnds("cancelled"))
    /\ \A t \in Ticket : WF_vars(QueueRevision(t))
    /\ \A c \in Canceller : WF_vars(CancelRun(c)) /\ WF_vars(CancelShow(c))

Spec == Init /\ [][Next]_vars /\ Fairness

-----------------------------------------------------------------------------
(* Properties *)

\* Of all the candidates of the revisions of a package, at most one is
\* installed, and only one the user allowed: an answer to the candidate of an
\* earlier activation, or one that a revision overtook, installs nothing.
InstalledWasAllowed ==
    /\ installed \subseteq allowed
    /\ Cardinality(installed) <= 1

-----------------------------------------------------------------------------
(* These were checked with this module alone; no standing run lists them. *)

\* A revision does not wait for the user's answer to the approval it makes
\* pointless, whichever of the two is known to the thread first: a queued
\* revision is consumed, or the workflow ends, unless the run it would
\* continue never ends.
RevisionFreesWait ==
    \A t \in Ticket :
        ticket[t] = "queued"
            ~> ticket[t] = "consumed" \/ pc = "ended" \/ run = "active"

-----------------------------------------------------------------------------
(* What a document, a comment or a test says and the code does not keep:   *)
(* README.md tells what happens instead.                                   *)

\* The contract: no workflow goes round the projection of the SessionRun, which
\* keeps a cursor; what an activation did is shown once.
ShownOnce == \A a \in Act : shown[a] <= 1

\* The contract: a cancel stops the projection loop, so the thread ends.
CancelEndsWorkflow == cancelled ~> pc = "ended"

\* The contract: a cancel stops the linked AgentRun.  Once the handler and the
\* workflow are both through, no activation is active.
CancelStopsRun ==
    (\E c \in Canceller : cancel[c] = "done") /\ pc = "ended" => run # "active"
=============================================================================
