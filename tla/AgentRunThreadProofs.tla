------------------------ MODULE AgentRunThreadProofs ------------------------
(***************************************************************************)
(* Machine-checked proofs about calls between runs, for every set of runs  *)
(* and every value of the bounds: a thread binding ends with its target,   *)
(* a report wakes the caller it is for, and who waits is told.  Submission *)
(* may store a run as FAILED without a look at bindings, so the first      *)
(* rests on one more invariant: nobody binds or calls a run that was not   *)
(* submitted.  The second rests on another: a run whose activation is over *)
(* has no lease.  The third adds that, as long as the worker of a call has *)
(* its lease, the report of the called run is there or is owed.            *)
(***************************************************************************)
EXTENDS AgentRunControlPlaneProofs

\* Threads and agent calls are about runs that exist.
BoundSubmitted ==
    /\ \A r \in Run : thread[r] # "none" => status[r] # "absent"
    /\ \A x \in calling : status[x.called] # "absent"

ThreadInv == Inv /\ BoundSubmitted

\* A step leaves a submitted run submitted, binds only such runs, and ends the
\* thread of one that it fails or cancels.
StaysSubmitted(p) == status[p] # "absent" => status'[p] # "absent"

BindsSubmitted(p) == thread'[p] # "none" => thread[p] # "none" \/ status[p] # "absent"

EndsThread(p) ==
    /\ thread[p] = "active"
    /\ status'[p] # status[p] /\ status'[p] \in {"failed", "cancelled"}
    => thread'[p] # "active"

Respects(p) == StaysSubmitted(p) /\ BindsSubmitted(p) /\ EndsThread(p)

USE DEF NoRun, Claim, Seq1, RunStatus, WaitingReason, Result, OccupyingStatus,
        TerminalStatus, ClosedStatus, EndedActivation, ContinuableStatus,
        ThreadStatus, NextSeq, ReadyRuns, StaysSubmitted, BindsSubmitted, EndsThread

-----------------------------------------------------------------------------
\* Steps that touch no thread and neither fail nor cancel a submitted run.
LEMMA SameThreads ==
    ASSUME NEW p \in Run, UNCHANGED thread,
           \/ status'[p] = status[p]
           \/ status'[p] \in RunStatus \ {"absent", "failed", "cancelled"}
    PROVE  Respects(p)
BY DEF Respects

LEMMA AddRunThreads ==
    ASSUME ThreadInv, NEW r \in Run, NEW owner, NEW wait, NEW started,
           AddRun(r, owner, wait, started), NEW p \in Run
    PROVE  Respects(p)
<1>1. /\ status \in [Run -> RunStatus] /\ UNCHANGED thread
      /\ thread[p] # "none" => status[p] # "absent"
    BY DEF ThreadInv, Inv, TypeOK, BoundSubmitted, AddRun
<1>2. status[r] = "absent"
    BY DEF AddRun
<1>3. CASE p = r
    BY <1>1, <1>2, <1>3 DEF Respects
<1>4. CASE p # r
    BY <1>1, <1>4, SameThreads DEF AddRun
<1>5. QED
    BY <1>3, <1>4

LEMMA WorkerThreads ==
    ASSUME ThreadInv, NEW c \in Claim, NEW p \in Run,
           \/ Heartbeat(c) \/ PinSession(c)
           \/ ReportRunning(c) \/ ReportBlocked(c)
           \/ ReportWaitingApproval(c) \/ ReportPolicyViolation(c)
    PROVE  Respects(p)
<1>1. status \in [Run -> RunStatus]
    BY DEF ThreadInv, Inv, TypeOK
<1>2. /\ UNCHANGED thread
      /\ \/ status'[p] = status[p]
         \/ status'[p] \in {"running", "blocked", "waiting"}
    BY <1>1 DEF Heartbeat, PinSession, ReportRunning, ReportBlocked,
           ReportWaitingApproval, ReportPolicyViolation, ExecutorStatus
<1>3. QED
    BY <1>2, SameThreads

\* Claims, marks, continuations and stops of one run.
LEMMA OneRunThreads ==
    ASSUME ThreadInv, NEW r \in Run, NEW p \in Run, UNCHANGED thread,
           NEW st \in {"queued", "dispatched", "waiting", "completed"},
           status' = [status EXCEPT ![r] = st]
    PROVE  Respects(p)
<1>1. status'[p] = status[p] \/ status'[p] = st
    BY DEF ThreadInv, Inv, TypeOK
<1>2. QED
    BY <1>1, SameThreads

LEMMA RecoverThreads ==
    ASSUME ThreadInv, RecoverStale, NEW p \in Run
    PROVE  Respects(p)
<1>1. Inv /\ UNCHANGED thread
    BY DEF ThreadInv, RecoverStale
<1>2. Requeued(p) \/ Untouched(p)
    BY <1>1, RecoverRows
<1>3. status'[p] = status[p] \/ status'[p] = "queued"
    BY <1>2 DEF Requeued, Untouched
<1>4. QED
    BY <1>1, <1>3, SameThreads

-----------------------------------------------------------------------------
\* Settle leaves every run as the enclosing action has it, or queues it.
LEMMA SettleStatus ==
    ASSUME Inv, NEW ended, NEW self, NEW st, NEW wr, NEW cur, NEW act, NEW held,
           Settle(ended, self, st, wr, cur, act, held), NEW p \in Run
    PROVE  status'[p] = "queued" \/ status'[p] = st[p]
<1>1. Resumes(p, st, cur, act) \/ Keeps(p, st, wr, cur, act)
    BY SettleRows
<1>2. QED
    BY <1>1 DEF Resumes, Keeps

LEMMA ThreadsOnlyEnd ==
    ASSUME NEW S, ThreadsEnd(S), NEW p \in Run
    PROVE  /\ \/ thread'[p] = thread[p]
              \/ thread'[p] = "ended" /\ thread[p] = "active"
           /\ p \in S => thread'[p] # "active"
BY DEF ThreadsEnd

LEMMA CompleteThreads ==
    ASSUME ThreadInv, NEW c \in Claim, NEW result \in Result,
           NEW violates \in BOOLEAN, Complete(c, result, violates), NEW p \in Run
    PROVE  Respects(p)
<1> DEFINE r == claim[c].run
<1>1. Inv /\ status \in [Run -> RunStatus] /\ c \in leased
    BY DEF ThreadInv, Inv, TypeOK, Complete
<1>2. r \in Run /\ status[r] # "absent"
    BY <1>1, LeasedClaim, IssuedClaim
<1>3. PICK ended \in SUBSET Run, self \in {{r}, {}},
           st0 \in TerminalStatus \cup {"waiting"}, wr0 \in WaitingReason :
        /\ Settle(ended, self, [status EXCEPT ![r] = st0],
                  [waiting EXCEPT ![r] = wr0],
                  [current EXCEPT ![r] = claim[c].seq],
                  [activation EXCEPT ![r][claim[c].seq] = result],
                  leased \ ClaimsOf(r))
        /\ st0 \in {"failed", "cancelled"} => ThreadsEnd({r})
  <2>1. Finishes(r, claim[c].seq, result)
    BY <1>1, CompleteSettles
  <2>2. QED
    BY <2>1 DEF Finishes
<1> DEFINE st == [status EXCEPT ![r] = st0]
<1>4. st[p] = IF p = r THEN st0 ELSE status[p]
    BY <1>1, <1>2
<1>5. status'[p] = "queued" \/ status'[p] = st[p]
  <2>1. Settle(ended, self, st, [waiting EXCEPT ![r] = wr0],
               [current EXCEPT ![r] = claim[c].seq],
               [activation EXCEPT ![r][claim[c].seq] = result],
               leased \ ClaimsOf(r))
    BY <1>3
  <2> HIDE DEF r, st
  <2>2. QED
    BY <1>1, <2>1, SettleStatus
<1>6. thread'[p] # "none" => thread[p] # "none"
  <2>1. UNCHANGED thread \/ ThreadsEnd({}) \/ ThreadsEnd({r})
    BY DEF Complete
  <2> HIDE DEF r
  <2>2. QED
    BY <2>1, ThreadsOnlyEnd
<1>7. p = r /\ st0 \in {"failed", "cancelled"} => thread'[p] # "active"
  <2> HIDE DEF r
  <2>1. QED
    BY <1>3, ThreadsOnlyEnd
<1> HIDE DEF r, st
<1>8. QED
    BY <1>2, <1>4, <1>5, <1>6, <1>7 DEF Respects

LEMMA CancelThreads ==
    ASSUME ThreadInv, NEW r \in Run, NEW p \in Run,
           Cancel(r) \/ \E cancel \in BOOLEAN : EndThread(r, cancel)
    PROVE  Respects(p)
<1>1. Inv /\ thread \in [Run -> ThreadStatus]
    BY DEF ThreadInv, Inv, TypeOK
<1>2. PICK open \in SUBSET Run :
        /\ \A d \in open : Open(d)
        /\ CancelRuns(open)
        /\ \/ ThreadsEnd(EndsAtOnce(open))
           \/ /\ open \subseteq {r} /\ thread[r] # "none"
              /\ thread' = [thread EXCEPT ![r] = "ended"]
  <2>1. CASE Cancel(r)
    BY <2>1 DEF Cancel, CallTree
  <2>2. ASSUME NEW cancel \in BOOLEAN, EndThread(r, cancel)
        PROVE  \E open \in SUBSET Run :
                 /\ \A d \in open : Open(d)
                 /\ CancelRuns(open)
                 /\ open \subseteq {r} /\ thread[r] # "none"
                 /\ thread' = [thread EXCEPT ![r] = "ended"]
    BY <2>2 DEF EndThread
  <2>3. QED
    BY <2>1, <2>2
<1> DEFINE ended == EndsAtOnce(open)
           st == [d \in Run |-> IF d \in ended THEN "cancelled" ELSE status[d]]
           wr == [d \in Run |-> IF d \in ended THEN "none" ELSE waiting[d]]
           held == {c \in leased : claim[c].run \notin ended}
<1>3. ended \subseteq open
    BY DEF EndsAtOnce
<1>4. Settle(ended, {}, st, wr, current, activation, held)
    BY <1>2 DEF CancelRuns
<1>5. st[p] = IF p \in ended THEN "cancelled" ELSE status[p]
    OBVIOUS
<1> HIDE DEF ended, st, wr, held
<1>6. status'[p] = "queued" \/ status'[p] = st[p]
    BY <1>1, <1>4, SettleStatus
<1>7. /\ thread'[p] # "none" => thread[p] # "none"
      /\ p \in ended => thread'[p] # "active"
  <2>1. CASE ThreadsEnd(ended)
    BY <2>1, ThreadsOnlyEnd
  <2>2. CASE /\ open \subseteq {r} /\ thread[r] # "none"
             /\ thread' = [thread EXCEPT ![r] = "ended"]
    BY <1>1, <1>3, <2>2
  <2>3. QED
    BY <1>2, <2>1, <2>2 DEF ended
<1>8. QED
    BY <1>5, <1>6, <1>7 DEF Respects

LEMMA CallThreads ==
    ASSUME ThreadInv, NEW x \in calling, CallStep(x), NEW p \in Run
    PROVE  Respects(p)
<1>1. /\ x.called \in Run /\ claim[x.by].run \in Run
      /\ status[x.called] # "absent" /\ thread \in [Run -> ThreadStatus]
  <2>1. x.by \in 1..issued
    BY DEF ThreadInv, Inv, TypeOK, AgentCall
  <2>2. QED
    BY <2>1, IssuedClaim DEF ThreadInv, Inv, TypeOK, AgentCall, BoundSubmitted
<1>2. CASE BindThread(x)
  <2>1. status'[p] = status[p] /\ (thread'[p] = thread[p] \/ p = x.called)
    BY <1>1, <1>2 DEF BindThread, runVars
  <2>2. QED
    BY <1>1, <2>1 DEF Respects
<1>3. CASE ContinueThread(x)
  <2>1. UNCHANGED thread /\ (QueueNextActivation(x.called) \/ UNCHANGED status)
    BY <1>3 DEF ContinueThread, runVars
  <2>2. QED
    BY <1>1, <2>1, OneRunThreads, SameThreads DEF QueueNextActivation
<1>4. CASE MarkAgentCallWaiting(x)
    BY <1>1, <1>4, OneRunThreads, SameThreads DEF MarkAgentCallWaiting
<1>5. QED
    BY <1>2, <1>3, <1>4 DEF CallStep

-----------------------------------------------------------------------------
LEMMA ThreadStep ==
    ASSUME ThreadInv, [Next]_vars, NEW p \in Run
    PROVE  Respects(p)
<1>1. CASE \E r \in Run, started \in BOOLEAN : Submit(r, started)
    BY <1>1, AddRunThreads DEF Submit
<1>2. CASE \E k \in WorkerKind : ClaimActivation(k)
  <2>1. PICK r \in Run : status' = [status EXCEPT ![r] = "dispatched"]
    BY <1>2 DEF ClaimActivation
  <2>2. UNCHANGED thread
    BY <1>2 DEF ClaimActivation
  <2>3. QED
    BY <2>1, <2>2, OneRunThreads
<1>3. ASSUME NEW c \in Claim, WorkerStep(c)
      PROVE  Respects(p)
  <2>1. CASE \/ Heartbeat(c) \/ PinSession(c)
             \/ ReportRunning(c) \/ ReportBlocked(c)
             \/ ReportWaitingApproval(c) \/ ReportPolicyViolation(c)
    BY <2>1, WorkerThreads
  <2>2. CASE \E result \in Result, violates \in BOOLEAN :
                Complete(c, result, violates)
    BY <2>2, CompleteThreads
  <2>3. CASE \E r \in Run, persistent, wait, started \in BOOLEAN :
                SubmitAgentCall(c, r, persistent, wait, started)
    BY <2>3, AddRunThreads DEF SubmitAgentCall
  <2>4. CASE \E r \in Run, wait \in BOOLEAN : FindThread(c, r, wait)
    BY <2>4, SameThreads DEF FindThread, runVars
  <2>5. QED
    BY <1>3, <2>1, <2>2, <2>3, <2>4 DEF WorkerStep
<1>4. CASE \E x \in calling : CallStep(x)
    BY <1>4, CallThreads
<1>5. CASE RecoverStale
    BY <1>5, RecoverThreads
<1>6. CASE \/ \E c \in Claim : LeaseLapses(c) \/ WorkerStops(c)
           \/ \E r \in Run : AppendReviewFeedback(r)
           \/ UNCHANGED vars
    BY <1>6, SameThreads DEF LeaseLapses, WorkerStops, AppendReviewFeedback,
           runVars, vars
<1>7. ASSUME NEW r \in Run,
             \/ \E consumed \in {0, 1} : Continue(r, consumed)
             \/ Retry(r) \/ StopActivation(r)
      PROVE  Respects(p)
    BY <1>7, OneRunThreads DEF Continue, Retry, StopActivation,
           QueueNextActivation
<1>8. ASSUME NEW r \in Run, Cancel(r) \/ \E cancel \in BOOLEAN : EndThread(r, cancel)
      PROVE  Respects(p)
    BY <1>8, CancelThreads
<1>9. QED
    BY <1>1, <1>2, <1>3, <1>4, <1>5, <1>6, <1>7, <1>8 DEF Next

\* Agent calls in progress are those of before, or about a run that is there.
LEMMA CallsStep ==
    ASSUME ThreadInv, [Next]_vars, NEW x \in calling'
    PROVE  status'[x.called] # "absent"
<1>1. \A y \in calling : y.called \in Run /\ status[y.called] # "absent"
    BY DEF ThreadInv, Inv, TypeOK, AgentCall, BoundSubmitted
<1>2. \A p \in Run : status[p] # "absent" => status'[p] # "absent"
    BY ThreadStep DEF Respects
<1>3. ASSUME NEW y \in calling, x.called = y.called
      PROVE  status'[x.called] # "absent"
    BY <1>1, <1>2, <1>3
<1>4. ASSUME NEW c \in Claim, NEW r \in Run, NEW persistent \in BOOLEAN,
             NEW wait \in BOOLEAN, NEW started \in BOOLEAN,
             SubmitAgentCall(c, r, persistent, wait, started)
      PROVE  status'[x.called] # "absent"
  <2>1. x \in calling \/ x.called = r
    BY <1>4 DEF SubmitAgentCall, MarkIf, Call
  <2>2. status'[r] # "absent"
    BY <1>4 DEF SubmitAgentCall, AddRun, ThreadInv, Inv, TypeOK
  <2>3. QED
    BY <1>3, <2>1, <2>2
<1>5. ASSUME NEW c \in Claim, NEW r \in Run, NEW wait \in BOOLEAN,
             FindThread(c, r, wait)
      PROVE  status'[x.called] # "absent"
  <2>1. x \in calling \/ x.called = r
    BY <1>5 DEF FindThread, Call
  <2>2. status[r] # "absent"
    BY <1>5 DEF FindThread, ThreadInv, BoundSubmitted
  <2>3. QED
    BY <1>2, <1>3, <2>1, <2>2
<1>6. ASSUME NEW y \in calling, CallStep(y)
      PROVE  status'[x.called] # "absent"
  <2>1. x \in calling \/ x.called = y.called
    BY <1>6 DEF CallStep, BindThread, ContinueThread, MarkAgentCallWaiting,
           MarkIf, Call
  <2>2. QED
    BY <1>3, <2>1
<1>7. CASE calling' \subseteq calling
    BY <1>3, <1>7
<1>8. CASE \/ \E r \in Run, started \in BOOLEAN : Submit(r, started)
           \/ \E k \in WorkerKind : ClaimActivation(k)
           \/ \E c \in Claim : LeaseLapses(c) \/ WorkerStops(c)
           \/ RecoverStale
           \/ UNCHANGED vars
    BY <1>7, <1>8 DEF Submit, ClaimActivation, LeaseLapses, WorkerStops,
           RecoverStale, vars
<1>9. ASSUME NEW c \in Claim, WorkerStep(c)
      PROVE  status'[x.called] # "absent"
  <2>1. CASE \E result \in Result, violates \in BOOLEAN :
                Complete(c, result, violates)
    BY <1>7, <2>1 DEF Complete
  <2>2. CASE \/ Heartbeat(c) \/ PinSession(c)
             \/ ReportRunning(c) \/ ReportBlocked(c)
             \/ ReportWaitingApproval(c) \/ ReportPolicyViolation(c)
    BY <1>7, <2>2 DEF Heartbeat, PinSession, ReportRunning, ReportBlocked,
           ReportWaitingApproval, ReportPolicyViolation, ExecutorStatus
  <2>3. QED
    BY <1>4, <1>5, <1>9, <2>1, <2>2 DEF WorkerStep
<1>10. ASSUME NEW r \in Run,
              \/ AppendReviewFeedback(r)
              \/ \E consumed \in {0, 1} : Continue(r, consumed)
              \/ Retry(r) \/ StopActivation(r) \/ Cancel(r)
              \/ \E cancel \in BOOLEAN : EndThread(r, cancel)
       PROVE  status'[x.called] # "absent"
    BY <1>7, <1>10 DEF AppendReviewFeedback, Continue, Retry, StopActivation,
           Cancel, EndThread, CancelRuns
<1>11. QED
    BY <1>6, <1>8, <1>9, <1>10 DEF Next

LEMMA ThreadAlways == Spec => []ThreadInv
<1>1. Init => ThreadInv
    BY InitInv DEF ThreadInv, BoundSubmitted, Init
<1>2. ThreadInv /\ [Next]_vars => ThreadInv'
  <2> SUFFICES ASSUME ThreadInv, [Next]_vars PROVE ThreadInv'
    OBVIOUS
  <2>1. Inv'
    BY NextInv DEF ThreadInv
  <2>2. \A r \in Run : thread'[r] # "none" => status'[r] # "absent"
    BY ThreadStep DEF Respects, ThreadInv, BoundSubmitted
  <2>3. \A x \in calling' : status'[x.called] # "absent"
    BY CallsStep
  <2>4. QED
    BY <2>1, <2>2, <2>3 DEF ThreadInv, BoundSubmitted
<1>3. QED
    BY <1>1, <1>2, PTL DEF Spec

\* When the run of an ACTIVE thread fails or is cancelled, by its worker, by an
\* operator, by a cascade or by the end of the thread itself, the same step ends
\* the thread.
THEOREM ThreadEnds == Spec => ThreadEndsWithTarget
<1>1. ThreadInv /\ [Next]_vars =>
        [\A r \in Run :
            /\ thread[r] = "active"
            /\ status'[r] # status[r] /\ status'[r] \in {"failed", "cancelled"}
            => thread'[r] # "active"]_vars
    BY ThreadStep DEF Respects
<1>2. QED
    BY <1>1, ThreadAlways, PTL DEF Spec, ThreadEndsWithTarget
-----------------------------------------------------------------------------
\* Reports: a run whose current activation is over is leased by no worker.
OverIsReleased(p) ==
    activation[p][current[p]] \in EndedActivation => ClaimsOf(p) = {}

ReportInv == Inv /\ \A p \in Run : OverIsReleased(p)

\* An agent call of run p that is marked although its worker lost the lease.
LateMark(p) ==
    \E x \in calling \ calling' : claim[x.by].run = p /\ x.by \notin leased

Misses(p) == ~MissedReport(p) /\ MissedReport(p)'

\* What a step does to the reports for run p.
Sees(p) == OverIsReleased(p)' /\ (Misses(p) => LateMark(p))

LEMMA ReportRows ==
    ASSUME ReportInv
    PROVE  /\ status \in [Run -> RunStatus] /\ waiting \in [Run -> WaitingReason]
           /\ current \in [Run -> Seq1] /\ activation \in [Run -> [Seq1 -> RunStatus]]
           /\ callFeedback \in [Run -> Nat] /\ leased \subseteq 1..issued /\ issued \in Nat
           /\ claim \in [Claim -> [run : Run \cup {NoRun}, seq : 0..MaxSeq]]
BY BoundAssumption DEF ReportInv, Inv, TypeOK

\* The run keeps its rows and reports and gets no new lease.
SameRun(p) ==
    /\ status'[p] = status[p] /\ waiting'[p] = waiting[p] /\ current'[p] = current[p]
    /\ activation'[p] = activation[p] /\ callFeedback'[p] = callFeedback[p]
    /\ claim' = claim /\ leased' \subseteq leased

LEMMA SameRunSees ==
    ASSUME ReportInv, NEW p \in Run, SameRun(p)
    PROVE  Sees(p)
<1>1. OverIsReleased(p)'
    BY DEF ReportInv, OverIsReleased, SameRun, ClaimsOf
<1>2. ~Misses(p)
    BY DEF Misses, MissedReport, SameRun
<1>3. QED
    BY <1>1, <1>2 DEF Sees

\* A run that does not wait for a call afterwards.
LEMMA UnparkedSees ==
    ASSUME ReportInv, NEW p \in Run, OverIsReleased(p)',
           status'[p] # "waiting" \/ waiting'[p] # "agent_call"
    PROVE  Sees(p)
BY DEF Sees, Misses, MissedReport

\* Continuation of r, whose next activation begins in the queue.
LEMMA QueueNextSees ==
    ASSUME ReportInv, NEW r \in Run, NEW p \in Run, QueueNextActivation(r),
           UNCHANGED <<callFeedback, claim, leased>>
    PROVE  Sees(p)
<1>1. CASE p = r
    <2>1. /\ status'[p] = "queued" /\ current'[p] = current[p] + 1
          /\ activation'[p][current[p] + 1] = "queued"
        BY <1>1, ReportRows, BoundAssumption DEF QueueNextActivation
    <2>2. OverIsReleased(p)'
        BY <2>1 DEF OverIsReleased
    <2>3. QED
        BY <2>1, <2>2, UnparkedSees
<1>2. CASE p # r
    <2>1. SameRun(p)
        BY <1>2, ReportRows DEF SameRun, QueueNextActivation
    <2>2. QED
        BY <2>1, SameRunSees
<1>3. QED
    BY <1>1, <1>2

LEMMA AddRunSees ==
    ASSUME ReportInv, NEW r \in Run, NEW p \in Run, NEW owner, NEW wait, NEW started,
           AddRun(r, owner, wait, started)
    PROVE  Sees(p)
<1>1. /\ UNCHANGED <<waiting, current, callFeedback, claim, leased>> /\ status[r] = "absent"
      /\ status' = [status EXCEPT ![r] = IF started THEN "queued" ELSE "failed"]
      /\ activation' = [activation EXCEPT ![r][1] = "queued"]
    BY DEF AddRun, leaseVars
<1>2. CASE p = r
    <2>1. ClaimsOf(p) = {}
        BY <1>1, <1>2 DEF ReportInv, Inv, AbsentRunUntouched, TypeOK, ClaimsOf
    <2>2. OverIsReleased(p)'
        BY <1>1, <2>1 DEF OverIsReleased, ClaimsOf
    <2>3. status'[p] # "waiting"
        BY <1>1, <1>2, ReportRows
    <2>4. QED
        BY <2>2, <2>3, UnparkedSees
<1>3. CASE p # r
    <2>1. SameRun(p)
        BY <1>1, <1>3, ReportRows DEF SameRun
    <2>2. QED
        BY <2>1, SameRunSees
<1>4. QED
    BY <1>2, <1>3

\* A worker that holds a lease sets an activation as running or an executor's status.
LEMMA WorkerSees ==
    ASSUME ReportInv, NEW c \in Claim, NEW p \in Run,
           \/ Heartbeat(c) \/ PinSession(c)
           \/ ReportRunning(c) \/ ReportBlocked(c)
           \/ ReportWaitingApproval(c) \/ ReportPolicyViolation(c)
    PROVE  Sees(p)
<1>1. PICK r, s : r = claim[c].run /\ s = claim[c].seq
    OBVIOUS
<1>2. /\ UNCHANGED <<current, callFeedback, claim, leased>>
      /\ \/ activation' = activation
         \/ activation' = [activation EXCEPT ![r][s] = "running"]
    BY <1>1 DEF Heartbeat, PinSession, ReportRunning, ReportBlocked,
           ReportWaitingApproval, ReportPolicyViolation, ExecutorStatus, callVars, leaseVars
<1>3. \/ status'[p] # "waiting" \/ waiting'[p] # "agent_call"
      \/ status'[p] = status[p] /\ waiting'[p] = waiting[p]
    BY <1>1, ReportRows
       DEF Heartbeat, PinSession, ReportRunning, ReportBlocked,
           ReportWaitingApproval, ReportPolicyViolation, ExecutorStatus
<1>4. \A q \in Seq1 : activation'[p][q] = activation[p][q] \/ activation'[p][q] = "running"
    <2>1. activation[p] \in [Seq1 -> RunStatus] /\ activation \in [Run -> [Seq1 -> RunStatus]]
        BY ReportRows
    <2>2. activation'[p] = activation[p] \/ activation'[p] = [activation[p] EXCEPT ![s] = "running"]
        BY <1>2, <2>1
    <2>3. QED
        BY <2>1, <2>2
<1>5. current[p] \in Seq1
    BY ReportRows
<1>6. OverIsReleased(p)'
    BY <1>2, <1>4, <1>5 DEF ReportInv, OverIsReleased, ClaimsOf
<1>7. ~Misses(p)
    BY <1>2, <1>3, <1>4, <1>5 DEF Misses, MissedReport
<1>8. QED
    BY <1>6, <1>7 DEF Sees

LEMMA ClaimSees ==
    ASSUME ReportInv, NEW k \in WorkerKind, NEW p \in Run, ClaimActivation(k)
    PROVE  Sees(p)
<1>1. PICK r \in Run :
        /\ status' = [status EXCEPT ![r] = "dispatched"]
        /\ activation' = [activation EXCEPT ![r][current[r]] = "dispatched"]
        /\ claim' = [claim EXCEPT ![issued + 1] = [run |-> r, seq |-> current[r]]]
    BY DEF ClaimActivation
<1>2. UNCHANGED <<waiting, current, callFeedback>> /\ leased' = leased \cup {issued + 1}
    BY DEF ClaimActivation, callVars
<1>3. CASE p = r
    <2>1. status'[p] = "dispatched" /\ activation'[p][current'[p]] = "dispatched"
        BY <1>1, <1>2, <1>3, ReportRows
    <2>2. OverIsReleased(p)'
        BY <2>1 DEF OverIsReleased
    <2>3. QED
        BY <2>1, <2>2, UnparkedSees
<1>4. CASE p # r
    <2>1. /\ status'[p] = status[p] /\ activation'[p] = activation[p]
        BY <1>1, <1>4, ReportRows
    <2>2. \A d \in leased : claim'[d].run = claim[d].run
        BY <1>1, ReportRows
    <2>3. issued + 1 \in Claim => claim'[issued + 1].run = r
        BY <1>1, ReportRows
    <2>4. issued + 1 \in Claim
        BY DEF ClaimActivation
    <2>5. ClaimsOf(p)' \subseteq ClaimsOf(p)
        BY <1>2, <1>4, <2>2, <2>3, <2>4 DEF ClaimsOf
    <2>6. OverIsReleased(p)'
        BY <1>2, <2>1, <2>5 DEF ReportInv, OverIsReleased
    <2>7. ~Misses(p)
        BY <1>2, <2>1 DEF Misses, MissedReport
    <2>8. QED
        BY <2>6, <2>7 DEF Sees
<1>5. QED
    BY <1>3, <1>4

LEMMA RecoverSees ==
    ASSUME ReportInv, NEW p \in Run, RecoverStale
    PROVE  Sees(p)
<1>1. Requeued(p) \/ Untouched(p)
    BY RecoverRows DEF ReportInv
<1>2. UNCHANGED <<callFeedback, claim>> /\ leased' \subseteq leased
    BY DEF RecoverStale, callVars
<1>3. CASE Requeued(p)
    <2>1. status'[p] = "queued" /\ activation'[p][current'[p]] = "queued"
        BY <1>3, ReportRows DEF Requeued
    <2>2. QED
        BY <2>1, UnparkedSees DEF OverIsReleased
<1>4. CASE Untouched(p)
    BY <1>2, <1>4, SameRunSees DEF Untouched, SameRun
<1>5. QED
    BY <1>1, <1>3, <1>4

LEMMA StopSees ==
    ASSUME ReportInv, NEW r \in Run, NEW p \in Run, StopActivation(r)
    PROVE  Sees(p)
<1>1. /\ UNCHANGED <<current, callFeedback, claim>> /\ leased' = leased \ ClaimsOf(r)
      /\ status' = [status EXCEPT ![r] = "completed"]
      /\ waiting' = [waiting EXCEPT ![r] = "none"]
      /\ activation' = [activation EXCEPT ![r][current[r]] = "cancelled"]
    BY DEF StopActivation, callVars, ClearClaims
<1>2. CASE p = r
    <2>1. ClaimsOf(p)' = {} /\ status'[p] = "completed"
        BY <1>1, <1>2, ReportRows DEF ClaimsOf
    <2>2. QED
        BY <2>1, UnparkedSees DEF OverIsReleased
<1>3. CASE p # r
    BY <1>1, <1>3, ReportRows, SameRunSees DEF SameRun
<1>4. QED
    BY <1>2, <1>3

\* The mark of a call whose worker still has its lease finds the activation going on.
LEMMA MarkSees ==
    ASSUME ReportInv, NEW x \in calling, NEW p \in Run, MarkAgentCallWaiting(x)
    PROVE  Sees(p)
<1>1. PICK r : r = claim[x.by].run
    OBVIOUS
<1>2. /\ UNCHANGED <<current, activation, callFeedback, claim, leased>>
      /\ x \in calling \ calling'
      /\ \/ UNCHANGED <<status, waiting>>
         \/ /\ status' = [status EXCEPT ![r] = "waiting"]
            /\ waiting' = [waiting EXCEPT ![r] = "agent_call"]
    BY <1>1 DEF MarkAgentCallWaiting, callVars, leaseVars
<1>3. OverIsReleased(p)'
    BY <1>2 DEF ReportInv, OverIsReleased, ClaimsOf
<1>4. CASE p = r
    <2>1. x.by \in leased => ClaimsOf(p) # {}
        BY <1>1, <1>4 DEF ClaimsOf
    <2>2. x.by \in leased => ~MissedReport(p)'
        BY <1>2, <2>1 DEF ReportInv, OverIsReleased, MissedReport
    <2>3. QED
        BY <1>1, <1>2, <1>3, <1>4, <2>2 DEF Sees, Misses, LateMark
<1>5. CASE p # r
    BY <1>2, <1>5, ReportRows, SameRunSees DEF SameRun
<1>6. QED
    BY <1>4, <1>5

LEMMA CallSees ==
    ASSUME ReportInv, NEW x \in calling, NEW p \in Run, CallStep(x)
    PROVE  Sees(p)
<1>1. x.called \in Run
    BY DEF ReportInv, Inv, TypeOK, AgentCall
<1>2. CASE BindThread(x)
    BY <1>2, SameRunSees DEF BindThread, SameRun, runVars, callVars, leaseVars
<1>3. CASE ContinueThread(x)
    <2>1. UNCHANGED <<callFeedback, claim, leased>>
        BY <1>3 DEF ContinueThread, callVars
    <2>2. CASE QueueNextActivation(x.called)
        BY <1>1, <2>1, <2>2, QueueNextSees
    <2>3. CASE UNCHANGED runVars
        BY <2>1, <2>3, SameRunSees DEF SameRun, runVars
    <2>4. QED
        BY <1>3, <2>2, <2>3 DEF ContinueThread
<1>4. CASE MarkAgentCallWaiting(x)
    BY <1>4, MarkSees
<1>5. QED
    BY <1>2, <1>3, <1>4 DEF CallStep

-----------------------------------------------------------------------------
\* A report that Settle leaves was there before, and not for a run that it looks
\* at on its own account.
LEMMA SettleSees ==
    ASSUME ReportInv, NEW ended, NEW self, NEW st, NEW wr, NEW cur, NEW act,
           NEW held \in SUBSET leased, Settle(ended, self, st, wr, cur, act, held),
           NEW p \in Run, cur[p] \in Seq1,
           act[p] \in [Seq1 -> RunStatus],
           act[p][cur[p]] \in EndedActivation => ClaimsOf(p) \cap held = {}
    PROVE  /\ OverIsReleased(p)'
           /\ MissedReport(p)' =>
                /\ st[p] = "waiting" /\ wr[p] = "agent_call" /\ p \notin self
                /\ act[p][cur[p]] \in EndedActivation /\ callFeedback[p] > 0
<1>1. PICK R : R = Resumed(ended, self, st, wr, cur, act)
    OBVIOUS
<1>2. claim' = claim /\ leased' = held
    BY DEF Settle
<1>3. CASE p \in R
    <2>1. /\ status'[p] = "queued" /\ current'[p] = cur[p] + 1 /\ cur[p] < MaxSeq
          /\ activation'[p] = [act[p] EXCEPT ![cur[p] + 1] = "queued"]
        BY <1>1, <1>3 DEF Settle
    <2>2. activation'[p][current'[p]] = "queued"
        BY <2>1, BoundAssumption
    <2>3. QED
        BY <2>1, <2>2 DEF OverIsReleased, MissedReport
<1>4. CASE p \notin R
    <2>1. /\ status'[p] = st[p] /\ waiting'[p] = wr[p] /\ current'[p] = cur[p]
          /\ activation'[p] = act[p]
          /\ callFeedback'[p] = callFeedback[p] + Cardinality(Reports(ended, p)) - 0
        BY <1>1, <1>4 DEF Settle
    <2>2. ClaimsOf(p)' = ClaimsOf(p) \cap held
        BY <1>2 DEF ClaimsOf
    <2>3. OverIsReleased(p)'
        BY <2>1, <2>2 DEF OverIsReleased
    <2>4. ASSUME MissedReport(p)'
          PROVE  /\ Reports(ended, p) = {} /\ ~(p \in self /\ callFeedback[p] > 0)
                 /\ st[p] = "waiting" /\ wr[p] = "agent_call"
                 /\ act[p][cur[p]] \in EndedActivation
        BY <1>1, <1>4, <2>1, <2>4 DEF MissedReport, Resumed
    <2>5. Reports(ended, p) = {} => callFeedback'[p] = callFeedback[p]
        BY <2>1, ReportRows, FS_EmptySet
    <2>6. QED
        BY <2>3, <2>4, <2>5 DEF MissedReport
<1>5. QED
    BY <1>3, <1>4

LEMMA CompleteSees ==
    ASSUME ReportInv, NEW c \in Claim, NEW result \in Result, NEW violates \in BOOLEAN,
           NEW p \in Run, Complete(c, result, violates)
    PROVE  Sees(p)
<1>1. PICK r, s : r = claim[c].run /\ s = claim[c].seq
    OBVIOUS
<1>2. r \in Run /\ s \in Seq1
    BY <1>1, LeasedClaim, IssuedClaim DEF ReportInv, Complete
<1>3. PICK cur, act, held :
        /\ cur = [current EXCEPT ![r] = s] /\ act = [activation EXCEPT ![r][s] = result]
        /\ held = leased \ ClaimsOf(r)
    OBVIOUS
<1>4. PICK ended, self, end, reason :
        /\ Settle(ended, self, [status EXCEPT ![r] = end], [waiting EXCEPT ![r] = reason],
                  cur, act, held)
        /\ r \in self \/ end # "waiting"
    <2>1. CASE \E reason \in IF status[r] = "waiting" THEN {waiting[r]}
                              ELSE FeedbackReasons(r) :
                Settle({}, {r}, [status EXCEPT ![r] = "waiting"],
                       [waiting EXCEPT ![r] = reason], cur, act, held)
        BY <2>1
    <2>2. CASE Settle({r}, {}, [status EXCEPT ![r] =
                          IF violates \/ r \in violating THEN "blocked" ELSE result],
                      [waiting EXCEPT ![r] = "none"], cur, act, held)
        BY <2>2
    <2>3. QED
        BY <1>1, <1>3, <2>1, <2>2 DEF Complete, ClearClaims
<1>5. PICK st, wr : st = [status EXCEPT ![r] = end] /\ wr = [waiting EXCEPT ![r] = reason]
    OBVIOUS
<1>6. /\ cur[p] \in Seq1 /\ act[p] \in [Seq1 -> RunStatus]
      /\ act[p][cur[p]] \in EndedActivation => ClaimsOf(p) \cap held = {}
    <2>1. CASE p = r
        BY <1>2, <1>3, <2>1, ReportRows
    <2>2. CASE p # r
        BY <1>2, <1>3, <2>2, ReportRows DEF ReportInv, OverIsReleased
    <2>3. QED
        BY <2>1, <2>2
<1>7. /\ OverIsReleased(p)'
      /\ MissedReport(p)' =>
            /\ st[p] = "waiting" /\ wr[p] = "agent_call" /\ p \notin self
            /\ act[p][cur[p]] \in EndedActivation /\ callFeedback[p] > 0
    <2>1. held \in SUBSET leased /\ Settle(ended, self, st, wr, cur, act, held)
        BY <1>3, <1>4, <1>5
    <2>2. QED
        BY <1>6, <2>1, SettleSees
<1>8. MissedReport(p)' => p # r
    BY <1>2, <1>4, <1>5, <1>7, ReportRows
<1>9. p # r => /\ st[p] = status[p] /\ wr[p] = waiting[p] /\ cur[p] = current[p]
               /\ act[p] = activation[p]
    BY <1>3, <1>5, ReportRows
<1>10. QED
    BY <1>7, <1>8, <1>9 DEF Sees, Misses, MissedReport

LEMMA CancelSees ==
    ASSUME ReportInv, NEW open, NEW p \in Run, CancelRuns(open)
    PROVE  Sees(p)
<1>1. PICK ended, st, wr, held :
        /\ st = [d \in Run |-> IF d \in ended THEN "cancelled" ELSE status[d]]
        /\ wr = [d \in Run |-> IF d \in ended THEN "none" ELSE waiting[d]]
        /\ held \subseteq leased
        /\ Settle(ended, {}, st, wr, current, activation, held)
    BY DEF CancelRuns
<1>2. /\ current[p] \in Seq1 /\ activation[p] \in [Seq1 -> RunStatus]
      /\ activation[p][current[p]] \in EndedActivation => ClaimsOf(p) \cap held = {}
    BY ReportRows DEF ReportInv, OverIsReleased
<1>3. /\ OverIsReleased(p)'
      /\ MissedReport(p)' =>
            /\ st[p] = "waiting" /\ wr[p] = "agent_call"
            /\ activation[p][current[p]] \in EndedActivation /\ callFeedback[p] > 0
    BY <1>1, <1>2, SettleSees
<1>4. QED
    BY <1>1, <1>3 DEF Sees, Misses, MissedReport

-----------------------------------------------------------------------------
LEMMA ReportStep ==
    ASSUME ReportInv, [Next]_vars, NEW p \in Run
    PROVE  Sees(p)
<1>1. ASSUME NEW r \in Run, NEW started \in BOOLEAN, Submit(r, started)
      PROVE  Sees(p)
    BY <1>1, AddRunSees DEF Submit
<1>2. ASSUME NEW k \in WorkerKind, ClaimActivation(k)
      PROVE  Sees(p)
    BY <1>2, ClaimSees
<1>3. ASSUME NEW c \in Claim, WorkerStep(c)
      PROVE  Sees(p)
    <2>1. CASE \/ Heartbeat(c) \/ PinSession(c)
               \/ ReportRunning(c) \/ ReportBlocked(c)
               \/ ReportWaitingApproval(c) \/ ReportPolicyViolation(c)
        BY <2>1, WorkerSees
    <2>2. CASE \E result \in Result, violates \in BOOLEAN :
                  Complete(c, result, violates)
        BY <2>2, CompleteSees
    <2>3. CASE \E r \in Run, persistent, wait, started \in BOOLEAN :
                  SubmitAgentCall(c, r, persistent, wait, started)
        BY <2>3, AddRunSees DEF SubmitAgentCall
    <2>4. CASE \E r \in Run, wait \in BOOLEAN : FindThread(c, r, wait)
        BY <2>4, SameRunSees DEF FindThread, SameRun, runVars, callVars, leaseVars
    <2>5. QED
        BY <1>3, <2>1, <2>2, <2>3, <2>4 DEF WorkerStep
<1>4. ASSUME NEW x \in calling, CallStep(x)
      PROVE  Sees(p)
    BY <1>4, CallSees
<1>5. CASE RecoverStale
    BY <1>5, RecoverSees
<1>6. CASE \/ \E c \in Claim : LeaseLapses(c) \/ WorkerStops(c)
           \/ \E r \in Run : AppendReviewFeedback(r)
           \/ UNCHANGED vars
    BY <1>6, SameRunSees DEF LeaseLapses, WorkerStops, AppendReviewFeedback, SameRun,
           runVars, callVars, leaseVars, vars
<1>7. ASSUME NEW r \in Run,
             Retry(r) \/ \E consumed \in {0, 1} : Continue(r, consumed)
      PROVE  Sees(p)
    BY <1>7, QueueNextSees DEF Continue, Retry, callVars
<1>8. ASSUME NEW r \in Run, StopActivation(r)
      PROVE  Sees(p)
    BY <1>8, StopSees
<1>9. ASSUME NEW r \in Run, Cancel(r) \/ \E cancel \in BOOLEAN : EndThread(r, cancel)
      PROVE  Sees(p)
    BY <1>9, CancelSees DEF Cancel, EndThread
<1>10. QED
    BY <1>1, <1>2, <1>3, <1>4, <1>5, <1>6, <1>7, <1>8, <1>9 DEF Next

LEMMA ReportAlways == Spec => []ReportInv
<1>1. Init => ReportInv
    BY InitInv DEF ReportInv, OverIsReleased, ClaimsOf, Init
<1>2. ReportInv /\ [Next]_vars => ReportInv'
    BY NextInv, ReportStep DEF ReportInv, Sees
<1>3. QED
    BY <1>1, <1>2, PTL DEF Spec

\* A caller whose activation is over and for which a report is there is parked by
\* no step but the mark of an agent call whose worker has lost its lease: whichever
\* of caller and called run ends first, the other is seen.
THEOREM ReportWakesCaller == Spec => ReportMissedOnlyByLateMark
<1>1. ReportInv /\ [Next]_vars =>
        [\A r \in Run :
            ~MissedReport(r) /\ MissedReport(r)' =>
                \E x \in calling \ calling' :
                    claim[x.by].run = r /\ x.by \notin leased]_vars
    BY ReportStep DEF Sees, Misses, LateMark
<1>2. QED
    BY <1>1, ReportAlways, PTL DEF Spec, ReportMissedOnlyByLateMark

-----------------------------------------------------------------------------
\* Who waits is told.  Nothing was said of the end of run d: it has not ended, or
\* not in a way that is reported.
Owed(d) == Open(d) \/ EndedUnreported(d)

CalledBy(d, p) == relation[d] = [owner |-> p, wait |-> TRUE]

\* A call of which a mark is to come.
Expects(x) == x.step = "mark" \/ (x.step = "bind" /\ x.wait)

\* As long as the worker that calls has its lease, the report of the called run is
\* there or is owed: the caller cannot have consumed it.
CallKept(x) ==
    /\ relation[x.called].owner = claim[x.by].run
    /\ Expects(x) /\ x.by \in leased /\ relation[x.called].wait =>
            callFeedback[claim[x.by].run] > 0 \/ Owed(x.called)

CallInv ==
    /\ ReportInv /\ BoundSubmitted
    /\ \A r \in Run : status[r] = "absent" => current[r] = 1
    /\ \A x \in calling : CallKept(x)

\* The caller p is given a new activation and has no lease.
Woken(p) == status'[p] = "queued" /\ ClaimsOf(p)' = {}

\* What a step does to the reports of p, to the run d that p called, and to p.
Carries(p) == callFeedback[p] > 0 => callFeedback'[p] > 0 \/ Woken(p)

Follows(p, d) ==
    CalledBy(d, p) /\ status[d] # "absent" /\ Owed(d) =>
        Owed(d)' \/ callFeedback'[p] > 0 \/ Woken(p)

Parked(p) == status[p] = "waiting" /\ waiting[p] = "agent_call"

Parks(p) ==
    Parked(p)' =>
        \/ Parked(p)
        \/ \E x \in calling : MarkAgentCallWaiting(x) /\ claim[x.by].run = p

Fresh(p) == status'[p] = "absent" => current'[p] = current[p]

Tells(p, d) == Carries(p) /\ Follows(p, d) /\ Parks(p) /\ Fresh(p)

LEMMA OwedWhenSame ==
    ASSUME NEW d \in Run, Owed(d), status'[d] = status[d], current'[d] = current[d],
           activation'[d] = activation[d]
    PROVE  Owed(d)'
BY DEF Owed, Open, EndedUnreported

LEMMA OwedWhenActive ==
    ASSUME NEW d \in Run, status'[d] \in {"queued", "dispatched", "running", "waiting"}
    PROVE  Owed(d)'
BY DEF Owed, Open

\* A step that makes and consumes no report.
LEMMA QuietTells ==
    ASSUME NEW p \in Run, NEW d \in Run, UNCHANGED callFeedback,
           CalledBy(d, p) /\ status[d] # "absent" /\ Owed(d) => Owed(d)',
           Parks(p), Fresh(p)
    PROVE  Tells(p, d)
BY DEF Tells, Carries, Follows

\* One that leaves the rows alone.
LEMMA SameTells ==
    ASSUME NEW p \in Run, NEW d \in Run, UNCHANGED <<runVars, callFeedback>>
    PROVE  Tells(p, d)
<1>1. Parks(p) /\ Fresh(p)
    BY DEF Parks, Parked, Fresh, runVars
<1>2. Owed(d) => Owed(d)'
    BY OwedWhenSame DEF runVars
<1>3. QED
    BY <1>1, <1>2, QuietTells DEF runVars

\* One that moves run r to an active status, and no other run.
LEMMA ActiveTells ==
    ASSUME CallInv, NEW p \in Run, NEW d \in Run, NEW r \in Run, UNCHANGED callFeedback,
           status'[r] \in {"queued", "dispatched", "running", "waiting"},
           status'[r] = "waiting" /\ waiting'[r] = "agent_call" =>
                \E x \in calling : MarkAgentCallWaiting(x) /\ claim[x.by].run = r,
           \A q \in Run \ {r} : /\ status'[q] = status[q] /\ waiting'[q] = waiting[q]
                                /\ current'[q] = current[q]
                                /\ activation'[q] = activation[q]
    PROVE  Tells(p, d)
<1>1. Owed(d) => Owed(d)'
    BY OwedWhenSame, OwedWhenActive
<1>2. Parks(p)
    BY DEF Parks, Parked
<1>3. Fresh(p)
    BY DEF Fresh
<1>4. QED
    BY <1>1, <1>2, <1>3, QuietTells

LEMMA AddRunTells ==
    ASSUME CallInv, NEW r \in Run, NEW p \in Run, NEW d \in Run, NEW owner, NEW wait,
           NEW started, AddRun(r, owner, wait, started)
    PROVE  Tells(p, d)
<1>1. /\ UNCHANGED <<waiting, current, callFeedback>> /\ status[r] = "absent"
      /\ status' = [status EXCEPT ![r] = IF started THEN "queued" ELSE "failed"]
      /\ activation' = [activation EXCEPT ![r][1] = "queued"]
    BY DEF AddRun
<1>2. ReportInv
    BY DEF CallInv
<1>3. d # r => status'[d] = status[d] /\ activation'[d] = activation[d]
    BY <1>1, <1>2, ReportRows
<1>4. CalledBy(d, p) /\ status[d] # "absent" /\ Owed(d) => Owed(d)'
    BY <1>1, <1>3, OwedWhenSame
<1>5. Parks(p)
    <2>1. status'[p] = status[p] \/ status'[p] # "waiting"
        BY <1>1, <1>2, ReportRows
    <2>2. QED
        BY <1>1, <2>1 DEF Parks, Parked
<1>6. Fresh(p)
    BY <1>1 DEF Fresh
<1>7. QED
    BY <1>1, <1>4, <1>5, <1>6, QuietTells

LEMMA QueueNextTells ==
    ASSUME CallInv, NEW r \in Run, NEW p \in Run, NEW d \in Run,
           QueueNextActivation(r), UNCHANGED callFeedback
    PROVE  Tells(p, d)
<1>1. ReportInv
    BY DEF CallInv
<1>2. /\ status'[r] = "queued"
      /\ \A q \in Run \ {r} : /\ status'[q] = status[q] /\ waiting'[q] = waiting[q]
                              /\ current'[q] = current[q]
                              /\ activation'[q] = activation[q]
    BY <1>1, ReportRows DEF QueueNextActivation
<1>3. QED
    BY <1>2, ActiveTells

LEMMA ClaimTells ==
    ASSUME CallInv, NEW k \in WorkerKind, NEW p \in Run, NEW d \in Run, ClaimActivation(k)
    PROVE  Tells(p, d)
<1>1. PICK r \in Run :
        /\ status' = [status EXCEPT ![r] = "dispatched"]
        /\ activation' = [activation EXCEPT ![r][current[r]] = "dispatched"]
    BY DEF ClaimActivation
<1>2. UNCHANGED <<waiting, current, callFeedback>>
    BY DEF ClaimActivation, callVars
<1>3. ReportInv
    BY DEF CallInv
<1>4. /\ status'[r] = "dispatched"
      /\ \A q \in Run \ {r} : status'[q] = status[q] /\ activation'[q] = activation[q]
    BY <1>1, <1>3, ReportRows
<1>5. QED
    BY <1>2, <1>4, ActiveTells

\* What a worker with a lease reports sets its run RUNNING or BLOCKED, or parks it
\* for an approval; the lease says that the activation is not over.
LEMMA WorkerTells ==
    ASSUME CallInv, NEW c \in Claim, NEW p \in Run, NEW d \in Run,
           \/ Heartbeat(c) \/ PinSession(c)
           \/ ReportRunning(c) \/ ReportBlocked(c)
           \/ ReportWaitingApproval(c) \/ ReportPolicyViolation(c)
    PROVE  Tells(p, d)
<1>1. PICK r, s : r = claim[c].run /\ s = claim[c].seq
    OBVIOUS
<1>2. /\ UNCHANGED <<current, callFeedback>> /\ c \in leased
      /\ \/ activation' = activation
         \/ activation' = [activation EXCEPT ![r][s] = "running"]
    BY <1>1 DEF Heartbeat, PinSession, ReportRunning, ReportBlocked,
           ReportWaitingApproval, ReportPolicyViolation, ExecutorStatus, callVars
<1>3. ReportInv /\ r \in Run /\ current[d] \in Seq1
    <2>1. ReportInv /\ Inv
        BY DEF CallInv, ReportInv
    <2>2. QED
        BY <1>1, <1>2, <2>1, ReportRows, LeasedClaim, IssuedClaim
<1>4. \/ status'[p] = status[p] /\ waiting'[p] = waiting[p]
      \/ status'[p] # "waiting" \/ waiting'[p] # "agent_call"
    BY <1>1, <1>3, ReportRows
       DEF Heartbeat, PinSession, ReportRunning, ReportBlocked,
           ReportWaitingApproval, ReportPolicyViolation, ExecutorStatus
<1>5. Parks(p) /\ Fresh(p)
    BY <1>2, <1>4 DEF Parks, Parked, Fresh
<1>6. CASE d = r
    <2>1. /\ activation[d][current[d]] \notin EndedActivation
          /\ status[d] \notin ClosedStatus
        <3>1. c \in ClaimsOf(d)
            BY <1>1, <1>2, <1>6 DEF ClaimsOf
        <3>2. QED
            BY <1>3, <3>1 DEF ReportInv, Inv, OverIsReleased, ClosedRunReleased
    <2>2. activation'[d][current[d]] \notin EndedActivation
        <3>1. activation \in [Run -> [Seq1 -> RunStatus]]
            BY <1>3, ReportRows
        <3>2. \/ activation'[d] = activation[d]
              \/ activation'[d] = [activation[d] EXCEPT ![s] = "running"]
            BY <1>2, <3>1
        <3>3. activation[d] \in [Seq1 -> RunStatus]
            BY <3>1
        <3>4. QED
            BY <1>3, <2>1, <3>2, <3>3
    <2>3. status'[d] = status[d] \/ status'[d] \in {"running", "blocked", "waiting"}
        BY <1>1, <1>3, ReportRows
           DEF Heartbeat, PinSession, ReportRunning, ReportBlocked,
               ReportWaitingApproval, ReportPolicyViolation, ExecutorStatus
    <2>4. Owed(d) => Owed(d)'
        BY <1>2, <2>1, <2>2, <2>3 DEF Owed, Open, EndedUnreported
    <2>5. QED
        BY <1>2, <1>5, <2>4, QuietTells
<1>7. CASE d # r
    <2>1. status'[d] = status[d] /\ activation'[d] = activation[d]
        BY <1>1, <1>2, <1>3, <1>7, ReportRows
           DEF Heartbeat, PinSession, ReportRunning, ReportBlocked,
               ReportWaitingApproval, ReportPolicyViolation, ExecutorStatus
    <2>2. Owed(d) => Owed(d)'
        BY <1>2, <2>1, OwedWhenSame
    <2>3. QED
        BY <1>2, <1>5, <2>2, QuietTells
<1>8. QED
    BY <1>6, <1>7

LEMMA RecoverTells ==
    ASSUME CallInv, NEW p \in Run, NEW d \in Run, RecoverStale
    PROVE  Tells(p, d)
<1>1. UNCHANGED callFeedback
    BY DEF RecoverStale, callVars
<1>2. \A q \in Run : Requeued(q) \/ Untouched(q)
    BY RecoverRows DEF CallInv, ReportInv
<1>3. Owed(d) => Owed(d)'
    BY <1>2, OwedWhenSame, OwedWhenActive DEF Requeued, Untouched
<1>4. Parks(p) /\ Fresh(p)
    BY <1>2 DEF Parks, Parked, Fresh, Requeued, Untouched
<1>5. QED
    BY <1>1, <1>3, <1>4, QuietTells

\* A stop tells nobody.
LEMMA StopTells ==
    ASSUME CallInv, NEW r \in Run, NEW p \in Run, NEW d \in Run, StopActivation(r)
    PROVE  Tells(p, d)
<1>1. /\ UNCHANGED <<current, callFeedback>>
      /\ status' = [status EXCEPT ![r] = "completed"]
      /\ waiting' = [waiting EXCEPT ![r] = "none"]
      /\ activation' = [activation EXCEPT ![r][current[r]] = "cancelled"]
    BY DEF StopActivation, callVars
<1>2. ReportInv
    BY DEF CallInv
<1>3. Parks(p) /\ Fresh(p)
    <2>1. status'[p] = "completed" \/ (status'[p] = status[p] /\ waiting'[p] = waiting[p])
        BY <1>1, <1>2, ReportRows
    <2>2. QED
        BY <1>1, <2>1 DEF Parks, Parked, Fresh
<1>4. CASE d = r
    <2>1. status'[d] = "completed" /\ activation'[d][current'[d]] = "cancelled"
        BY <1>1, <1>2, <1>4, ReportRows
    <2>2. Owed(d)'
        BY <2>1 DEF Owed, EndedUnreported
    <2>3. QED
        BY <1>1, <1>3, <2>2, QuietTells
<1>5. CASE d # r
    <2>1. status'[d] = status[d] /\ activation'[d] = activation[d]
        BY <1>1, <1>2, <1>5, ReportRows
    <2>2. QED
        BY <1>1, <1>3, <2>1, OwedWhenSame, QuietTells
<1>6. QED
    BY <1>4, <1>5

LEMMA CallTells ==
    ASSUME CallInv, NEW x \in calling, NEW p \in Run, NEW d \in Run, CallStep(x)
    PROVE  Tells(p, d)
<1>1. x.called \in Run /\ x.by \in 1..issued /\ ReportInv /\ Inv
    BY DEF CallInv, ReportInv, Inv, TypeOK, AgentCall
<1>2. CASE BindThread(x)
    BY <1>2, SameTells DEF BindThread, callVars
<1>3. CASE ContinueThread(x)
    <2>1. UNCHANGED callFeedback
        BY <1>3 DEF ContinueThread, callVars
    <2>2. CASE QueueNextActivation(x.called)
        BY <1>1, <2>1, <2>2, QueueNextTells
    <2>3. CASE UNCHANGED runVars
        BY <2>1, <2>3, SameTells
    <2>4. QED
        BY <1>3, <2>2, <2>3 DEF ContinueThread
<1>4. CASE MarkAgentCallWaiting(x)
    <2>1. PICK r \in Run : r = claim[x.by].run
        BY <1>1, IssuedClaim
    <2>2. /\ UNCHANGED <<current, activation, callFeedback>>
          /\ \/ UNCHANGED <<status, waiting>>
             \/ /\ status' = [status EXCEPT ![r] = "waiting"]
                /\ waiting' = [waiting EXCEPT ![r] = "agent_call"]
        BY <1>4, <2>1 DEF MarkAgentCallWaiting, callVars
    <2>3. CASE UNCHANGED <<status, waiting>>
        BY <2>2, <2>3, SameTells DEF runVars
    <2>4. CASE /\ status' = [status EXCEPT ![r] = "waiting"]
               /\ waiting' = [waiting EXCEPT ![r] = "agent_call"]
        <3>1. /\ status'[r] = "waiting"
              /\ \A q \in Run \ {r} : status'[q] = status[q] /\ waiting'[q] = waiting[q]
            BY <1>1, <2>4, ReportRows
        <3>2. \E y \in calling : MarkAgentCallWaiting(y) /\ claim[y.by].run = r
            BY <1>4, <2>1
        <3>3. QED
            BY <2>2, <3>1, <3>2, ActiveTells
    <2>5. QED
        BY <2>2, <2>3, <2>4
<1>5. QED
    BY <1>2, <1>3, <1>4 DEF CallStep

-----------------------------------------------------------------------------
LEMMA ReportsCounted ==
    ASSUME ReportInv, NEW ended \in SUBSET Run, NEW p \in Run
    PROVE  /\ Cardinality(Reports(ended, p)) \in Nat
           /\ Reports(ended, p) # {} => Cardinality(Reports(ended, p)) > 0
<1>1. IsFiniteSet(Reports(ended, p))
    BY RunAssumption, FS_Subset DEF Reports
<1>2. /\ Cardinality(Reports(ended, p)) \in Nat
      /\ Cardinality(Reports(ended, p)) = 0 <=> Reports(ended, p) = {}
    BY <1>1, FS_CardinalityType, FS_EmptySet
<1>3. QED
    BY <1>2

\* What the enclosing action hands to Settle: it moves the rows of runs that end or
\* park, and releases and parks a caller only as below.
HandsOver(p, d, ended, self, st, wr, cur, act, held) ==
    /\ act[p][cur[p]] \in EndedActivation => ClaimsOf(p) \cap held = {}
    /\ \/ d \in ended \/ st[d] = "waiting"
       \/ st[d] = status[d] /\ cur[d] = current[d] /\ act[d] = activation[d]
    /\ st[p] = "waiting" /\ wr[p] = "agent_call" =>
            \/ Parked(p)
            \/ p \in self /\ callFeedback[p] > 0 /\ act[p][cur[p]] \in EndedActivation
    /\ st[p] = "absent" => cur[p] = current[p]

\* Settle reports the end of every run of `ended`, and a report is consumed by waking
\* the caller, which no worker has a lease of then.
LEMMA SettleTells ==
    ASSUME CallInv, NEW ended \in SUBSET Run, NEW self, NEW st, NEW wr, NEW cur, NEW act,
           NEW held \in SUBSET leased, Settle(ended, self, st, wr, cur, act, held),
           NEW p \in Run, NEW d \in Run,
           HandsOver(p, d, ended, self, st, wr, cur, act, held)
    PROVE  Tells(p, d)
<1>1. PICK R : R = Resumed(ended, self, st, wr, cur, act)
    OBVIOUS
<1>2. ReportInv /\ Inv /\ claim' = claim /\ leased' = held
    BY DEF CallInv, ReportInv, Settle
<1>3. CASE p \in R
    <2>1. status'[p] = "queued"
        BY <1>1, <1>3 DEF Settle
    <2>2. act[p][cur[p]] \in EndedActivation
        BY <1>1, <1>3 DEF Resumed
    <2>3. ClaimsOf(p)' = {}
        BY <1>2, <2>2 DEF ClaimsOf, HandsOver
    <2>4. QED
        BY <2>1, <2>3 DEF Tells, Carries, Follows, Parks, Parked, Fresh, Woken
<1>4. CASE p \notin R
    <2>1. /\ status'[p] = st[p] /\ waiting'[p] = wr[p] /\ current'[p] = cur[p]
          /\ callFeedback'[p] = callFeedback[p] + Cardinality(Reports(ended, p)) - 0
        BY <1>1, <1>4 DEF Settle
    <2>2. PICK n \in Nat : /\ n = Cardinality(Reports(ended, p))
                           /\ Reports(ended, p) # {} => n > 0
        BY <1>2, ReportsCounted
    <2>3. callFeedback[p] \in Nat /\ callFeedback'[p] = callFeedback[p] + n
        BY <1>2, <2>1, <2>2, ReportRows
    <2>4. Carries(p)
        BY <2>2, <2>3 DEF Carries
    <2>5. Follows(p, d)
        <3> USE DEF HandsOver
        <3>1. CASE d \in ended
            <4>1. CalledBy(d, p) => d \in Reports(ended, p)
                BY <3>1 DEF CalledBy, Reports
            <4>2. CalledBy(d, p) => n > 0
                BY <2>2, <4>1
            <4>3. QED
                BY <2>2, <2>3, <4>2 DEF Follows
        <3>2. CASE st[d] = "waiting" \/ (/\ st[d] = status[d] /\ cur[d] = current[d]
                                         /\ act[d] = activation[d])
            <4>1. Resumes(d, st, cur, act) \/ Keeps(d, st, wr, cur, act)
                BY <1>2, SettleRows
            <4>2. Owed(d) => Owed(d)'
                BY <3>2, <4>1, OwedWhenSame, OwedWhenActive DEF Resumes, Keeps
            <4>3. QED
                BY <4>2 DEF Follows
        <3>3. QED
            BY <3>1, <3>2
    <2>6. Parks(p)
        <3>1. ~(/\ st[p] = "waiting" /\ wr[p] = "agent_call" /\ p \in self
                /\ callFeedback[p] > 0 /\ act[p][cur[p]] \in EndedActivation)
            BY <1>1, <1>4 DEF Resumed
        <3>2. QED
            BY <2>1, <3>1 DEF Parks, Parked, HandsOver
    <2>7. Fresh(p)
        BY <2>1 DEF Fresh, HandsOver
    <2>8. QED
        BY <2>4, <2>5, <2>6, <2>7 DEF Tells
<1>5. QED
    BY <1>3, <1>4

LEMMA CancelTells ==
    ASSUME CallInv, NEW open, NEW p \in Run, NEW d \in Run, open \subseteq Run,
           CancelRuns(open)
    PROVE  Tells(p, d)
<1>1. PICK ended, st, wr, held :
        /\ st = [q \in Run |-> IF q \in ended THEN "cancelled" ELSE status[q]]
        /\ wr = [q \in Run |-> IF q \in ended THEN "none" ELSE waiting[q]]
        /\ held \subseteq leased /\ ended \subseteq open
        /\ Settle(ended, {}, st, wr, current, activation, held)
    BY DEF CancelRuns, EndsAtOnce
<1>2. ended \in SUBSET Run /\ held \in SUBSET leased
    BY <1>1
<1>3. activation[p][current[p]] \in EndedActivation => ClaimsOf(p) \cap held = {}
    BY DEF CallInv, ReportInv, OverIsReleased
<1>4. \/ d \in ended \/ st[d] = "waiting"
      \/ st[d] = status[d] /\ current[d] = current[d] /\ activation[d] = activation[d]
    BY <1>1
<1>5. st[p] = "waiting" /\ wr[p] = "agent_call" => Parked(p)
    BY <1>1 DEF Parked
<1>6. HandsOver(p, d, ended, {}, st, wr, current, activation, held)
    BY <1>3, <1>4, <1>5 DEF HandsOver
<1>7. QED
    BY <1>1, <1>2, <1>6, SettleTells

LEMMA CompleteTells ==
    ASSUME CallInv, NEW c \in Claim, NEW result \in Result, NEW violates \in BOOLEAN,
           NEW p \in Run, NEW d \in Run, Complete(c, result, violates)
    PROVE  Tells(p, d)
<1>1. PICK r, s : r = claim[c].run /\ s = claim[c].seq
    OBVIOUS
<1>2. ReportInv /\ Inv /\ c \in leased /\ r \in Run /\ s \in Seq1
    <2>1. ReportInv /\ Inv /\ c \in leased
        BY DEF CallInv, ReportInv, Complete
    <2>2. QED
        BY <1>1, <2>1, LeasedClaim, IssuedClaim
<1>3. PICK cur, act, held :
        /\ cur = [current EXCEPT ![r] = s] /\ act = [activation EXCEPT ![r][s] = result]
        /\ held = leased \ ClaimsOf(r)
    OBVIOUS
<1>4. PICK ended, self, end, reason :
        /\ Settle(ended, self, [status EXCEPT ![r] = end], [waiting EXCEPT ![r] = reason],
                  cur, act, held)
        /\ end # "absent" /\ ended \in SUBSET Run
        /\ r \in ended \/ end = "waiting"
        /\ end = "waiting" /\ reason = "agent_call" =>
                Parked(r) \/ (r \in self /\ callFeedback[r] > 0)
    <2>1. ASSUME NEW reason \in IF status[r] = "waiting" THEN {waiting[r]}
                                ELSE FeedbackReasons(r),
                 Settle({}, {r}, [status EXCEPT ![r] = "waiting"],
                        [waiting EXCEPT ![r] = reason], cur, act, held)
          PROVE  \E ended, self, end, why :
                    /\ Settle(ended, self, [status EXCEPT ![r] = end],
                              [waiting EXCEPT ![r] = why], cur, act, held)
                    /\ end # "absent" /\ ended \in SUBSET Run
                    /\ r \in ended \/ end = "waiting"
                    /\ end = "waiting" /\ why = "agent_call" =>
                            Parked(r) \/ (r \in self /\ callFeedback[r] > 0)
        <3>1. reason = "agent_call" => Parked(r) \/ callFeedback[r] > 0
            BY <2>1 DEF FeedbackReasons, Parked
        <3>2. {} \in SUBSET Run /\ r \in {r}
            OBVIOUS
        <3>3. QED
            BY <2>1, <3>1, <3>2
    <2>2. ASSUME Settle({r}, {}, [status EXCEPT ![r] =
                            IF violates \/ r \in violating THEN "blocked" ELSE result],
                        [waiting EXCEPT ![r] = "none"], cur, act, held)
          PROVE  \E ended, self, end, why :
                    /\ Settle(ended, self, [status EXCEPT ![r] = end],
                              [waiting EXCEPT ![r] = why], cur, act, held)
                    /\ end # "absent" /\ ended \in SUBSET Run
                    /\ r \in ended \/ end = "waiting"
                    /\ end = "waiting" /\ why = "agent_call" =>
                            Parked(r) \/ (r \in self /\ callFeedback[r] > 0)
        <3>1. PICK end : end = IF violates \/ r \in violating THEN "blocked" ELSE result
            OBVIOUS
        <3>2. end \notin {"absent", "waiting"} /\ {r} \in SUBSET Run /\ r \in {r}
            BY <1>2, <3>1
        <3>3. QED
            BY <2>2, <3>1, <3>2
    <2>3. QED
        BY <1>1, <1>3, <2>1, <2>2 DEF Complete, ClearClaims
<1>5. PICK st, wr : st = [status EXCEPT ![r] = end] /\ wr = [waiting EXCEPT ![r] = reason]
    OBVIOUS
<1>6. /\ st[r] = end /\ wr[r] = reason /\ cur[r] = s /\ act[r][s] = result
      /\ \A q \in Run \ {r} : /\ st[q] = status[q] /\ wr[q] = waiting[q]
                              /\ cur[q] = current[q] /\ act[q] = activation[q]
    BY <1>2, <1>3, <1>5, ReportRows
<1>7. act[p][cur[p]] \in EndedActivation => ClaimsOf(p) \cap held = {}
    BY <1>2, <1>3, <1>6 DEF ReportInv, OverIsReleased
<1>8. \/ d \in ended \/ st[d] = "waiting"
      \/ st[d] = status[d] /\ cur[d] = current[d] /\ act[d] = activation[d]
    BY <1>4, <1>6
<1>9. st[p] = "waiting" /\ wr[p] = "agent_call" =>
        \/ Parked(p)
        \/ p \in self /\ callFeedback[p] > 0 /\ act[p][cur[p]] \in EndedActivation
    BY <1>4, <1>6 DEF Parked
<1>10. st[p] = "absent" => cur[p] = current[p]
    BY <1>4, <1>6
<1>11. held \in SUBSET leased /\ Settle(ended, self, st, wr, cur, act, held)
    BY <1>3, <1>4, <1>5
<1>12. HandsOver(p, d, ended, self, st, wr, cur, act, held)
    BY <1>7, <1>8, <1>9, <1>10 DEF HandsOver
<1>13. QED
    BY <1>4, <1>11, <1>12, SettleTells

-----------------------------------------------------------------------------
LEMMA TellsStep ==
    ASSUME CallInv, [Next]_vars, NEW p \in Run, NEW d \in Run
    PROVE  Tells(p, d)
<1>1. ASSUME NEW r \in Run, NEW started \in BOOLEAN, Submit(r, started)
      PROVE  Tells(p, d)
    BY <1>1, AddRunTells DEF Submit
<1>2. ASSUME NEW k \in WorkerKind, ClaimActivation(k)
      PROVE  Tells(p, d)
    BY <1>2, ClaimTells
<1>3. ASSUME NEW c \in Claim, WorkerStep(c)
      PROVE  Tells(p, d)
    <2>1. CASE \/ Heartbeat(c) \/ PinSession(c)
               \/ ReportRunning(c) \/ ReportBlocked(c)
               \/ ReportWaitingApproval(c) \/ ReportPolicyViolation(c)
        BY <2>1, WorkerTells
    <2>2. CASE \E result \in Result, violates \in BOOLEAN :
                  Complete(c, result, violates)
        BY <2>2, CompleteTells
    <2>3. CASE \E r \in Run, persistent, wait, started \in BOOLEAN :
                  SubmitAgentCall(c, r, persistent, wait, started)
        BY <2>3, AddRunTells DEF SubmitAgentCall
    <2>4. CASE \E r \in Run, wait \in BOOLEAN : FindThread(c, r, wait)
        BY <2>4, SameTells DEF FindThread, callVars
    <2>5. QED
        BY <1>3, <2>1, <2>2, <2>3, <2>4 DEF WorkerStep
<1>4. ASSUME NEW x \in calling, CallStep(x)
      PROVE  Tells(p, d)
    BY <1>4, CallTells
<1>5. CASE RecoverStale
    BY <1>5, RecoverTells
<1>6. CASE \/ \E c \in Claim : LeaseLapses(c) \/ WorkerStops(c)
           \/ \E r \in Run : AppendReviewFeedback(r)
           \/ UNCHANGED vars
    BY <1>6, SameTells DEF LeaseLapses, WorkerStops, AppendReviewFeedback, callVars, vars
<1>7. ASSUME NEW r \in Run,
             Retry(r) \/ \E consumed \in {0, 1} : Continue(r, consumed)
      PROVE  Tells(p, d)
    BY <1>7, QueueNextTells DEF Continue, Retry, callVars
<1>8. ASSUME NEW r \in Run, StopActivation(r)
      PROVE  Tells(p, d)
    BY <1>8, StopTells
<1>9. ASSUME NEW r \in Run, Cancel(r) \/ \E cancel \in BOOLEAN : EndThread(r, cancel)
      PROVE  Tells(p, d)
    <2>1. PICK open : open \subseteq Run /\ CancelRuns(open)
        <3>1. CASE Cancel(r)
            BY <3>1 DEF Cancel, CallTree
        <3>2. CASE \E cancel \in BOOLEAN : EndThread(r, cancel)
            BY <3>2 DEF EndThread
        <3>3. QED
            BY <1>9, <3>1, <3>2
    <2>2. QED
        BY <2>1, CancelTells
<1>10. QED
    BY <1>1, <1>2, <1>3, <1>4, <1>5, <1>6, <1>7, <1>8, <1>9 DEF Next

\* Who called a submitted run, and whether it waits, is settled.
LEMMA RelationStep ==
    ASSUME CallInv, [Next]_vars, NEW d \in Run, status[d] # "absent"
    PROVE  relation'[d] = relation[d]
<1>1. relation \in [Run -> [owner : Run \cup {NoRun}, wait : BOOLEAN]]
    BY DEF CallInv, ReportInv, Inv, TypeOK
<1>2. ASSUME NEW r \in Run, NEW owner, NEW wait, NEW started, AddRun(r, owner, wait, started)
      PROVE  relation'[d] = relation[d]
    <2>1. r # d /\ relation' = [relation EXCEPT ![r] = [owner |-> owner, wait |-> wait]]
        BY <1>2 DEF AddRun
    <2>2. QED
        BY <1>1, <2>1
<1>3. CASE relation' = relation
    BY <1>3
<1>4. ASSUME NEW c \in Claim, WorkerStep(c)
      PROVE  relation'[d] = relation[d]
    <2>1. CASE \E r \in Run, persistent, wait, started \in BOOLEAN :
                  SubmitAgentCall(c, r, persistent, wait, started)
        BY <1>2, <2>1 DEF SubmitAgentCall
    <2>2. CASE \E result \in Result, violates \in BOOLEAN :
                  Complete(c, result, violates)
        BY <1>3, <2>2 DEF Complete
    <2>3. CASE \/ Heartbeat(c) \/ PinSession(c)
               \/ ReportRunning(c) \/ ReportBlocked(c)
               \/ ReportWaitingApproval(c) \/ ReportPolicyViolation(c)
               \/ \E r \in Run, wait \in BOOLEAN : FindThread(c, r, wait)
        BY <1>3, <2>3 DEF Heartbeat, PinSession, ReportRunning, ReportBlocked,
               ReportWaitingApproval, ReportPolicyViolation, ExecutorStatus, FindThread,
               callVars
    <2>4. QED
        BY <1>4, <2>1, <2>2, <2>3 DEF WorkerStep
<1>5. CASE \E r \in Run, started \in BOOLEAN : Submit(r, started)
    BY <1>2, <1>5 DEF Submit
<1>6. CASE \/ \E k \in WorkerKind : ClaimActivation(k)
           \/ \E c \in Claim : LeaseLapses(c) \/ WorkerStops(c)
           \/ \E x \in calling : CallStep(x)
           \/ RecoverStale \/ UNCHANGED vars
    BY <1>3, <1>6 DEF ClaimActivation, LeaseLapses, WorkerStops, CallStep, BindThread,
           ContinueThread, MarkAgentCallWaiting, RecoverStale, callVars, vars
<1>7. ASSUME NEW r \in Run,
             \/ AppendReviewFeedback(r)
             \/ \E consumed \in {0, 1} : Continue(r, consumed)
             \/ Retry(r) \/ StopActivation(r) \/ Cancel(r)
             \/ \E cancel \in BOOLEAN : EndThread(r, cancel)
      PROVE  relation'[d] = relation[d]
    BY <1>3, <1>7 DEF AppendReviewFeedback, Continue, Retry, StopActivation, Cancel,
           EndThread, CancelRuns, callVars
<1>8. QED
    BY <1>4, <1>5, <1>6, <1>7 DEF Next

\* The claims that were handed out stay what they are for, and a lease is of one
\* of them or of the next.
LEMMA LeaseStep ==
    ASSUME CallInv, [Next]_vars, NEW c \in 1..issued
    PROVE  claim'[c] = claim[c] /\ (c \in leased' => c \in leased)
<1>1. /\ claim \in [Claim -> [run : Run \cup {NoRun}, seq : 0..MaxSeq]] /\ issued \in Nat
      /\ lapsed \subseteq leased
    BY DEF CallInv, ReportInv, Inv, TypeOK
<1>2. ASSUME NEW k \in WorkerKind, ClaimActivation(k)
      PROVE  claim'[c] = claim[c] /\ (c \in leased' => c \in leased)
    <2>1. c # issued + 1
        BY <1>1
    <2>2. PICK row : claim' = [claim EXCEPT ![issued + 1] = row]
        BY <1>2 DEF ClaimActivation
    <2>3. leased' = leased \cup {issued + 1}
        BY <1>2 DEF ClaimActivation
    <2>4. QED
        BY <1>1, <2>1, <2>2, <2>3
<1>3. CASE claim' = claim /\ leased' \subseteq leased
    BY <1>3
<1>4. ASSUME NEW e \in Claim, WorkerStep(e)
      PROVE  claim' = claim /\ leased' \subseteq leased
    <2>1. ASSUME NEW result \in Result, NEW violates \in BOOLEAN,
                 Complete(e, result, violates)
          PROVE  claim' = claim /\ leased' \subseteq leased
        <3>1. Inv
            BY DEF CallInv, ReportInv
        <3>2. Finishes(claim[e].run, claim[e].seq, result)
            BY <2>1, <3>1, CompleteSettles
        <3>3. PICK ended, self, st, wr, cur, act :
                    Settle(ended, self, st, wr, cur, act, leased \ ClaimsOf(claim[e].run))
            BY <3>2 DEF Finishes
        <3>4. QED
            BY <3>3 DEF Settle
    <2>2. CASE \E r \in Run, persistent, wait, started \in BOOLEAN :
                  SubmitAgentCall(e, r, persistent, wait, started)
        BY <2>2 DEF SubmitAgentCall, AddRun, leaseVars
    <2>3. CASE \/ Heartbeat(e) \/ PinSession(e)
               \/ ReportRunning(e) \/ ReportBlocked(e)
               \/ ReportWaitingApproval(e) \/ ReportPolicyViolation(e)
               \/ \E r \in Run, wait \in BOOLEAN : FindThread(e, r, wait)
        BY <2>3 DEF Heartbeat, PinSession, ReportRunning, ReportBlocked,
               ReportWaitingApproval, ReportPolicyViolation, ExecutorStatus, FindThread,
               leaseVars
    <2>4. QED
        BY <1>4, <2>1, <2>2, <2>3 DEF WorkerStep
<1>5. CASE \/ \E r \in Run, started \in BOOLEAN : Submit(r, started)
           \/ \E e \in Claim : LeaseLapses(e) \/ WorkerStops(e)
           \/ \E x \in calling : CallStep(x)
           \/ RecoverStale \/ UNCHANGED vars
    BY <1>3, <1>5 DEF Submit, AddRun, LeaseLapses, WorkerStops, CallStep, BindThread,
           ContinueThread, MarkAgentCallWaiting, RecoverStale, leaseVars, vars
<1>6. ASSUME NEW r \in Run,
             \/ AppendReviewFeedback(r)
             \/ \E consumed \in {0, 1} : Continue(r, consumed)
             \/ Retry(r) \/ StopActivation(r) \/ Cancel(r)
             \/ \E cancel \in BOOLEAN : EndThread(r, cancel)
      PROVE  claim' = claim /\ leased' \subseteq leased
    <2>1. CASE Cancel(r) \/ \E cancel \in BOOLEAN : EndThread(r, cancel)
        BY <2>1 DEF Cancel, EndThread, CancelRuns, Settle
    <2>2. CASE \/ AppendReviewFeedback(r)
               \/ \E consumed \in {0, 1} : Continue(r, consumed)
               \/ Retry(r) \/ StopActivation(r)
        BY <2>2 DEF AppendReviewFeedback, Continue, Retry, StopActivation, ClearClaims,
               leaseVars
    <2>3. QED
        BY <1>6, <2>1, <2>2
<1>7. QED
    BY <1>2, <1>3, <1>4, <1>5, <1>6 DEF Next

\* A call that goes on, or whose mark is to come now, is still accounted for.
LEMMA CallsGoOn ==
    ASSUME CallInv, [Next]_vars, NEW y \in calling, NEW x \in calling',
           x.by = y.by, x.called = y.called, Expects(x) => Expects(y)
    PROVE  CallKept(x)'
<1>1. PICK c, p, d : c = y.by /\ p = claim[c].run /\ d = y.called
    OBVIOUS
<1>2. /\ c \in 1..issued /\ p \in Run /\ d \in Run /\ status[d] # "absent"
      /\ relation \in [Run -> [owner : Run \cup {NoRun}, wait : BOOLEAN]]
    <2>1. Inv /\ c \in 1..issued /\ d \in Run /\ status[d] # "absent"
        BY <1>1 DEF CallInv, ReportInv, Inv, TypeOK, AgentCall, BoundSubmitted
    <2>2. relation \in [Run -> [owner : Run \cup {NoRun}, wait : BOOLEAN]]
        BY <2>1 DEF Inv, TypeOK
    <2>3. QED
        BY <1>1, <2>1, <2>2, IssuedClaim
<1>3. /\ claim'[c] = claim[c] /\ (c \in leased' => c \in leased)
      /\ relation'[d] = relation[d] /\ Tells(p, d)
    BY <1>2, LeaseStep, RelationStep, TellsStep
<1>4. relation[d].owner = p
    BY <1>1 DEF CallInv, CallKept
<1>5. ASSUME Expects(x), c \in leased', relation[d].wait
      PROVE  callFeedback'[p] > 0 \/ Owed(d)'
    <2>1. callFeedback[p] > 0 \/ Owed(d)
        BY <1>1, <1>3, <1>5 DEF CallInv, CallKept
    <2>2. CalledBy(d, p)
        BY <1>2, <1>4, <1>5 DEF CalledBy
    <2>3. ~Woken(p)
        BY <1>1, <1>3, <1>5 DEF Woken, ClaimsOf
    <2>4. QED
        BY <1>2, <1>3, <2>1, <2>2, <2>3 DEF Tells, Carries, Follows
<1>6. x.by = c /\ x.called = d /\ claim'[x.by].run = p
    BY <1>1, <1>3
<1>7. Expects(x)' <=> Expects(x)
    BY DEF Expects
<1>8. QED
    BY <1>3, <1>4, <1>5, <1>6, <1>7 DEF CallKept

\* A call begins when its run was submitted, which reports nothing, or with a thread
\* that the caller's run created.
LEMMA SubmittedCallKept ==
    ASSUME CallInv, [Next]_vars, NEW c \in Claim, NEW r \in Run,
           NEW persistent \in BOOLEAN, NEW wait \in BOOLEAN, NEW started \in BOOLEAN,
           SubmitAgentCall(c, r, persistent, wait, started), NEW x \in calling'
    PROVE  CallKept(x)'
<1>1. CASE x \in calling
    BY <1>1, CallsGoOn
<1>2. CASE x \notin calling
    <2>1. x.by = c /\ x.called = r
        BY <1>2 DEF SubmitAgentCall, MarkIf, Call
    <2>2. /\ claim' = claim /\ UNCHANGED current
          /\ relation' = [relation EXCEPT ![r] = [owner |-> claim[c].run, wait |-> wait]]
          /\ status' = [status EXCEPT ![r] = IF started THEN "queued" ELSE "failed"]
          /\ activation' = [activation EXCEPT ![r][1] = "queued"]
          /\ status[r] = "absent"
        BY DEF SubmitAgentCall, AddRun, leaseVars
    <2>3. /\ ReportInv /\ current[r] = 1
          /\ relation \in [Run -> [owner : Run \cup {NoRun}, wait : BOOLEAN]]
        BY <2>2 DEF CallInv, ReportInv, Inv, TypeOK
    <2>4. relation'[x.called].owner = claim'[x.by].run
        BY <2>1, <2>2, <2>3
    <2>5. /\ status'[r] \in {"queued", "failed"}
          /\ activation'[r][current'[r]] = "queued"
        BY <2>2, <2>3, ReportRows
    <2>6. Owed(r)'
        BY <2>5 DEF Owed, Open, EndedUnreported
    <2>7. QED
        BY <2>1, <2>4, <2>6 DEF CallKept
<1>3. QED
    BY <1>1, <1>2

LEMMA FoundCallKept ==
    ASSUME CallInv, [Next]_vars, NEW c \in Claim, NEW r \in Run, NEW wait \in BOOLEAN,
           FindThread(c, r, wait), NEW x \in calling'
    PROVE  CallKept(x)'
<1>1. CASE x \in calling
    BY <1>1, CallsGoOn
<1>2. CASE x \notin calling
    <2>1. x.by = c /\ x.called = r /\ x.step = "continue"
        BY <1>2 DEF FindThread, Call
    <2>2. claim' = claim /\ relation' = relation /\ relation[r].owner = claim[c].run
        BY DEF FindThread, callVars, leaseVars
    <2>3. ~Expects(x)
        BY <2>1 DEF Expects
    <2>4. QED
        BY <2>1, <2>2, <2>3 DEF CallKept, Expects
<1>3. QED
    BY <1>1, <1>2

\* A call whose thread was bound is marked when it was to be, and one that continued
\* the run of a thread has an open run to wait for.
LEMMA NextCallKept ==
    ASSUME CallInv, [Next]_vars, NEW y \in calling, CallStep(y), NEW x \in calling'
    PROVE  CallKept(x)'
<1>1. CASE x \in calling
    BY <1>1, CallsGoOn
<1>2. CASE x \notin calling /\ BindThread(y)
    <2>1. x.by = y.by /\ x.called = y.called /\ y.wait /\ y.step = "bind"
        BY <1>2 DEF BindThread, MarkIf, Call
    <2>2. QED
        BY <2>1, CallsGoOn DEF Expects
<1>3. CASE x \notin calling /\ ContinueThread(y)
    <2>1. /\ x.by = y.by /\ x.called = y.called
          /\ QueueNextActivation(y.called) /\ UNCHANGED <<relation, claim>>
        BY <1>3 DEF ContinueThread, MarkIf, Call, callVars
    <2>2. y.called \in Run /\ ReportInv
        BY DEF CallInv, ReportInv, Inv, TypeOK, AgentCall
    <2>3. status'[y.called] = "queued"
        BY <2>1, <2>2, ReportRows DEF QueueNextActivation
    <2>4. Owed(x.called)'
        BY <2>1, <2>2, <2>3, OwedWhenActive
    <2>5. relation'[x.called].owner = claim'[x.by].run
        BY <2>1 DEF CallInv, CallKept
    <2>6. QED
        BY <2>4, <2>5 DEF CallKept
<1>4. CASE x \notin calling /\ MarkAgentCallWaiting(y)
    BY <1>4 DEF MarkAgentCallWaiting
<1>5. QED
    BY <1>1, <1>2, <1>3, <1>4 DEF CallStep

LEMMA CallsKeptStep ==
    ASSUME CallInv, [Next]_vars, NEW x \in calling'
    PROVE  CallKept(x)'
<1>1. CASE calling' \subseteq calling
    BY <1>1, CallsGoOn
<1>2. ASSUME NEW c \in Claim, WorkerStep(c)
      PROVE  CallKept(x)'
    <2>1. CASE \E r \in Run, persistent, wait, started \in BOOLEAN :
                  SubmitAgentCall(c, r, persistent, wait, started)
        BY <2>1, SubmittedCallKept
    <2>2. CASE \E r \in Run, wait \in BOOLEAN : FindThread(c, r, wait)
        BY <2>2, FoundCallKept
    <2>3. CASE \E result \in Result, violates \in BOOLEAN :
                  Complete(c, result, violates)
        BY <1>1, <2>3 DEF Complete
    <2>4. CASE \/ Heartbeat(c) \/ PinSession(c)
               \/ ReportRunning(c) \/ ReportBlocked(c)
               \/ ReportWaitingApproval(c) \/ ReportPolicyViolation(c)
        BY <1>1, <2>4 DEF Heartbeat, PinSession, ReportRunning, ReportBlocked,
               ReportWaitingApproval, ReportPolicyViolation, ExecutorStatus
    <2>5. QED
        BY <1>2, <2>1, <2>2, <2>3, <2>4 DEF WorkerStep
<1>3. CASE \E y \in calling : CallStep(y)
    BY <1>3, NextCallKept
<1>4. CASE \/ \E r \in Run, started \in BOOLEAN : Submit(r, started)
           \/ \E k \in WorkerKind : ClaimActivation(k)
           \/ \E c \in Claim : LeaseLapses(c) \/ WorkerStops(c)
           \/ RecoverStale \/ UNCHANGED vars
    BY <1>1, <1>4 DEF Submit, ClaimActivation, LeaseLapses, WorkerStops, RecoverStale, vars
<1>5. ASSUME NEW r \in Run,
             \/ AppendReviewFeedback(r)
             \/ \E consumed \in {0, 1} : Continue(r, consumed)
             \/ Retry(r) \/ StopActivation(r) \/ Cancel(r)
             \/ \E cancel \in BOOLEAN : EndThread(r, cancel)
      PROVE  CallKept(x)'
    BY <1>1, <1>5 DEF AppendReviewFeedback, Continue, Retry, StopActivation, Cancel,
           EndThread, CancelRuns
<1>6. QED
    BY <1>2, <1>3, <1>4, <1>5 DEF Next

LEMMA CallAlways == Spec => []CallInv
<1>1. Init => CallInv
    BY InitInv DEF CallInv, ReportInv, OverIsReleased, ClaimsOf, BoundSubmitted, Init
<1>2. CallInv /\ [Next]_vars => CallInv'
    <2> SUFFICES ASSUME CallInv, [Next]_vars PROVE CallInv'
        OBVIOUS
    <2>1. ReportInv /\ ThreadInv
        BY DEF CallInv, ReportInv, ThreadInv
    <2>2. ReportInv'
        BY <2>1, NextInv, ReportStep DEF ReportInv, Sees
    <2>3. \A r \in Run : Respects(r)
        BY <2>1, ThreadStep
    <2>4. BoundSubmitted'
        BY <2>1, <2>3, CallsStep DEF Respects, ThreadInv, BoundSubmitted
    <2>5. ASSUME NEW r \in Run, status'[r] = "absent"
          PROVE  current'[r] = 1
        <3>1. Fresh(r)
            BY TellsStep DEF Tells
        <3>2. QED
            BY <2>3, <2>5, <3>1 DEF Fresh, Respects, CallInv
    <2>6. \A x \in calling' : CallKept(x)'
        BY CallsKeptStep
    <2>7. QED
        BY <2>2, <2>4, <2>5, <2>6 DEF CallInv
<1>3. QED
    BY <1>1, <1>2, PTL DEF Spec

LEMMA DesertedStep ==
    ASSUME CallInv, [Next]_vars, NEW p \in Run, ~Deserted(p), Deserted(p)'
    PROVE  \/ \E d \in AwaitedBy(p) : EndedUnreported(d)'
           \/ \E x \in calling \ calling' :
                /\ claim[x.by].run = p
                /\ \/ x.by \notin leased
                   \/ EndedUnreported(x.called)
                   \/ ~relation[x.called].wait
<1>1. /\ Parked(p)' /\ callFeedback'[p] = 0 /\ ~Woken(p)
      /\ \A d \in Run : relation'[d] = [owner |-> p, wait |-> TRUE] => ~Open(d)'
    BY DEF Deserted, Parked, AwaitedBy, Woken
<1>2. \A d \in Run : Tells(p, d)
    BY TellsStep
<1>3. callFeedback[p] = 0
    <2>1. callFeedback[p] \in Nat
        BY ReportRows DEF CallInv
    <2>2. Carries(p)
        BY <1>2 DEF Tells
    <2>3. QED
        BY <1>1, <2>1, <2>2 DEF Carries
<1>4. CASE Parked(p)
    <2>1. PICK d \in AwaitedBy(p) : TRUE
        BY <1>3, <1>4 DEF Deserted, Parked
    <2>2. d \in Run /\ CalledBy(d, p) /\ Open(d) /\ status[d] # "absent"
        BY <2>1 DEF AwaitedBy, CalledBy, Open
    <2>3. Owed(d)'
        BY <1>1, <1>2, <2>2 DEF Tells, Follows, Owed
    <2>4. ~Open(d)'
        BY <1>1, <2>2, RelationStep DEF CalledBy
    <2>5. QED
        BY <2>1, <2>3, <2>4 DEF Owed
<1>5. CASE \E x \in calling : MarkAgentCallWaiting(x) /\ claim[x.by].run = p
    <2>1. PICK x \in calling : MarkAgentCallWaiting(x) /\ claim[x.by].run = p
        BY <1>5
    <2>2. PICK d : d = x.called
        OBVIOUS
    <2>3. /\ x \in calling \ calling' /\ Expects(x)
          /\ relation' = relation
          /\ \/ status' = status
             \/ status' = [status EXCEPT ![p] = "waiting"]
        BY <2>1 DEF MarkAgentCallWaiting, Expects, callVars
    <2>4. ASSUME x.by \in leased, relation[d].wait
          PROVE  EndedUnreported(d)
        <3>1. /\ d \in Run /\ status \in [Run -> RunStatus]
              /\ relation \in [Run -> [owner : Run \cup {NoRun}, wait : BOOLEAN]]
            BY <2>2 DEF CallInv, ReportInv, Inv, TypeOK, AgentCall
        <3>2. CallKept(x)
            BY DEF CallInv
        <3>3. Owed(d) /\ relation[d].owner = p
            BY <1>3, <2>1, <2>2, <2>3, <2>4, <3>2 DEF CallKept
        <3>4. relation'[d] = [owner |-> p, wait |-> TRUE]
            BY <2>3, <2>4, <3>1, <3>3
        <3>5. ~Open(d)'
            BY <1>1, <3>1, <3>4
        <3>6. Open(d) => Open(d)'
            BY <2>3, <3>1 DEF Open
        <3>7. QED
            BY <3>3, <3>5, <3>6 DEF Owed
    <2>5. QED
        BY <2>1, <2>2, <2>3, <2>4
<1>6. QED
    BY <1>2, <1>4, <1>5, <1>1 DEF Tells, Parks

\* Who waits is told: a parked caller is left with no report and nobody to report only
\* by the end of a called run that the code does not feed back (a stop, a sandbox that
\* did not start, an executor's BLOCKED), by the mark of a worker without a lease, or
\* in a thread whose first call did not wait.
THEOREM WaitingCallerIsTold == Spec => DesertedOnlyUnreported
<1>1. CallInv /\ [Next]_vars =>
        [\A r \in Run :
            ~Deserted(r) /\ Deserted(r)' =>
                \/ \E d \in AwaitedBy(r) : EndedUnreported(d)'
                \/ \E x \in calling \ calling' :
                    /\ claim[x.by].run = r
                    /\ \/ x.by \notin leased
                       \/ EndedUnreported(x.called)
                       \/ ~relation[x.called].wait]_vars
    BY DesertedStep
<1>2. QED
    BY <1>1, CallAlways, PTL DEF Spec, DesertedOnlyUnreported
=============================================================================
