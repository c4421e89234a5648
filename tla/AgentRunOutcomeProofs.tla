------------------------- MODULE AgentRunOutcomeProofs -------------------------
(***************************************************************************)
(* The control plane implements AgentRunOutcome.  The step is taken one    *)
(* run at a time: which activations a step may end (only a completion and  *)
(* a stop end one), and how it may move the status.  That what ended stays *)
(* ended and lies behind every live claim is the history invariant.        *)
(***************************************************************************)
EXTENDS AgentRunHistoryProofs, AgentRunRefinement

USE DEF NoRun, Claim, Seq1, RunStatus, WaitingReason, Result, OccupyingStatus,
        TerminalStatus, ClosedStatus, EndedActivation, ContinuableStatus,
        ThreadStatus, NextSeq, ClearClaims, ClearCancel, ReadyRuns, StaleRuns

\* A step ends no activation of the run.
NoNewEnd(p) ==
    \A s \in Seq1 : activation'[p][s] \in EndedActivation =>
        activation[p][s] \in EndedActivation

\* A step ends at most one activation, beyond all that ended, of an open run.
EndsNext(p) ==
    \E s0 \in Seq1 :
        /\ status[p] \notin ClosedStatus \cup {"absent"}
        /\ activation'[p][s0] \in EndedActivation
        /\ \A s \in Seq1 : activation[p][s] \in EndedActivation => s < s0
        /\ \A s \in Seq1 : activation'[p][s] \in EndedActivation =>
                s = s0 \/ activation[p][s] \in EndedActivation

\* Writing one activation that does not end.
LEMMA WriteEndsNone ==
    ASSUME TypeOK, NEW r \in Run, NEW s0 \in Seq1,
           NEW as \in RunStatus \ EndedActivation,
           activation' = [activation EXCEPT ![r][s0] = as], NEW p \in Run
    PROVE  NoNewEnd(p)
<1>1. activation \in [Run -> [Seq1 -> RunStatus]]
    BY DEF TypeOK
<1>2. ASSUME NEW s \in Seq1
      PROVE  activation'[p][s] = IF p = r /\ s = s0 THEN as ELSE activation[p][s]
  <2> HIDE DEF Seq1, RunStatus
  <2>1. QED
    BY <1>1
<1>3. QED
    BY <1>2 DEF NoNewEnd

LEMMA SameEndsNone ==
    ASSUME NEW p \in Run, activation'[p] = activation[p]
    PROVE  NoNewEnd(p)
BY DEF NoNewEnd

LEMMA QueueNextEnds ==
    ASSUME Inv, NEW r \in Run, QueueNextActivation(r), NEW p \in Run
    PROVE  NoNewEnd(p)
<1>1. TypeOK
    BY DEF Inv
<1>2. current[r] + 1 \in Seq1
    BY <1>1, BoundAssumption DEF TypeOK, QueueNextActivation
<1>3. activation' = [activation EXCEPT ![r][current[r] + 1] = "queued"]
    BY DEF QueueNextActivation
<1>4. QED
    BY <1>1, <1>2, <1>3, WriteEndsNone

\* Waking a parked caller ends nothing more than the enclosing action.
LEMMA SettleEnds ==
    ASSUME Inv, NEW ended, NEW self, NEW st, NEW wr, NEW cur, NEW act, NEW held,
           Rows(st, wr, cur, act),
           Settle(ended, self, st, wr, cur, act, held),
           NEW p \in Run, NEW s \in Seq1, activation'[p][s] \in EndedActivation
    PROVE  act[p][s] \in EndedActivation
<1>1. CASE Keeps(p, st, wr, cur, act)
    BY <1>1 DEF Keeps
<1>2. CASE Resumes(p, st, cur, act)
  <2>1. cur[p] \in Seq1 /\ act[p] \in [Seq1 -> RunStatus]
    BY DEF Rows
  <2>2. activation'[p] = [act[p] EXCEPT ![cur[p] + 1] = "queued"]
    BY <1>2 DEF Resumes
  <2>3. activation'[p][s] = IF s = cur[p] + 1 THEN "queued" ELSE act[p][s]
    <3> HIDE DEF Seq1, RunStatus
    <3>1. QED
      BY <2>1, <2>2
  <2>4. QED
    BY <2>3
<1>3. QED
    BY <1>1, <1>2, SettleRows

LEMMA CancelEnds ==
    ASSUME Inv, NEW open \in SUBSET Run, CancelRuns(open), NEW p \in Run
    PROVE  NoNewEnd(p)
<1> DEFINE ended == EndsAtOnce(open)
           st == [d \in Run |-> IF d \in ended THEN "cancelled" ELSE status[d]]
           wr == [d \in Run |-> IF d \in ended THEN "none" ELSE waiting[d]]
           held == {c \in leased : claim[c].run \notin ended}
<1>1. Settle(ended, {}, st, wr, current, activation, held)
    BY DEF CancelRuns
<1>2. Rows(st, wr, current, activation)
    BY DEF Inv, TypeOK, Rows
<1> HIDE DEF ended, st, wr, held, EndedActivation, Seq1
<1>3. QED
    BY <1>1, <1>2, SettleEnds DEF NoNewEnd

\* The activation of the worker's claim is the only one a completion ends.
LEMMA CompleteEnds ==
    ASSUME HistoryInv, NEW c \in Claim, NEW result \in Result,
           NEW violates \in BOOLEAN, Complete(c, result, violates), NEW p \in Run
    PROVE  NoNewEnd(p) \/ EndsNext(p)
<1> DEFINE r == claim[c].run
           s0 == claim[c].seq
           cur == [current EXCEPT ![r] = s0]
           act == [activation EXCEPT ![r][s0] = result]
<1>1. Inv /\ TypeOK /\ Behind(p)
    BY DEF HistoryInv, Inv
<1>2. c \in leased
    BY DEF Complete
<1>3. /\ r \in Run /\ s0 \in Seq1 /\ c \in ClaimsOf(r)
      /\ status[r] \notin ClosedStatus \cup {"absent"}
    BY <1>1, <1>2, IssuedClaim, LeasedClaim
<1>4. PICK ended \in SUBSET Run, self \in {{r}, {}},
           st0 \in TerminalStatus \cup {"waiting"}, wr0 \in WaitingReason :
        Settle(ended, self, [status EXCEPT ![r] = st0],
               [waiting EXCEPT ![r] = wr0], cur, act, leased \ ClaimsOf(r))
  <2>1. Finishes(r, s0, result)
    BY <1>1, CompleteSettles
  <2>2. QED
    BY <2>1 DEF Finishes
<1> DEFINE st == [status EXCEPT ![r] = st0]
           wr == [waiting EXCEPT ![r] = wr0]
<1>5. activation \in [Run -> [Seq1 -> RunStatus]]
    BY <1>1 DEF TypeOK
<1>6. Rows(st, wr, cur, act)
  <2>1. /\ status \in [Run -> RunStatus] /\ waiting \in [Run -> WaitingReason]
        /\ current \in [Run -> Seq1]
    BY <1>1 DEF TypeOK
  <2>2. st0 \in RunStatus /\ result \in RunStatus
    OBVIOUS
  <2> HIDE DEF r, s0, RunStatus, WaitingReason, Seq1
  <2>3. QED
    BY <1>3, <1>5, <2>1, <2>2 DEF Rows
<1>7. ASSUME NEW s \in Seq1
      PROVE  act[p][s] = IF p = r /\ s = s0 THEN result ELSE activation[p][s]
  <2> HIDE DEF r, s0, RunStatus, Seq1
  <2>1. QED
    BY <1>3, <1>5
<1>8. ASSUME NEW s \in Seq1, activation'[p][s] \in EndedActivation
      PROVE  (p = r /\ s = s0) \/ activation[p][s] \in EndedActivation
  <2>1. act[p][s] \in EndedActivation
    <3> DEFINE held == leased \ ClaimsOf(r)
    <3>1. Settle(ended, self, st, wr, cur, act, held)
      BY <1>4
    <3> HIDE DEF r, s0, st, wr, cur, act, held, EndedActivation, Seq1
    <3>2. QED
      BY <1>1, <1>6, <1>8, <3>1, SettleEnds
  <2>2. QED
    BY <1>7, <2>1
<1>9. CASE p = r /\ activation'[p][s0] \in EndedActivation
  <2>1. \A s \in Seq1 : activation[p][s] \in EndedActivation => s < s0
    BY <1>1, <1>3, <1>9 DEF Behind
  <2> HIDE DEF r, s0, EndedActivation, Seq1
  <2>2. QED
    BY <1>3, <1>8, <1>9, <2>1 DEF EndsNext
<1>10. CASE ~(p = r /\ activation'[p][s0] \in EndedActivation)
  <2> HIDE DEF r, s0, EndedActivation, Seq1
  <2>1. QED
    BY <1>8, <1>10 DEF NoNewEnd
<1>11. QED
    BY <1>9, <1>10

\* A stop ends the current activation, unless that is over already.
LEMMA StopEnds ==
    ASSUME HistoryInv, NEW r \in Run, StopActivation(r), NEW p \in Run
    PROVE  NoNewEnd(p) \/ EndsNext(p)
<1> DEFINE s0 == current[r]
<1>1. TypeOK /\ Behind(p)
    BY DEF HistoryInv, Inv
<1>2. /\ s0 \in Seq1 /\ activation \in [Run -> [Seq1 -> RunStatus]]
      /\ activation' = [activation EXCEPT ![r][s0] = "cancelled"]
      /\ status[r] \notin ClosedStatus \cup {"absent"}
    BY <1>1 DEF TypeOK, StopActivation, Open
<1>3. ASSUME NEW s \in Seq1
      PROVE  activation'[p][s] = IF p = r /\ s = s0 THEN "cancelled"
                                                    ELSE activation[p][s]
  <2> HIDE DEF s0, Seq1, RunStatus
  <2>1. QED
    BY <1>2
<1>4. CASE p = r /\ activation[p][s0] \notin EndedActivation
  <2>1. ASSUME NEW s \in Seq1, activation[p][s] \in EndedActivation
        PROVE  s < s0
    <3>1. s <= s0 /\ s # s0
      BY <1>1, <1>4, <2>1 DEF Behind
    <3>2. QED
      BY <1>2, <3>1
  <2>2. QED
    BY <1>2, <1>3, <1>4, <2>1 DEF EndsNext
<1>5. CASE ~(p = r /\ activation[p][s0] \notin EndedActivation)
    BY <1>3, <1>5 DEF NoNewEnd
<1>6. QED
    BY <1>4, <1>5

-----------------------------------------------------------------------------
LEMMA EndsStep ==
    ASSUME HistoryInv, [Next]_vars, NEW p \in Run
    PROVE  NoNewEnd(p) \/ EndsNext(p)
<1>1. Inv /\ TypeOK
    BY DEF HistoryInv, Inv
<1>2. ASSUME NEW r \in Run, NEW owner, NEW wait, NEW started,
             AddRun(r, owner, wait, started)
      PROVE  NoNewEnd(p)
  <2>1. /\ 1 \in Seq1 /\ "queued" \in RunStatus \ EndedActivation
        /\ activation' = [activation EXCEPT ![r][1] = "queued"]
    BY <1>2, BoundAssumption DEF AddRun
  <2>2. QED
    BY <1>1, <2>1, WriteEndsNone
<1>3. ASSUME NEW k \in WorkerKind, ClaimActivation(k)
      PROVE  NoNewEnd(p)
  <2>1. PICK r \in Run :
          activation' = [activation EXCEPT ![r][current[r]] = "dispatched"]
    BY <1>3 DEF ClaimActivation
  <2>2. current[r] \in Seq1
    BY <1>1 DEF TypeOK
  <2>3. QED
    BY <1>1, <2>1, <2>2, WriteEndsNone
<1>4. ASSUME NEW c \in Claim, Heartbeat(c) \/ PinSession(c)
      PROVE  NoNewEnd(p)
  <2>1. /\ c \in leased
        /\ activation' = [activation EXCEPT ![claim[c].run][claim[c].seq] = "running"]
    BY <1>4 DEF Heartbeat, PinSession
  <2>2. claim[c].run \in Run /\ claim[c].seq \in Seq1
    BY <1>1, <2>1, IssuedClaim, LeasedClaim
  <2>3. QED
    BY <1>1, <2>1, <2>2, WriteEndsNone
<1>5. CASE activation' = activation
    BY <1>5, SameEndsNone
<1>6. ASSUME NEW r \in Run, QueueNextActivation(r)
      PROVE  NoNewEnd(p)
    BY <1>1, <1>6, QueueNextEnds
<1>7. ASSUME NEW x \in calling, CallStep(x)
      PROVE  NoNewEnd(p)
  <2>1. x.called \in Run
    BY <1>1 DEF TypeOK, AgentCall
  <2>2. CASE MarkAgentCallWaiting(x) \/ BindThread(x)
    <3>1. activation' = activation
      BY <2>2 DEF MarkAgentCallWaiting, BindThread, runVars
    <3>2. QED
      BY <3>1, SameEndsNone
  <2>3. CASE ContinueThread(x)
    <3>1. QueueNextActivation(x.called) \/ activation' = activation
      BY <2>3 DEF ContinueThread, runVars
    <3>2. QED
      BY <1>6, <2>1, <3>1, SameEndsNone
  <2>4. QED
    BY <1>7, <2>2, <2>3 DEF CallStep
<1>8. ASSUME NEW c \in Claim, WorkerStep(c)
      PROVE  NoNewEnd(p) \/ EndsNext(p)
  <2>1. CASE \/ ReportRunning(c) \/ ReportBlocked(c)
             \/ ReportWaitingApproval(c) \/ ReportPolicyViolation(c)
             \/ \E r \in Run, wait \in BOOLEAN : FindThread(c, r, wait)
    BY <1>5, <2>1 DEF ReportRunning, ReportBlocked, ReportWaitingApproval,
           ReportPolicyViolation, ExecutorStatus, FindThread, runVars
  <2>2. CASE \E result \in Result, violates \in BOOLEAN :
                Complete(c, result, violates)
    BY <2>2, CompleteEnds
  <2>3. CASE \E r \in Run, persistent, wait, started \in BOOLEAN :
                SubmitAgentCall(c, r, persistent, wait, started)
    BY <1>2, <2>3 DEF SubmitAgentCall
  <2>4. QED
    BY <1>4, <1>8, <2>1, <2>2, <2>3 DEF WorkerStep
<1>9. CASE \/ \E c \in Claim : LeaseLapses(c) \/ WorkerStops(c)
           \/ \E r \in Run : AppendReviewFeedback(r)
           \/ UNCHANGED vars
    BY <1>5, <1>9 DEF LeaseLapses, WorkerStops, AppendReviewFeedback, runVars, vars
<1>10. CASE RecoverStale
  <2>1. CASE Untouched(p)
    BY <2>1, SameEndsNone DEF Untouched
  <2>2. CASE Requeued(p)
    <3>1. /\ activation[p] \in [Seq1 -> RunStatus] /\ current'[p] \in Seq1
          /\ activation'[p] = [activation[p] EXCEPT ![current'[p]] = "queued"]
      BY <1>1, <2>2 DEF Requeued, TypeOK
    <3>2. ASSUME NEW s \in Seq1
          PROVE  activation'[p][s] = IF s = current'[p] THEN "queued"
                                                        ELSE activation[p][s]
      <4> HIDE DEF Seq1, RunStatus
      <4>1. QED
        BY <3>1
    <3>3. QED
      BY <3>2 DEF NoNewEnd
  <2>3. QED
    BY <1>1, <1>10, <2>1, <2>2, RecoverRows
<1>11. ASSUME NEW r \in Run,
              \/ \E started \in BOOLEAN : Submit(r, started)
              \/ \E consumed \in {0, 1} : Continue(r, consumed)
              \/ Retry(r) \/ StopActivation(r)
       PROVE  NoNewEnd(p) \/ EndsNext(p)
    BY <1>2, <1>6, <1>11, StopEnds DEF Submit, Continue, Retry
<1>12. ASSUME NEW r \in Run,
              Cancel(r) \/ \E cancel \in BOOLEAN : EndThread(r, cancel)
       PROVE  NoNewEnd(p)
    BY <1>1, <1>12, CancelEnds DEF Cancel, EndThread, CallTree
<1>13. QED
    BY <1>3, <1>7, <1>8, <1>9, <1>10, <1>11, <1>12 DEF Next

-----------------------------------------------------------------------------
\* A run is ordered once, by a submission; its row is never taken away.
OrdersOnly(p) ==
    /\ status[p] = "absent" => status'[p] \in {"absent", "queued", "failed"}
    /\ status[p] # "absent" => status'[p] # "absent"

\* A step that writes the status of one run that was ordered.
LEMMA WriteOrders ==
    ASSUME TypeOK, NEW r, status[r] # "absent",
           NEW st \in RunStatus \ {"absent"},
           status' = [status EXCEPT ![r] = st], NEW p \in Run
    PROVE  OrdersOnly(p)
<1>1. status \in [Run -> RunStatus]
    BY DEF TypeOK
<1> HIDE DEF RunStatus
<1>2. QED
    BY <1>1 DEF OrdersOnly

LEMMA SettleOrders ==
    ASSUME Inv, NEW ended, NEW self, NEW st, NEW wr, NEW cur, NEW act, NEW held,
           Settle(ended, self, st, wr, cur, act, held), NEW p \in Run,
           st[p] = status[p] \/ (status[p] # "absent" /\ st[p] # "absent")
    PROVE  OrdersOnly(p)
<1>1. Resumes(p, st, cur, act) \/ Keeps(p, st, wr, cur, act)
    BY SettleRows
<1>2. QED
    BY <1>1 DEF Resumes, Keeps, OrdersOnly

LEMMA OrderStep ==
    ASSUME Inv, [Next]_vars, NEW p \in Run
    PROVE  OrdersOnly(p)
<1>1. TypeOK
    BY DEF Inv
<1>2. ASSUME NEW r \in Run, NEW owner, NEW wait, NEW started,
             AddRun(r, owner, wait, started)
      PROVE  OrdersOnly(p)
    BY <1>1, <1>2 DEF AddRun, OrdersOnly, TypeOK
<1>3. CASE UNCHANGED status
    BY <1>3 DEF OrdersOnly
<1>4. ASSUME NEW k \in WorkerKind, ClaimActivation(k)
      PROVE  OrdersOnly(p)
    BY <1>1, <1>4, WriteOrders DEF ClaimActivation
<1>5. ASSUME NEW c \in Claim, c \in leased
      PROVE  claim[c].run \in Run /\ status[claim[c].run] \notin ClosedStatus \cup {"absent"}
    BY <1>5, IssuedClaim, LeasedClaim
<1>6. ASSUME NEW c \in Claim,
             \/ PinSession(c) \/ ReportRunning(c) \/ ReportBlocked(c)
             \/ ReportWaitingApproval(c) \/ ReportPolicyViolation(c)
      PROVE  OrdersOnly(p)
  <2>1. c \in leased
    BY <1>6 DEF PinSession, ReportRunning, ReportBlocked,
           ReportWaitingApproval, ReportPolicyViolation, ExecutorStatus
  <2>2. QED
    BY <1>1, <1>5, <1>6, <2>1, WriteOrders DEF PinSession, ReportRunning,
           ReportBlocked, ReportWaitingApproval, ReportPolicyViolation,
           ExecutorStatus
<1>7. ASSUME NEW c \in Claim, Heartbeat(c)
      PROVE  OrdersOnly(p)
  <2>1. c \in leased /\ status \in [Run -> RunStatus]
    BY <1>1, <1>7 DEF Heartbeat, TypeOK
  <2>2. QED
    BY <1>5, <1>7, <2>1 DEF Heartbeat, OrdersOnly
<1>8. ASSUME NEW c \in Claim, NEW result \in Result, NEW violates \in BOOLEAN,
             Complete(c, result, violates)
      PROVE  OrdersOnly(p)
  <2> DEFINE r == claim[c].run
  <2>1. r \in Run /\ status[r] # "absent"
    BY <1>5, <1>8 DEF Complete
  <2>2. PICK ended \in SUBSET Run, self \in {{r}, {}},
             st0 \in TerminalStatus \cup {"waiting"}, wr0 \in WaitingReason :
          Settle(ended, self, [status EXCEPT ![r] = st0],
                 [waiting EXCEPT ![r] = wr0],
                 [current EXCEPT ![r] = claim[c].seq],
                 [activation EXCEPT ![r][claim[c].seq] = result],
                 leased \ ClaimsOf(r))
    <3>1. Finishes(r, claim[c].seq, result)
      BY <1>8, CompleteSettles
    <3>2. QED
      BY <3>1 DEF Finishes
  <2>3. [status EXCEPT ![r] = st0][p] = IF p = r THEN st0 ELSE status[p]
    BY <1>1, <2>1 DEF TypeOK
  <2>4. st0 # "absent"
    OBVIOUS
  <2> HIDE DEF r, TerminalStatus, WaitingReason
  <2>5. QED
    BY <2>1, <2>2, <2>3, <2>4, SettleOrders
<1>9. ASSUME NEW open \in SUBSET Run, \A d \in open : Open(d), CancelRuns(open)
      PROVE  OrdersOnly(p)
  <2> DEFINE ended == EndsAtOnce(open)
             st == [d \in Run |-> IF d \in ended THEN "cancelled" ELSE status[d]]
             wr == [d \in Run |-> IF d \in ended THEN "none" ELSE waiting[d]]
             held == {c \in leased : claim[c].run \notin ended}
  <2>1. Settle(ended, {}, st, wr, current, activation, held)
    BY <1>9 DEF CancelRuns
  <2>2. st[p] = status[p] \/ (status[p] # "absent" /\ st[p] # "absent")
    BY <1>9 DEF EndsAtOnce, Open
  <2> HIDE DEF ended, st, wr, held
  <2>3. QED
    BY <2>1, <2>2, SettleOrders
<1>10. CASE RecoverStale
  <2>1. Requeued(p) \/ Untouched(p)
    BY <1>10, RecoverRows
  <2>2. CASE Untouched(p)
    BY <2>2 DEF Untouched, OrdersOnly
  <2>3. CASE Requeued(p)
    BY <1>1, <2>3, IssuedClaim DEF Requeued, OrdersOnly, TypeOK
  <2>4. QED
    BY <2>1, <2>2, <2>3
<1>11. ASSUME NEW r \in Run, status[r] # "absent",
              QueueNextActivation(r) \/ StopActivation(r)
       PROVE  OrdersOnly(p)
    BY <1>1, <1>11, WriteOrders DEF QueueNextActivation, StopActivation
<1>12. ASSUME NEW x \in calling, CallStep(x)
       PROVE  OrdersOnly(p)
  <2>1. x.called \in Run
    BY <1>1 DEF TypeOK, AgentCall
  <2>2. CASE MarkAgentCallWaiting(x)
    <3> DEFINE r == claim[x.by].run
    <3>1. x.by \in 1..issued
      BY <1>1, <2>2 DEF TypeOK, AgentCall
    <3>2. status[r] # "absent"
      BY <3>1, IssuedClaim
    <3>3. UNCHANGED status \/ status' = [status EXCEPT ![r] = "waiting"]
      BY <2>2 DEF MarkAgentCallWaiting
    <3> HIDE DEF r
    <3>4. QED
      BY <1>1, <1>3, <3>2, <3>3, WriteOrders
  <2>3. CASE BindThread(x)
    BY <1>3, <2>3 DEF BindThread, runVars
  <2>4. CASE ContinueThread(x)
    BY <1>3, <1>11, <2>1, <2>4 DEF ContinueThread, runVars
  <2>5. QED
    BY <1>12, <2>2, <2>3, <2>4 DEF CallStep
<1>13. ASSUME NEW c \in Claim, WorkerStep(c)
       PROVE  OrdersOnly(p)
    BY <1>2, <1>3, <1>6, <1>7, <1>8, <1>13
       DEF WorkerStep, SubmitAgentCall, FindThread, runVars
<1>14. CASE \/ \E c \in Claim : LeaseLapses(c) \/ WorkerStops(c)
            \/ \E r \in Run : AppendReviewFeedback(r)
            \/ UNCHANGED vars
    BY <1>3, <1>14 DEF LeaseLapses, WorkerStops, AppendReviewFeedback, runVars, vars
<1>15. ASSUME NEW r \in Run,
              \/ \E started \in BOOLEAN : Submit(r, started)
              \/ \E consumed \in {0, 1} : Continue(r, consumed)
              \/ Retry(r) \/ StopActivation(r)
       PROVE  OrdersOnly(p)
    BY <1>2, <1>11, <1>15 DEF Submit, Continue, Retry, StopActivation, Open
<1>16. ASSUME NEW r \in Run,
              Cancel(r) \/ \E cancel \in BOOLEAN : EndThread(r, cancel)
       PROVE  OrdersOnly(p)
    BY <1>9, <1>16 DEF Cancel, EndThread, CallTree
<1>17. QED
    BY <1>4, <1>10, <1>12, <1>13, <1>14, <1>15, <1>16 DEF Next

-----------------------------------------------------------------------------
\* The step of one run, as a step of the promise.
LEMMA PromiseStep ==
    ASSUME HistoryInv, [Next]_vars, NEW p \in Run
    PROVE  \/ /\ OutcomeOf(p) = "none" /\ OutcomeOf(p)' \in {"open", "failed"}
              /\ EndedOf(p)' = EndedOf(p)
           \/ /\ OutcomeOf(p) = "open" /\ OutcomeOf(p)' \in {"open"} \cup ClosedStatus
              /\ \/ EndedOf(p)' = EndedOf(p)
                 \/ \E s \in Seq1 : /\ \A e \in EndedOf(p) : e < s
                                    /\ EndedOf(p)' = EndedOf(p) \cup {s}
           \/ /\ OutcomeOf(p) \in ClosedStatus /\ OutcomeOf(p)' = "open"
              /\ EndedOf(p)' = EndedOf(p)
           \/ OutcomeOf(p)' = OutcomeOf(p) /\ EndedOf(p)' = EndedOf(p)
<1>1. Inv /\ StaysEnded(p)
    BY HistoryStep DEF HistoryInv
<1>2. OrdersOnly(p)
    BY <1>1, OrderStep
<1>3. Settled(p) => status'[p] = status[p] \/ Reopens(p)
    BY <1>1, ClosedStep
<1>4. CASE NoNewEnd(p)
  <2> HIDE DEF EndedActivation, Seq1
  <2>1. EndedOf(p)' = EndedOf(p)
    BY <1>1, <1>4 DEF NoNewEnd, StaysEnded, EndedOf
  <2>2. QED
    BY <1>2, <1>3, <2>1 DEF OutcomeOf, OrdersOnly, Settled, Reopens
<1>5. CASE EndsNext(p)
  <2> HIDE DEF EndedActivation, Seq1
  <2>1. PICK s0 \in Seq1 :
          /\ status[p] \notin ClosedStatus \cup {"absent"}
          /\ activation'[p][s0] \in EndedActivation
          /\ \A s \in Seq1 : activation[p][s] \in EndedActivation => s < s0
          /\ \A s \in Seq1 : activation'[p][s] \in EndedActivation =>
                s = s0 \/ activation[p][s] \in EndedActivation
    BY <1>5 DEF EndsNext
  <2>2. EndedOf(p)' = EndedOf(p) \cup {s0} /\ \A e \in EndedOf(p) : e < s0
    BY <1>1, <2>1 DEF StaysEnded, EndedOf
  <2>3. OutcomeOf(p) = "open" /\ OutcomeOf(p)' \in {"open"} \cup ClosedStatus
    BY <1>2, <2>1 DEF OutcomeOf, OrdersOnly
  <2>4. QED
    BY <2>2, <2>3
<1>6. QED
    BY <1>4, <1>5, EndsStep

\* The control plane implements AgentRunOutcome for every number of runs,
\* activations, claims and calls: whatever the workers, the recovery and the
\* operators do, an activation ends once and in order, and a run that ended is
\* left alone until it is continued.
THEOREM ImplementsPromise == Spec => KeepsPromise
<1> USE DEF Promise!Seq1, Promise!Outcome
<1>1. Init => Promise!Init
    BY BoundAssumption DEF Init, Promise!Init, OutcomeOf, EndedOf
<1>2. HistoryInv /\ [Next]_vars =>
        [Promise!Next]_<<[r \in Run |-> OutcomeOf(r)], [r \in Run |-> EndedOf(r)]>>
  <2> SUFFICES ASSUME HistoryInv, [Next]_vars
               PROVE  Promise!Next
    OBVIOUS
  <2>1. ASSUME NEW p \in Run
        PROVE  Promise!Order(p) \/ Promise!Work(p) \/ Promise!Reopen(p) \/ Promise!Stay(p)
    BY PromiseStep DEF Promise!Order, Promise!Work, Promise!Reopen, Promise!Stay
  <2>2. QED
    BY <2>1 DEF Promise!Next
<1>3. QED
    BY <1>1, <1>2, HistoryAlways, PTL DEF Spec, KeepsPromise, Promise!Spec
=============================================================================
