------------------------ MODULE AgentRunHistoryProofs ------------------------
(***************************************************************************)
(* Proofs about the past of an AgentRun: activations that ended stay ended *)
(* and behind everything that can still be executed, also for runs that    *)
(* were continued under a live lease, where two workers may hold claims.   *)
(* The inductive step is taken one run at a time.                          *)
(***************************************************************************)
EXTENDS AgentRunControlPlaneProofs

USE DEF NoRun, Claim, Seq1, RunStatus, WaitingReason, Result, OccupyingStatus,
        TerminalStatus, ClosedStatus, EndedActivation, ContinuableStatus,
        ThreadStatus, NextSeq, ClearClaims, ClearCancel, ReadyRuns, StaleRuns

\* EndedActivationsBehind for one run; a run with a past was submitted.
Behind(p) ==
    \A s \in Seq1 : activation[p][s] \in EndedActivation =>
        /\ status[p] # "absent"
        /\ s <= current[p]
        /\ status[p] = "queued" => s # current[p]
        /\ \A c \in ClaimsOf(p) : s < claim[c].seq

StaysEnded(p) ==
    \A s \in Seq1 : activation[p][s] \in EndedActivation =>
        activation'[p][s] \in EndedActivation

HistoryInv == Inv /\ \A p \in Run : Behind(p)

\* A step that leaves the activations of a run alone and gives no new claim.
LEMMA SameBehind ==
    ASSUME HistoryInv, NEW p \in Run,
           activation'[p] = activation[p], current'[p] = current[p],
           status'[p] # "queued" \/ status'[p] = status[p],
           status'[p] # "absent" \/ status'[p] = status[p],
           \A c \in ClaimsOf(p)' : c \in ClaimsOf(p) /\ claim'[c] = claim[c]
    PROVE  Behind(p)' /\ StaysEnded(p)
<1>1. Behind(p)
    BY DEF HistoryInv
<1> HIDE DEF EndedActivation, Seq1
<1>2. QED
    BY <1>1 DEF Behind, StaysEnded

\* A step that writes one activation, beyond all that ended.
LEMMA WriteBehind ==
    ASSUME HistoryInv, NEW p \in Run, NEW s0 \in Seq1, NEW as \in RunStatus,
           activation'[p] = [activation[p] EXCEPT ![s0] = as],
           as \notin EndedActivation, status'[p] # "absent",
           \A s \in Seq1 : activation[p][s] \in EndedActivation =>
                /\ s < s0 /\ s <= current'[p]
                /\ status'[p] = "queued" => s # current'[p]
                /\ \A c \in ClaimsOf(p)' : s < claim'[c].seq
    PROVE  Behind(p)' /\ StaysEnded(p)
<1>1. activation[p] \in [Seq1 -> RunStatus]
    BY DEF HistoryInv, Inv, TypeOK
<1>2. ASSUME NEW s \in Seq1
      PROVE  /\ s = s0 => activation'[p][s] = as
             /\ s # s0 => activation'[p][s] = activation[p][s]
  <2> HIDE DEF Seq1, RunStatus
  <2>1. QED
    BY <1>1
<1>3. \A s \in Seq1 : activation[p][s] \in EndedActivation => s # s0
    OBVIOUS
<1> HIDE DEF EndedActivation, Seq1
<1>4. Behind(p)'
    BY <1>2 DEF Behind
<1>5. StaysEnded(p)
    BY <1>2, <1>3 DEF StaysEnded
<1>6. QED
    BY <1>4, <1>5

-----------------------------------------------------------------------------
LEMMA AddRunBehind ==
    ASSUME HistoryInv, NEW r \in Run, NEW owner, NEW wait, NEW started,
           AddRun(r, owner, wait, started), NEW p \in Run
    PROVE  Behind(p)' /\ StaysEnded(p)
<1>1. TypeOK
    BY DEF HistoryInv, Inv
<1>2. /\ UNCHANGED <<current, claim, leased>> /\ status[r] = "absent"
      /\ \A q \in Run : ClaimsOf(q)' = ClaimsOf(q)
      /\ status' = [status EXCEPT ![r] = status'[r]]
      /\ status'[r] \in {"queued", "failed"}
      /\ activation' = [activation EXCEPT ![r][1] = "queued"]
    BY <1>1 DEF AddRun, leaseVars, ClaimsOf, TypeOK
<1>3. CASE p = r
  <2>1. \A s \in Seq1 : activation[p][s] \notin EndedActivation
    BY <1>2, <1>3 DEF HistoryInv, Behind
  <2>2. activation'[p] = [activation[p] EXCEPT ![1] = "queued"] /\ 1 \in Seq1
    BY <1>1, <1>2, <1>3, BoundAssumption DEF TypeOK
  <2>3. QED
    BY <1>2, <1>3, <2>1, <2>2, WriteBehind
<1>4. CASE p # r
  <2>1. activation'[p] = activation[p] /\ status'[p] = status[p]
    BY <1>1, <1>2, <1>4 DEF TypeOK
  <2>2. QED
    BY <1>2, <2>1, SameBehind
<1>5. QED
    BY <1>3, <1>4

LEMMA ClaimActivationBehind ==
    ASSUME HistoryInv, NEW k \in WorkerKind, ClaimActivation(k), NEW p \in Run
    PROVE  Behind(p)' /\ StaysEnded(p)
<1> DEFINE c == issued + 1
<1>1. PICK r \in Run :
        /\ status[r] = "queued"
        /\ status' = [status EXCEPT ![r] = "dispatched"]
        /\ activation' = [activation EXCEPT ![r][current[r]] = "dispatched"]
        /\ claim' = [claim EXCEPT ![c] = [run |-> r, seq |-> current[r]]]
    BY DEF ClaimActivation
<1>2. c \in Claim /\ leased' = leased \cup {c} /\ current' = current
    BY DEF ClaimActivation
<1>3. TypeOK
    BY DEF HistoryInv, Inv
<1>4. /\ leased \subseteq 1..issued /\ c \notin leased
      /\ claim'[c] = [run |-> r, seq |-> current[r]]
      /\ \A d \in leased : claim'[d] = claim[d]
    BY <1>1, <1>2, <1>3 DEF TypeOK
<1>5. \A d \in ClaimsOf(p)' : \/ d \in ClaimsOf(p) /\ claim'[d] = claim[d]
                              \/ p = r /\ claim'[d].seq = current[r]
    BY <1>2, <1>4 DEF ClaimsOf
<1>6. CASE p = r
  <2>1. /\ activation'[p] = [activation[p] EXCEPT ![current[p]] = "dispatched"]
        /\ current[p] \in Seq1 /\ status'[p] = "dispatched"
    BY <1>1, <1>3, <1>6 DEF TypeOK
  <2>2. ASSUME NEW s \in Seq1, activation[p][s] \in EndedActivation
        PROVE  s < current[p] /\ \A d \in ClaimsOf(p) : s < claim[d].seq
    <3>1. /\ s <= current[p] /\ s # current[p]
          /\ \A d \in ClaimsOf(p) : s < claim[d].seq
      BY <1>1, <1>6, <2>2 DEF HistoryInv, Behind
    <3>2. QED
      BY <2>1, <3>1
  <2>3. \A s \in Seq1 : activation[p][s] \in EndedActivation =>
            /\ s < current[p] /\ s <= current'[p]
            /\ status'[p] = "queued" => s # current'[p]
            /\ \A d \in ClaimsOf(p)' : s < claim'[d].seq
    <3> SUFFICES ASSUME NEW s \in Seq1, activation[p][s] \in EndedActivation
                 PROVE  /\ s < current[p] /\ s <= current[p]
                        /\ \A d \in ClaimsOf(p)' : s < claim'[d].seq
      BY <1>2, <2>1
    <3>1. s < current[p] /\ \A d \in ClaimsOf(p) : s < claim[d].seq
      BY <2>2
    <3>2. s <= current[p]
      BY <2>1, <3>1
    <3>3. QED
      BY <1>5, <1>6, <3>1, <3>2
  <2>4. QED
    BY <2>1, <2>3, WriteBehind
<1>7. CASE p # r
  <2>1. activation'[p] = activation[p] /\ status'[p] = status[p]
    BY <1>1, <1>3, <1>7 DEF TypeOK
  <2>2. QED
    BY <1>2, <1>5, <1>7, <2>1, SameBehind
<1>8. QED
    BY <1>6, <1>7

\* A step neither queues a run nor takes its row away.
MovesOn(p) ==
    /\ status'[p] # "queued" \/ status'[p] = status[p]
    /\ status'[p] # "absent" \/ status'[p] = status[p]

\* Heartbeats and pins write the activation of a live claim, which is beyond
\* all that ended; events and late marks of calls write none.
LEMMA WorkerBehind ==
    ASSUME HistoryInv, NEW p \in Run,
           \/ \E c \in Claim : \/ Heartbeat(c) \/ PinSession(c)
                               \/ ReportRunning(c) \/ ReportBlocked(c)
                               \/ ReportWaitingApproval(c)
                               \/ ReportPolicyViolation(c)
           \/ \E x \in calling : MarkAgentCallWaiting(x)
    PROVE  Behind(p)' /\ StaysEnded(p)
<1>1. TypeOK
    BY DEF HistoryInv, Inv
<1>2. /\ UNCHANGED <<current, claim, leased>>
      /\ \A q \in Run : ClaimsOf(q)' = ClaimsOf(q)
    BY DEF Heartbeat, PinSession, ReportRunning, ReportBlocked,
           ReportWaitingApproval, ReportPolicyViolation, ExecutorStatus,
           MarkAgentCallWaiting, leaseVars, ClaimsOf
<1>3. MovesOn(p)
  <2>1. status \in [Run -> RunStatus]
    BY <1>1 DEF TypeOK
  <2>2. ASSUME NEW r, NEW st \in RunStatus \ {"queued", "absent"},
               status' = [status EXCEPT ![r] = st]
        PROVE  MovesOn(p)
    BY <2>1, <2>2 DEF MovesOn
  <2>3. CASE UNCHANGED status
    BY <2>3 DEF MovesOn
  <2>4. ASSUME NEW c \in Claim, Heartbeat(c)
        PROVE  MovesOn(p)
    BY <2>1, <2>4 DEF Heartbeat, MovesOn
  <2>5. ASSUME NEW c \in Claim, PinSession(c)
        PROVE  MovesOn(p)
    BY <2>2, <2>5 DEF PinSession
  <2>6. ASSUME NEW c \in Claim,
               \/ ReportRunning(c) \/ ReportBlocked(c)
               \/ ReportWaitingApproval(c) \/ ReportPolicyViolation(c)
        PROVE  MovesOn(p)
    BY <2>2, <2>6 DEF ReportRunning, ReportBlocked, ReportWaitingApproval,
           ReportPolicyViolation, ExecutorStatus
  <2>7. ASSUME NEW x \in calling, MarkAgentCallWaiting(x)
        PROVE  MovesOn(p)
    BY <2>2, <2>3, <2>7 DEF MarkAgentCallWaiting
  <2>8. QED
    BY <2>4, <2>5, <2>6, <2>7
<1>4. CASE activation' = activation
    BY <1>2, <1>3, <1>4, SameBehind DEF MovesOn
<1>5. ASSUME NEW c \in Claim, Heartbeat(c) \/ PinSession(c)
      PROVE  Behind(p)' /\ StaysEnded(p)
  <2> DEFINE r == claim[c].run
             s0 == claim[c].seq
  <2>1. /\ c \in leased
        /\ activation' = [activation EXCEPT ![r][s0] = "running"]
    BY <1>5 DEF Heartbeat, PinSession
  <2>2. /\ r \in Run /\ s0 \in Seq1 /\ c \in ClaimsOf(r)
        /\ status[r] # "absent"
    BY <2>1, IssuedClaim, LeasedClaim DEF HistoryInv
  <2>3. CASE p = r
    <3>1. activation'[p] = [activation[p] EXCEPT ![s0] = "running"]
      BY <1>1, <2>1, <2>2, <2>3 DEF TypeOK
    <3>2. status'[p] # "absent"
      BY <1>3, <2>2, <2>3 DEF MovesOn
    <3>3. \A s \in Seq1 : activation[p][s] \in EndedActivation =>
            /\ s < s0 /\ s <= current[p]
            /\ status[p] = "queued" => s # current[p]
            /\ \A d \in ClaimsOf(p) : s < claim[d].seq
      BY <2>2, <2>3 DEF HistoryInv, Behind
    <3>4. \A s \in Seq1 : activation[p][s] \in EndedActivation =>
            /\ s < s0 /\ s <= current'[p]
            /\ status'[p] = "queued" => s # current'[p]
            /\ \A d \in ClaimsOf(p)' : s < claim'[d].seq
      BY <1>2, <1>3, <3>3 DEF MovesOn
    <3> HIDE DEF r, s0
    <3>5. QED
      BY <2>2, <3>1, <3>2, <3>4, WriteBehind
  <2>4. CASE p # r
    <3>1. activation'[p] = activation[p]
      BY <1>1, <2>1, <2>2, <2>4 DEF TypeOK
    <3>2. QED
      BY <1>2, <1>3, <3>1, SameBehind DEF MovesOn
  <2>5. QED
    BY <2>3, <2>4
<1>6. QED
    BY <1>4, <1>5 DEF ReportRunning, ReportBlocked, ReportWaitingApproval,
           ReportPolicyViolation, ExecutorStatus, MarkAgentCallWaiting

LEMMA QueueNextBehind ==
    ASSUME HistoryInv, NEW r \in Run, NEW p \in Run, QueueNextActivation(r),
           status[r] # "absent", UNCHANGED <<claim, leased>>
    PROVE  Behind(p)' /\ StaysEnded(p)
<1>1. TypeOK
    BY DEF HistoryInv, Inv
<1>2. \A q \in Run : ClaimsOf(q)' = ClaimsOf(q)
    BY DEF ClaimsOf
<1>3. CASE p = r
  <2>1. /\ current[p] \in Seq1 /\ current'[p] = current[p] + 1
        /\ current[p] + 1 \in Seq1 /\ status'[p] = "queued"
        /\ activation'[p] = [activation[p] EXCEPT ![current[p] + 1] = "queued"]
    BY <1>1, <1>3, BoundAssumption DEF QueueNextActivation, TypeOK
  <2>2. \A s \in Seq1 : activation[p][s] \in EndedActivation =>
            s <= current[p] /\ \A d \in ClaimsOf(p) : s < claim[d].seq
    BY DEF HistoryInv, Behind
  <2>3. \A s \in Seq1 : s <= current[p] =>
            s < current[p] + 1 /\ s # current[p] + 1 /\ s <= current[p] + 1
    BY <2>1
  <2>4. \A s \in Seq1 : activation[p][s] \in EndedActivation =>
            /\ s < current[p] + 1 /\ s <= current'[p]
            /\ status'[p] = "queued" => s # current'[p]
            /\ \A d \in ClaimsOf(p)' : s < claim'[d].seq
    BY <1>2, <2>1, <2>2, <2>3
  <2>5. QED
    BY <2>1, <2>4, WriteBehind
<1>4. CASE p # r
  <2>1. /\ activation'[p] = activation[p] /\ status'[p] = status[p]
        /\ current'[p] = current[p]
    BY <1>1, <1>4 DEF QueueNextActivation, TypeOK
  <2>2. QED
    BY <1>2, <2>1, SameBehind
<1>5. QED
    BY <1>3, <1>4

-----------------------------------------------------------------------------
LEMMA StopBehind ==
    ASSUME HistoryInv, NEW r \in Run, StopActivation(r), NEW p \in Run
    PROVE  Behind(p)' /\ StaysEnded(p)
<1>1. TypeOK
    BY DEF HistoryInv, Inv
<1>2. UNCHANGED <<claim, current>> /\ leased' = leased \ ClaimsOf(r)
    BY DEF StopActivation
<1>3. CASE p = r
  <2>1. /\ activation'[p] = [activation[p] EXCEPT ![current[p]] = "cancelled"]
        /\ status'[p] = "completed" /\ current[p] \in Seq1
        /\ activation[p] \in [Seq1 -> RunStatus]
    BY <1>1, <1>3 DEF StopActivation, TypeOK
  <2>2. ClaimsOf(p)' = {}
    BY <1>2, <1>3 DEF ClaimsOf
  <2>3. ASSUME NEW s \in Seq1
        PROVE  activation'[p][s] = IF s = current[p] THEN "cancelled"
                                                    ELSE activation[p][s]
    <3> HIDE DEF Seq1, RunStatus
    <3>1. QED
      BY <2>1
  <2>4. \A s \in Seq1 : activation[p][s] \in EndedActivation => s <= current[p]
    BY DEF HistoryInv, Behind
  <2>5. current[p] <= current[p]
    BY <2>1
  <2>6. QED
    BY <1>2, <2>1, <2>2, <2>3, <2>4, <2>5 DEF Behind, StaysEnded
<1>4. CASE p # r
  <2>1. activation'[p] = activation[p] /\ status'[p] = status[p]
    BY <1>1, <1>4 DEF StopActivation, TypeOK
  <2>2. \A c \in ClaimsOf(p)' : c \in ClaimsOf(p) /\ claim'[c] = claim[c]
    BY <1>2 DEF ClaimsOf
  <2>3. QED
    BY <1>2, <2>1, <2>2, SameBehind
<1>5. QED
    BY <1>3, <1>4

LEMMA RecoverBehind ==
    ASSUME HistoryInv, RecoverStale, NEW p \in Run
    PROVE  Behind(p)' /\ StaysEnded(p)
<1>1. TypeOK
    BY DEF HistoryInv, Inv
<1>2. claim' = claim /\ leased' = leased \ lapsed
    BY DEF RecoverStale
<1>3. \A c \in ClaimsOf(p)' : c \in ClaimsOf(p) /\ claim'[c] = claim[c]
    BY <1>2 DEF ClaimsOf
<1>4. CASE Untouched(p)
    BY <1>3, <1>4, SameBehind DEF Untouched
<1>5. CASE Requeued(p)
  <2>1. PICK c \in ClaimsOf(p) : current'[p] = claim[c].seq
    BY <1>1, <1>5 DEF Requeued, ClaimsOf, TypeOK
  <2>2. /\ current'[p] \in Seq1 /\ status'[p] = "queued"
        /\ activation'[p] = [activation[p] EXCEPT ![current'[p]] = "queued"]
    BY <1>5 DEF Requeued
  <2>3. \A s \in Seq1 : activation[p][s] \in EndedActivation =>
            \A d \in ClaimsOf(p) : s < claim[d].seq
    BY DEF HistoryInv, Behind
  <2>4. \A s \in Seq1 : s < current'[p] => s <= current'[p] /\ s # current'[p]
    BY <2>2
  <2>5. \A s \in Seq1 : activation[p][s] \in EndedActivation =>
            /\ s < current'[p] /\ s <= current'[p]
            /\ status'[p] = "queued" => s # current'[p]
            /\ \A d \in ClaimsOf(p)' : s < claim'[d].seq
    BY <1>3, <2>1, <2>3, <2>4
  <2>6. QED
    BY <2>2, <2>5, WriteBehind
<1>6. QED
  <2>1. Inv
    BY DEF HistoryInv
  <2>2. QED
    BY <1>4, <1>5, <2>1, RecoverRows

-----------------------------------------------------------------------------
LEMMA SettleBehind ==
    ASSUME Inv, NEW ended, NEW self, NEW st, NEW wr, NEW cur, NEW act,
           NEW held \in SUBSET leased, Rows(st, wr, cur, act),
           Settle(ended, self, st, wr, cur, act, held),
           NEW p \in Run,
           \A s \in Seq1 : act[p][s] \in EndedActivation =>
                /\ st[p] # "absent" /\ s <= cur[p]
                /\ st[p] = "queued" => s # cur[p]
                /\ \A c \in held \cap ClaimsOf(p) : s < claim[c].seq
    PROVE  /\ Behind(p)'
           /\ \A s \in Seq1 : act[p][s] \in EndedActivation =>
                activation'[p][s] \in EndedActivation
<1>1. ClaimsOf(p)' = held \cap ClaimsOf(p) /\ claim' = claim
    BY DEF Settle, ClaimsOf
<1>2. CASE Keeps(p, st, wr, cur, act)
  <2> HIDE DEF EndedActivation, Seq1
  <2>1. QED
    BY <1>1, <1>2 DEF Keeps, Behind
<1>3. CASE Resumes(p, st, cur, act)
  <2>1. /\ cur[p] \in Seq1 /\ act[p] \in [Seq1 -> RunStatus]
    BY DEF Rows
  <2>2. /\ st[p] = "waiting" /\ status'[p] = "queued"
        /\ current'[p] = cur[p] + 1 /\ cur[p] + 1 \in Seq1
        /\ activation'[p] = [act[p] EXCEPT ![cur[p] + 1] = "queued"]
    BY <1>3, <2>1, BoundAssumption DEF Resumes
  <2>3. ASSUME NEW s \in Seq1
        PROVE  activation'[p][s] = IF s = cur[p] + 1 THEN "queued" ELSE act[p][s]
    <3> HIDE DEF Seq1, RunStatus
    <3>1. QED
      BY <2>1, <2>2
  <2>4. \A s \in Seq1 : s <= cur[p] => s # cur[p] + 1 /\ s <= cur[p] + 1
    BY <2>1
  <2>5. ASSUME NEW s \in Seq1, activation'[p][s] \in EndedActivation
        PROVE  act[p][s] \in EndedActivation /\ s <= cur[p]
    BY <2>3, <2>5
  <2>6. Behind(p)'
    <3> SUFFICES ASSUME NEW s \in Seq1, activation'[p][s] \in EndedActivation
                 PROVE  /\ status'[p] # "absent" /\ s <= current'[p]
                        /\ s # current'[p]
                        /\ \A c \in ClaimsOf(p)' : s < claim'[c].seq
      BY DEF Behind
    <3>1. act[p][s] \in EndedActivation /\ s <= cur[p]
      BY <2>5
    <3>2. QED
      BY <1>1, <2>2, <2>4, <3>1
  <2>7. ASSUME NEW s \in Seq1, act[p][s] \in EndedActivation
        PROVE  activation'[p][s] \in EndedActivation
    BY <2>3, <2>4, <2>7
  <2>8. QED
    BY <2>6, <2>7
<1>4. QED
    BY <1>2, <1>3, SettleRows

LEMMA CompleteBehind ==
    ASSUME HistoryInv, NEW c \in Claim, NEW result \in Result,
           NEW violates \in BOOLEAN, Complete(c, result, violates), NEW p \in Run
    PROVE  Behind(p)' /\ StaysEnded(p)
<1> DEFINE r == claim[c].run
           s0 == claim[c].seq
           cur == [current EXCEPT ![r] = s0]
           act == [activation EXCEPT ![r][s0] = result]
           held == leased \ ClaimsOf(r)
<1>1. Inv /\ TypeOK /\ Behind(p)
    BY DEF HistoryInv, Inv
<1>2. c \in leased
    BY DEF Complete
<1>3. r \in Run /\ s0 \in Seq1 /\ c \in ClaimsOf(r) /\ status[r] # "absent"
    BY <1>1, <1>2, IssuedClaim, LeasedClaim
<1>4. PICK ended \in SUBSET Run, self \in {{r}, {}},
           st0 \in TerminalStatus \cup {"waiting"}, wr0 \in WaitingReason :
        Settle(ended, self, [status EXCEPT ![r] = st0],
               [waiting EXCEPT ![r] = wr0], cur, act, held)
  <2>1. Finishes(r, s0, result)
    BY <1>1, CompleteSettles
  <2>2. QED
    BY <2>1 DEF Finishes
<1> DEFINE st == [status EXCEPT ![r] = st0]
           wr == [waiting EXCEPT ![r] = wr0]
<1>5. Rows(st, wr, cur, act)
  <2>1. /\ status \in [Run -> RunStatus] /\ waiting \in [Run -> WaitingReason]
        /\ current \in [Run -> Seq1]
        /\ activation \in [Run -> [Seq1 -> RunStatus]]
    BY <1>1 DEF TypeOK
  <2>2. st0 \in RunStatus /\ result \in RunStatus
    OBVIOUS
  <2> HIDE DEF r, s0, RunStatus, WaitingReason, Seq1
  <2>3. QED
    BY <1>3, <2>1, <2>2 DEF Rows
<1>6. ASSUME NEW s \in Seq1
      PROVE  /\ act[p][s] = IF p = r /\ s = s0 THEN result ELSE activation[p][s]
             /\ cur[p] = IF p = r THEN s0 ELSE current[p]
             /\ st[p] = IF p = r THEN st0 ELSE status[p]
  <2>1. /\ status \in [Run -> RunStatus] /\ current \in [Run -> Seq1]
        /\ activation \in [Run -> [Seq1 -> RunStatus]]
    BY <1>1 DEF TypeOK
  <2> HIDE DEF r, s0, RunStatus, Seq1
  <2>2. QED
    BY <1>3, <2>1
<1>7. ASSUME NEW s \in Seq1, act[p][s] \in EndedActivation
      PROVE  /\ st[p] # "absent" /\ s <= cur[p]
             /\ st[p] = "queued" => s # cur[p]
             /\ \A d \in held \cap ClaimsOf(p) : s < claim[d].seq
  <2>1. CASE p = r
    <3>1. s = s0 \/ activation[p][s] \in EndedActivation
      BY <1>6, <1>7
    <3>2. s <= s0
      BY <1>1, <1>3, <2>1, <3>1 DEF Behind
    <3>3. held \cap ClaimsOf(p) = {}
      BY <2>1
    <3>4. st[p] = st0 /\ st0 \notin {"absent", "queued"} /\ cur[p] = s0
      BY <1>6, <2>1
    <3>5. QED
      BY <3>2, <3>3, <3>4
  <2>2. CASE p # r
    <3>1. /\ act[p][s] = activation[p][s] /\ cur[p] = current[p]
          /\ st[p] = status[p]
      BY <1>6, <2>2
    <3> HIDE DEF st, cur, act
    <3>2. QED
      BY <1>1, <1>7, <3>1 DEF Behind
  <2>3. QED
    BY <2>1, <2>2
<1>8. \A s \in Seq1 : activation[p][s] \in EndedActivation =>
            act[p][s] \in EndedActivation
    BY <1>6
<1>9. held \in SUBSET leased /\ Settle(ended, self, st, wr, cur, act, held)
    BY <1>4
<1> HIDE DEF r, s0, st, wr, cur, act, held, EndedActivation, Seq1
<1>10. /\ Behind(p)'
      /\ \A s \in Seq1 : act[p][s] \in EndedActivation =>
            activation'[p][s] \in EndedActivation
    BY <1>1, <1>5, <1>7, <1>9, SettleBehind
<1>11. QED
    BY <1>8, <1>10 DEF StaysEnded

LEMMA CancelBehind ==
    ASSUME HistoryInv, NEW open \in SUBSET Run, \A d \in open : Open(d),
           CancelRuns(open), NEW p \in Run
    PROVE  Behind(p)' /\ StaysEnded(p)
<1> DEFINE ended == EndsAtOnce(open)
           st == [d \in Run |-> IF d \in ended THEN "cancelled" ELSE status[d]]
           wr == [d \in Run |-> IF d \in ended THEN "none" ELSE waiting[d]]
           held == {c \in leased : claim[c].run \notin ended}
<1>1. Inv /\ TypeOK /\ Behind(p)
    BY DEF HistoryInv, Inv
<1>2. Settle(ended, {}, st, wr, current, activation, held)
    BY DEF CancelRuns
<1>3. Rows(st, wr, current, activation)
    BY <1>1 DEF TypeOK, Rows
<1>4. st[p] = status[p] \/ st[p] = "cancelled"
    OBVIOUS
<1>8. held \in SUBSET leased
    OBVIOUS
<1> HIDE DEF ended, st, wr, held
<1>5. \A s \in Seq1 : activation[p][s] \in EndedActivation =>
        /\ st[p] # "absent" /\ s <= current[p]
        /\ st[p] = "queued" => s # current[p]
        /\ \A c \in held \cap ClaimsOf(p) : s < claim[c].seq
    BY <1>1, <1>4 DEF Behind
<1>6. /\ Behind(p)'
      /\ \A s \in Seq1 : activation[p][s] \in EndedActivation =>
            activation'[p][s] \in EndedActivation
    BY <1>1, <1>2, <1>3, <1>5, <1>8, SettleBehind
<1>7. QED
    BY <1>6 DEF StaysEnded

-----------------------------------------------------------------------------
\* Steps that touch neither activations nor statuses nor claims.
LEMMA IdleBehind ==
    ASSUME HistoryInv, NEW p \in Run,
           \/ \E c \in Claim : LeaseLapses(c) \/ WorkerStops(c)
           \/ \E r \in Run : AppendReviewFeedback(r)
           \/ \E c \in Claim, r \in Run, wait \in BOOLEAN : FindThread(c, r, wait)
           \/ \E x \in calling : BindThread(x)
           \/ UNCHANGED vars
    PROVE  Behind(p)' /\ StaysEnded(p)
<1>1. UNCHANGED <<status, activation, current, claim, leased>>
    BY DEF LeaseLapses, WorkerStops, AppendReviewFeedback, FindThread, BindThread,
           runVars, leaseVars, vars
<1>2. ClaimsOf(p)' = ClaimsOf(p)
    BY <1>1 DEF ClaimsOf
<1>3. QED
    BY <1>1, <1>2, SameBehind

LEMMA ContinueBehind ==
    ASSUME HistoryInv, NEW r \in Run, NEW p \in Run,
           Retry(r) \/ \E consumed \in {0, 1} : Continue(r, consumed)
    PROVE  Behind(p)' /\ StaysEnded(p)
BY QueueNextBehind DEF Retry, Continue

LEMMA ContinueThreadBehind ==
    ASSUME HistoryInv, NEW x \in calling, NEW p \in Run, ContinueThread(x)
    PROVE  Behind(p)' /\ StaysEnded(p)
<1>1. x.called \in Run
    BY DEF HistoryInv, Inv, TypeOK, AgentCall
<1>2. CASE /\ status[x.called] \in ContinuableStatus
           /\ QueueNextActivation(x.called)
    BY <1>1, <1>2, QueueNextBehind DEF ContinueThread
<1>3. CASE UNCHANGED <<runVars, overtaken>>
  <2>1. UNCHANGED <<status, activation, current, claim, leased>>
    BY <1>3 DEF ContinueThread, runVars
  <2>2. ClaimsOf(p)' = ClaimsOf(p)
    BY <2>1 DEF ClaimsOf
  <2>3. QED
    BY <2>1, <2>2, SameBehind
<1>4. QED
    BY <1>2, <1>3 DEF ContinueThread

LEMMA HistoryStep ==
    ASSUME HistoryInv, [Next]_vars, NEW p \in Run
    PROVE  Behind(p)' /\ StaysEnded(p)
<1>1. CASE \E r \in Run, started \in BOOLEAN : Submit(r, started)
    BY <1>1, AddRunBehind DEF Submit
<1>2. CASE \E k \in WorkerKind : ClaimActivation(k)
    BY <1>2, ClaimActivationBehind
<1>3. ASSUME NEW c \in Claim, WorkerStep(c)
      PROVE  Behind(p)' /\ StaysEnded(p)
  <2>1. CASE \/ Heartbeat(c) \/ PinSession(c)
             \/ ReportRunning(c) \/ ReportBlocked(c)
             \/ ReportWaitingApproval(c) \/ ReportPolicyViolation(c)
    BY <2>1, WorkerBehind
  <2>2. CASE \E result \in Result, violates \in BOOLEAN :
                Complete(c, result, violates)
    BY <2>2, CompleteBehind
  <2>3. CASE \E r \in Run, persistent, wait, started \in BOOLEAN :
                SubmitAgentCall(c, r, persistent, wait, started)
    BY <2>3, AddRunBehind DEF SubmitAgentCall
  <2>4. CASE \E r \in Run, wait \in BOOLEAN : FindThread(c, r, wait)
    BY <2>4, IdleBehind
  <2>5. QED
    BY <1>3, <2>1, <2>2, <2>3, <2>4 DEF WorkerStep
<1>4. CASE \/ \E c \in Claim : LeaseLapses(c) \/ WorkerStops(c)
           \/ \E x \in calling : CallStep(x)
           \/ UNCHANGED vars
    BY <1>4, IdleBehind, WorkerBehind, ContinueThreadBehind DEF CallStep
<1>5. CASE RecoverStale
    BY <1>5, RecoverBehind
<1>6. ASSUME NEW r \in Run,
             \/ AppendReviewFeedback(r)
             \/ \E consumed \in {0, 1} : Continue(r, consumed)
             \/ Retry(r)
             \/ StopActivation(r)
      PROVE  Behind(p)' /\ StaysEnded(p)
    BY <1>6, IdleBehind, ContinueBehind, StopBehind
<1>7. ASSUME NEW r \in Run, Cancel(r) \/ \E cancel \in BOOLEAN : EndThread(r, cancel)
      PROVE  Behind(p)' /\ StaysEnded(p)
    BY <1>7, CancelBehind DEF Cancel, EndThread, CallTree
<1>8. QED
    BY <1>1, <1>2, <1>3, <1>4, <1>5, <1>6, <1>7 DEF Next

LEMMA HistoryAlways == Spec => []HistoryInv
<1>1. Init => HistoryInv
    BY InitInv, BoundAssumption DEF HistoryInv, Behind, Init
<1>2. HistoryInv /\ [Next]_vars => HistoryInv'
    BY HistoryStep, NextInv DEF HistoryInv
<1>3. QED
    BY <1>1, <1>2, PTL DEF Spec

\* No live claim and no queued run is for an activation that ended, nor for an
\* earlier one; the next number continue_agent_run takes is not used yet.
THEOREM PastIsBehind == Spec => []EndedActivationsBehind
<1>1. HistoryInv => EndedActivationsBehind
    BY DEF HistoryInv, Behind, EndedActivationsBehind
<1>2. QED
    BY <1>1, HistoryAlways, PTL

\* An activation that ended is never executed again, by whichever worker.
THEOREM EndedOnce == Spec => ActivationEndsOnce
<1>1. HistoryInv /\ [Next]_vars =>
        [\A r \in Run : \A s \in Seq1 : activation[r][s] \in EndedActivation =>
            activation'[r][s] \in EndedActivation]_vars
    BY HistoryStep DEF StaysEnded
<1>2. QED
    BY <1>1, HistoryAlways, PTL DEF Spec, ActivationEndsOnce

-----------------------------------------------------------------------------
\* A run without a live claim that is neither queued nor parked: no step but a
\* submission, a cancellation, a stop or a continuation moves it.
Settled(p) == status[p] \in ClosedStatus

Reopens(p) ==
    /\ status'[p] = "queued" /\ current'[p] = current[p] + 1
    /\ activation'[p][current[p]] = activation[p][current[p]]

LEMMA QueueNextReopens ==
    ASSUME Inv, NEW r \in Run, QueueNextActivation(r), NEW p \in Run
    PROVE  status'[p] = status[p] \/ Reopens(p)
<1>1. /\ status \in [Run -> RunStatus] /\ current \in [Run -> Seq1]
      /\ activation \in [Run -> [Seq1 -> RunStatus]]
    BY DEF Inv, TypeOK
<1>2. current[p] \in Seq1 /\ current[p] # current[p] + 1
    BY <1>1
<1> HIDE DEF Seq1, RunStatus
<1>3. QED
    BY <1>1, <1>2 DEF QueueNextActivation, Reopens

\* Settle leaves a closed run as the enclosing action has it.
LEMMA SettleKeepsClosed ==
    ASSUME Inv, NEW ended, NEW self, NEW st, NEW wr, NEW cur, NEW act, NEW held,
           Settle(ended, self, st, wr, cur, act, held), NEW p \in Run,
           Settled(p), st[p] = status[p]
    PROVE  status'[p] = status[p]
<1>1. Resumes(p, st, cur, act) \/ Keeps(p, st, wr, cur, act)
    BY SettleRows
<1>2. st[p] # "waiting"
    BY DEF Settled
<1>3. QED
    BY <1>1, <1>2 DEF Resumes, Keeps

LEMMA ClosedStep ==
    ASSUME Inv, [Next]_vars, NEW p \in Run, Settled(p)
    PROVE  status'[p] = status[p] \/ Reopens(p)
<1>1. TypeOK
    BY DEF Inv
<1>2. ASSUME NEW c \in leased
      PROVE  claim[c].run # p /\ claim[c].run \in Run
    BY <1>2, LeasedClaim, IssuedClaim DEF Settled
<1>3. ASSUME NEW r \in Run, NEW owner, NEW wait, NEW started,
             AddRun(r, owner, wait, started)
      PROVE  status'[p] = status[p]
    BY <1>1, <1>3 DEF AddRun, Settled, TypeOK
<1>4. CASE \E k \in WorkerKind : ClaimActivation(k)
    BY <1>1, <1>4 DEF ClaimActivation, Settled, TypeOK
<1>5. ASSUME NEW c \in Claim,
             \/ Heartbeat(c) \/ PinSession(c)
             \/ ReportRunning(c) \/ ReportBlocked(c)
             \/ ReportWaitingApproval(c) \/ ReportPolicyViolation(c)
      PROVE  status'[p] = status[p]
  <2>1. c \in leased
    BY <1>5 DEF Heartbeat, PinSession, ReportRunning, ReportBlocked,
           ReportWaitingApproval, ReportPolicyViolation, ExecutorStatus
  <2>2. claim[c].run # p
    BY <1>2, <2>1
  <2>3. QED
    BY <1>1, <1>5, <2>2 DEF Heartbeat, PinSession, ReportRunning, ReportBlocked,
           ReportWaitingApproval, ReportPolicyViolation, ExecutorStatus, TypeOK
<1>6. ASSUME NEW c \in Claim, NEW result \in Result, NEW violates \in BOOLEAN,
             Complete(c, result, violates)
      PROVE  status'[p] = status[p]
  <2> DEFINE r == claim[c].run
  <2>1. r # p /\ r \in Run
    BY <1>2, <1>6 DEF Complete
  <2>2. PICK ended \in SUBSET Run, self \in {{r}, {}},
             st0 \in TerminalStatus \cup {"waiting"}, wr0 \in WaitingReason :
          Settle(ended, self, [status EXCEPT ![r] = st0],
                 [waiting EXCEPT ![r] = wr0],
                 [current EXCEPT ![r] = claim[c].seq],
                 [activation EXCEPT ![r][claim[c].seq] = result],
                 leased \ ClaimsOf(r))
    <3>1. Finishes(r, claim[c].seq, result)
      BY <1>6, CompleteSettles
    <3>2. QED
      BY <3>1 DEF Finishes
  <2>3. [status EXCEPT ![r] = st0][p] = status[p]
    BY <1>1, <2>1 DEF TypeOK
  <2> HIDE DEF r
  <2>4. QED
    BY <2>2, <2>3, SettleKeepsClosed
<1>7. ASSUME NEW open \in SUBSET Run, \A d \in open : Open(d), CancelRuns(open)
      PROVE  status'[p] = status[p]
  <2> DEFINE ended == EndsAtOnce(open)
             st == [d \in Run |-> IF d \in ended THEN "cancelled" ELSE status[d]]
             wr == [d \in Run |-> IF d \in ended THEN "none" ELSE waiting[d]]
             held == {c \in leased : claim[c].run \notin ended}
  <2>1. Settle(ended, {}, st, wr, current, activation, held)
    BY <1>7 DEF CancelRuns
  <2>2. st[p] = status[p]
    BY <1>7 DEF EndsAtOnce, Open, Settled
  <2> HIDE DEF ended, st, wr, held
  <2>3. QED
    BY <2>1, <2>2, SettleKeepsClosed
<1>8. CASE RecoverStale
    BY <1>8, RecoverRows DEF Requeued, Untouched, Settled
<1>9. ASSUME NEW r \in Run, QueueNextActivation(r)
      PROVE  status'[p] = status[p] \/ Reopens(p)
    BY <1>9, QueueNextReopens
<1>10. ASSUME NEW r \in Run, StopActivation(r)
       PROVE  status'[p] = status[p]
    BY <1>1, <1>10 DEF StopActivation, Open, Settled, TypeOK
<1>11. ASSUME NEW x \in calling, CallStep(x)
       PROVE  status'[p] = status[p] \/ Reopens(p)
  <2>1. x.called \in Run
    BY <1>1 DEF TypeOK, AgentCall
  <2>2. CASE MarkAgentCallWaiting(x)
    BY <1>1, <2>2 DEF MarkAgentCallWaiting, Settled, TypeOK
  <2>3. CASE BindThread(x)
    BY <2>3 DEF BindThread, runVars
  <2>4. CASE ContinueThread(x)
    BY <1>9, <2>1, <2>4 DEF ContinueThread, runVars
  <2>5. QED
    BY <1>11, <2>2, <2>3, <2>4 DEF CallStep
<1>12. CASE \/ \E c \in Claim : LeaseLapses(c) \/ WorkerStops(c)
            \/ \E r \in Run : AppendReviewFeedback(r)
            \/ UNCHANGED vars
    BY <1>12 DEF LeaseLapses, WorkerStops, AppendReviewFeedback, runVars, vars
<1>13. ASSUME NEW c \in Claim, WorkerStep(c)
       PROVE  status'[p] = status[p] \/ Reopens(p)
    BY <1>3, <1>5, <1>6, <1>9, <1>13
       DEF WorkerStep, SubmitAgentCall, FindThread, runVars
<1>14. ASSUME NEW r \in Run,
              \/ \E started \in BOOLEAN : Submit(r, started)
              \/ \E consumed \in {0, 1} : Continue(r, consumed)
              \/ Retry(r) \/ Cancel(r) \/ StopActivation(r)
              \/ \E cancel \in BOOLEAN : EndThread(r, cancel)
       PROVE  status'[p] = status[p] \/ Reopens(p)
  <2>1. CASE \/ \E started \in BOOLEAN : Submit(r, started)
             \/ \E consumed \in {0, 1} : Continue(r, consumed)
             \/ Retry(r) \/ StopActivation(r)
    BY <1>3, <1>9, <1>10, <2>1 DEF Submit, Continue, Retry
  <2>2. CASE Cancel(r) \/ \E cancel \in BOOLEAN : EndThread(r, cancel)
    BY <1>7, <2>2 DEF Cancel, EndThread, CallTree
  <2>3. QED
    BY <1>14, <2>1, <2>2
<1>15. QED
    BY <1>4, <1>8, <1>11, <1>12, <1>13, <1>14 DEF Next

\* A closed run changes only by being queued for a new activation, and what the
\* ended activation recorded stays.
THEOREM ClosedStaysClosed == Spec => ClosedRunReopensOnlyByContinue
<1>1. Inv /\ [Next]_vars =>
        [\A r \in Run :
            status[r] \in ClosedStatus /\ status'[r] # status[r] =>
                /\ status'[r] = "queued"
                /\ current'[r] = current[r] + 1
                /\ activation'[r][current[r]] = activation[r][current[r]]]_vars
    BY ClosedStep DEF Settled, Reopens
<1>2. QED
    BY <1>1, InvAlways, PTL DEF Spec, ClosedRunReopensOnlyByContinue
=============================================================================
