--------------------- MODULE AgentRunControlPlaneProofs ---------------------
(***************************************************************************)
(* Machine-checked proofs about AgentRunControlPlane, for every set of     *)
(* runs and every value of the bounds.  Safety follows from one inductive  *)
(* invariant: ExclusiveClaim is needed to know that the single lease of a  *)
(* run is the one a recovery or a completion is about, AbsentRunUntouched  *)
(* that a submitted identifier comes with no claim or cancel request.      *)
(***************************************************************************)
EXTENDS AgentRunControlPlane, FiniteSetTheorems, WellFoundedInduction, TLAPS

\* Nothing is known of a run before it is submitted.
AbsentRunUntouched ==
    \A r \in Run : status[r] = "absent" =>
        /\ r \notin cancelRequests
        /\ \A c \in 1..issued : claim[c].run # r

Inv ==
    /\ TypeOK
    /\ AbsentRunUntouched
    /\ ActiveRunIsLeased
    /\ ClosedRunReleased
    /\ ExclusiveClaim

USE DEF NoRun, Claim, Seq1, RunStatus, WaitingReason, Result, OccupyingStatus,
        TerminalStatus, ClosedStatus, EndedActivation, ContinuableStatus,
        ThreadStatus, NextSeq, ClearClaims, ClearCancel, ReadyRuns, StaleRuns

-----------------------------------------------------------------------------
LEMMA InitInv == Init => Inv
<1> SUFFICES ASSUME Init PROVE Inv
    OBVIOUS
<1> USE RunAssumption, BoundAssumption DEF Init
<1>1. TypeOK
    BY DEF TypeOK
<1>2. AbsentRunUntouched /\ ActiveRunIsLeased /\ ClosedRunReleased
    BY DEF AbsentRunUntouched, ActiveRunIsLeased, ClosedRunReleased
<1>3. ExclusiveClaim
    BY DEF ExclusiveClaim, ClaimsOf
<1>4. QED
    BY <1>1, <1>2, <1>3 DEF Inv

-----------------------------------------------------------------------------
LEMMA AddRunInv ==
    ASSUME Inv, NEW r \in Run, NEW owner \in Run \cup {NoRun},
           NEW wait \in BOOLEAN, NEW started \in BOOLEAN,
           AddRun(r, owner, wait, started), calling' \subseteq AgentCall
    PROVE  Inv'
<1> USE RunAssumption, BoundAssumption DEF Inv, AddRun, leaseVars
<1>1. TypeOK'
    BY DEF TypeOK, AgentCall
<1>2. AbsentRunUntouched'
    BY DEF TypeOK, AbsentRunUntouched
<1>3. ClaimsOf(r) = {} /\ \A p \in Run : ClaimsOf(p)' = ClaimsOf(p)
    BY DEF TypeOK, AbsentRunUntouched, ClaimsOf
<1>4. ActiveRunIsLeased'
    BY <1>3 DEF TypeOK, ActiveRunIsLeased
<1>5. ClosedRunReleased'
    BY <1>3 DEF TypeOK, ClosedRunReleased, AbsentRunUntouched
<1>6. ExclusiveClaim'
  <2>1. overtaken' = overtaken /\ claim' = claim
      OBVIOUS
  <2>2. ASSUME NEW p \in Run \ overtaken
        PROVE  /\ \A c, d \in ClaimsOf(p)' : c = d
               /\ \A c \in ClaimsOf(p)' : claim[c].seq = current'[p]
               /\ status'[p] = "queued" => ClaimsOf(p)' = {}
    <3>1. CASE p = r
        BY <1>3, <3>1
    <3>2. CASE p # r
        <4>1. status'[p] = status[p] /\ current'[p] = current[p]
            BY <3>2 DEF TypeOK
        <4>2. QED
            BY <1>3, <2>2, <4>1 DEF ExclusiveClaim
    <3>3. QED
        BY <3>1, <3>2
  <2>3. QED
      BY <2>1, <2>2 DEF ExclusiveClaim
<1>7. QED
    BY <1>1, <1>2, <1>4, <1>5, <1>6

-----------------------------------------------------------------------------
\* A step of a worker moves the status, the waiting reason and one activation
\* record of the run its claim is for, and touches no lease.
MovesRun(r, st, wr, s, as) ==
    /\ status' = [status EXCEPT ![r] = st]
    /\ waiting' = [waiting EXCEPT ![r] = wr]
    /\ activation' = [activation EXCEPT ![r][s] = as]
    /\ violating' \subseteq Run \cap EnvironmentRuns
    /\ lapsed' \subseteq leased
    /\ calling' \subseteq AgentCall
    /\ UNCHANGED <<current, relation, callFeedback, reviewFeedback, sandboxed,
                   thread, cancelRequests, issued, claim, leased, overtaken, working>>

LEMMA MovesRunInv ==
    ASSUME Inv, NEW r \in Run, status[r] # "absent",
           NEW st \in RunStatus, st # "absent", st # "queued" \/ st = status[r],
           st \in ClosedStatus => st = status[r],
           st \in {"dispatched", "running"} => ClaimsOf(r) # {},
           NEW wr \in WaitingReason, NEW s \in Seq1, NEW as \in RunStatus,
           MovesRun(r, st, wr, s, as)
    PROVE  Inv'
<1> USE DEF MovesRun
<1> USE RunAssumption, BoundAssumption DEF Inv
<1>1. TypeOK'
    BY DEF TypeOK, AgentCall
<1>2. AbsentRunUntouched'
    BY DEF TypeOK, AbsentRunUntouched
<1>3. \A p \in Run : ClaimsOf(p)' = ClaimsOf(p)
    BY DEF ClaimsOf
<1>4. ActiveRunIsLeased'
    BY <1>3 DEF TypeOK, ActiveRunIsLeased
<1>5. ClosedRunReleased'
    BY <1>3 DEF TypeOK, ClosedRunReleased
<1>6. ExclusiveClaim'
  <2>1. \A p \in Run : status'[p] = "queued" => status[p] = "queued"
    BY DEF TypeOK
  <2>2. UNCHANGED <<claim, current, overtaken>>
    OBVIOUS
  <2>3. ExclusiveClaim
    OBVIOUS
  <2>4. QED
    <3> HIDE DEF Inv
    <3> QED
      BY ONLY <1>3, <2>1, <2>2, <2>3 DEF ExclusiveClaim
<1>7. QED
    BY <1>1, <1>2, <1>4, <1>5, <1>6

-----------------------------------------------------------------------------
\* What a claim that was handed out is for: a submitted run and an activation.
LEMMA IssuedClaim ==
    ASSUME Inv, NEW c \in 1..issued
    PROVE  /\ c \in Claim /\ claim[c].run \in Run /\ claim[c].seq \in Seq1
           /\ claim[c] = [run |-> claim[c].run, seq |-> claim[c].seq]
           /\ status[claim[c].run] \in RunStatus \ {"absent"}
<1>1. TypeOK /\ AbsentRunUntouched
    BY DEF Inv
<1>2. c \in Claim
    BY <1>1, BoundAssumption DEF TypeOK
<1>3. claim[c] \in [run : Run, seq : Seq1]
    BY <1>1 DEF TypeOK
<1>4. QED
    BY <1>1, <1>2, <1>3 DEF TypeOK, AbsentRunUntouched

\* A live claim keeps its run out of the closed statuses.
LEMMA LeasedClaim ==
    ASSUME Inv, NEW c \in leased
    PROVE  /\ c \in 1..issued /\ c \in ClaimsOf(claim[c].run)
           /\ status[claim[c].run] \notin ClosedStatus
<1>1. c \in 1..issued
    BY DEF Inv, TypeOK
<1>2. claim[c].run \in Run
    BY <1>1, IssuedClaim
<1>3. c \in ClaimsOf(claim[c].run)
    BY DEF ClaimsOf
<1>4. QED
    BY <1>1, <1>2, <1>3 DEF Inv, ClosedRunReleased

\* The rows of one run are well typed.
LEMMA RunRows ==
    ASSUME Inv, NEW r \in Run
    PROVE  /\ status[r] \in RunStatus /\ waiting[r] \in WaitingReason
           /\ current[r] \in Seq1
           /\ \A s \in Seq1 : activation[r][s] \in RunStatus
           /\ status = [status EXCEPT ![r] = status[r]]
           /\ waiting = [waiting EXCEPT ![r] = waiting[r]]
           /\ \A s \in Seq1 :
                activation = [activation EXCEPT ![r][s] = activation[r][s]]
<1>1. /\ status \in [Run -> RunStatus] /\ waiting \in [Run -> WaitingReason]
      /\ current \in [Run -> Seq1] /\ activation \in [Run -> [Seq1 -> RunStatus]]
    BY DEF Inv, TypeOK
<1> HIDE DEF RunStatus, WaitingReason, Seq1
<1>2. QED
    BY <1>1

LEMMA WorkerReportInv ==
    ASSUME Inv, NEW c \in Claim,
           \/ Heartbeat(c) \/ PinSession(c)
           \/ ReportRunning(c) \/ ReportBlocked(c)
           \/ ReportWaitingApproval(c) \/ ReportPolicyViolation(c)
    PROVE  Inv'
<1> DEFINE r == claim[c].run
           s == claim[c].seq
<1>1. c \in leased
    BY DEF Heartbeat, PinSession, ReportRunning, ReportBlocked,
           ReportWaitingApproval, ReportPolicyViolation, ExecutorStatus
<1>2. /\ r \in Run /\ s \in Seq1 /\ ClaimsOf(r) # {}
      /\ status[r] \in RunStatus \ (ClosedStatus \cup {"absent"})
    BY <1>1, IssuedClaim, LeasedClaim
<1>3. /\ violating \subseteq Run \cap EnvironmentRuns
      /\ lapsed \subseteq leased /\ calling \subseteq AgentCall
    BY DEF Inv, TypeOK
<1>4. CASE Heartbeat(c)
  <2> DEFINE st == IF status[r] = "dispatched" THEN "running" ELSE status[r]
  <2>1. /\ status' = [status EXCEPT ![r] = st]
        /\ waiting' = [waiting EXCEPT ![r] = waiting[r]]
        /\ waiting[r] \in WaitingReason
    BY <1>2, <1>4, RunRows DEF Heartbeat
  <2>2. /\ st \in RunStatus \ (ClosedStatus \cup {"absent"})
        /\ st # "queued" \/ st = status[r]
    BY <1>2
  <2> HIDE DEF st
  <2>3. MovesRun(r, st, waiting[r], s, "running")
    BY <1>3, <1>4, <2>1 DEF Heartbeat, callVars, MovesRun
  <2>4. QED
    BY <1>2, <2>1, <2>2, <2>3, MovesRunInv
<1>5. CASE PinSession(c)
  <2>1. MovesRun(r, "running", "none", s, "running")
    BY <1>3, <1>5 DEF PinSession, callVars, leaseVars, MovesRun
  <2>2. /\ "running" \in RunStatus \ (ClosedStatus \cup {"absent", "queued"})
        /\ "none" \in WaitingReason
    BY DEF RunStatus, ClosedStatus, WaitingReason
  <2>3. status[r] # "absent" /\ "running" \in RunStatus
    BY <1>2, <2>2
  <2>4. QED
    BY <1>2, <2>1, <2>2, <2>3, MovesRunInv
<1>6. ASSUME NEW st \in {"running", "waiting", "blocked"},
             NEW wr \in WaitingReason, ExecutorStatus(c, st, wr),
             violating' \subseteq Run \cap EnvironmentRuns
      PROVE  Inv'
  <2>1. /\ activation' = [activation EXCEPT ![r][s] = activation[r][s]]
        /\ activation[r][s] \in RunStatus
    BY <1>2, <1>6, RunRows DEF ExecutorStatus
  <2>2. MovesRun(r, st, wr, s, activation[r][s])
    BY <1>3, <1>6, <2>1 DEF ExecutorStatus, leaseVars, MovesRun
  <2>3. QED
    BY <1>2, <2>1, <2>2, MovesRunInv
<1>7. CASE ReportRunning(c) \/ ReportBlocked(c) \/ ReportWaitingApproval(c)
    BY SMTT(30), <1>3, <1>6, <1>7
       DEF ReportRunning, ReportBlocked, ReportWaitingApproval
<1>8. CASE ReportPolicyViolation(c)
    BY <1>2, <1>3, <1>6, <1>8 DEF ReportPolicyViolation
<1>9. QED
    BY <1>4, <1>5, <1>7, <1>8

LEMMA MarkInv ==
    ASSUME Inv, NEW x \in calling, MarkAgentCallWaiting(x)
    PROVE  Inv'
<1>0. PICK r : r = claim[x.by].run
    OBVIOUS
<1>1. /\ violating \subseteq Run \cap EnvironmentRuns
      /\ lapsed \subseteq leased /\ calling \subseteq AgentCall
      /\ working \subseteq 1..issued
    BY DEF Inv, TypeOK
<1>2. r \in Run /\ status[r] \in RunStatus \ {"absent"}
    BY <1>0, <1>1, IssuedClaim DEF AgentCall
<1>3. /\ activation' = [activation EXCEPT ![r][current[r]] =
                                activation[r][current[r]]]
      /\ current[r] \in Seq1 /\ activation[r][current[r]] \in RunStatus
  <2> HIDE DEF RunStatus, Seq1
  <2>1. activation' = activation
    BY DEF MarkAgentCallWaiting
  <2>2. /\ current[r] \in Seq1
        /\ \A s \in Seq1 : /\ activation[r][s] \in RunStatus
                           /\ activation = [activation EXCEPT ![r][s] = activation[r][s]]
    BY <1>2, RunRows
  <2>3. QED
    BY ONLY <2>1, <2>2
<1>4. CASE status[r] \in TerminalStatus
  <2>1. /\ status' = [status EXCEPT ![r] = status[r]]
        /\ waiting' = [waiting EXCEPT ![r] = waiting[r]]
        /\ waiting[r] \in WaitingReason
    BY <1>0, <1>2, <1>4, RunRows DEF MarkAgentCallWaiting
  <2>2. MovesRun(r, status[r], waiting[r], current[r],
                 activation[r][current[r]])
    BY <1>0, <1>1, <1>3, <1>4, <2>1
       DEF MarkAgentCallWaiting, callVars, leaseVars, MovesRun
  <2>3. QED
    BY <1>2, <1>3, <1>4, <2>1, <2>2, MovesRunInv
<1>5. CASE status[r] \notin TerminalStatus
  <2>1. MovesRun(r, "waiting", "agent_call", current[r],
                 activation[r][current[r]])
    BY <1>0, <1>1, <1>3, <1>5
       DEF MarkAgentCallWaiting, callVars, leaseVars, MovesRun
  <2>2. QED
    BY <1>2, <1>3, <2>1, MovesRunInv
<1>6. QED
    BY <1>4, <1>5

-----------------------------------------------------------------------------
LEMMA QuietInv ==
    ASSUME Inv, \/ \E c \in Claim : LeaseLapses(c) \/ WorkerStops(c)
                \/ \E r \in Run : AppendReviewFeedback(r)
    PROVE  Inv'
<1> USE DEF LeaseLapses, WorkerStops, AppendReviewFeedback, runVars, callVars,
            leaseVars
<1>1. /\ UNCHANGED <<status, activation, current, cancelRequests, issued, claim,
                     leased, overtaken>>
      /\ \A r \in Run : ClaimsOf(r)' = ClaimsOf(r)
    BY DEF ClaimsOf
<1>2. TypeOK'
  <2>1. TypeOK
    BY DEF Inv
  <2>2. CASE \E c \in Claim : LeaseLapses(c) \/ WorkerStops(c)
    BY <2>1, <2>2 DEF AgentCall, TypeOK
  <2>3. ASSUME NEW r \in Run, AppendReviewFeedback(r)
        PROVE  TypeOK'
    <3>1. reviewFeedback' \in [Run -> 0..MaxReviews]
      BY <2>1, <2>3, BoundAssumption DEF TypeOK
    <3>2. QED
      BY <2>1, <2>3, <3>1 DEF AgentCall, TypeOK
  <2>4. QED
    BY <2>2, <2>3
<1>3. AbsentRunUntouched' /\ ActiveRunIsLeased' /\ ClosedRunReleased'
    BY <1>1 DEF Inv, AbsentRunUntouched, ActiveRunIsLeased, ClosedRunReleased
<1>4. ExclusiveClaim'
  <2>1. ExclusiveClaim
    BY DEF Inv
  <2>2. QED
    BY ONLY <1>1, <2>1 DEF ExclusiveClaim
<1>5. QED
    BY <1>2, <1>3, <1>4 DEF Inv

LEMMA ClaimActivationInv ==
    ASSUME Inv, NEW k \in WorkerKind, ClaimActivation(k)
    PROVE  Inv'
<1> DEFINE c == issued + 1
<1>1. PICK r \in Run :
        /\ status[r] = "queued"
        /\ status' = [status EXCEPT ![r] = "dispatched"]
        /\ activation' = [activation EXCEPT ![r][current[r]] = "dispatched"]
        /\ claim' = [claim EXCEPT ![c] = [run |-> r, seq |-> current[r]]]
    BY DEF ClaimActivation
<1>2. /\ c \in Claim /\ issued' = c /\ leased' = leased \cup {c}
      /\ working' = working \cup {c} /\ lapsed' = {} /\ lapsed = {}
      /\ UNCHANGED <<waiting, current, relation, callFeedback, reviewFeedback,
                     violating, sandboxed, thread, cancelRequests, calling,
                     overtaken>>
    BY DEF ClaimActivation, callVars
<1>3. TypeOK
    BY DEF Inv
<1>4. /\ issued \in Nat /\ c \notin 1..issued /\ 1..c = 1..issued \cup {c}
      /\ leased \subseteq 1..issued
    BY <1>3 DEF TypeOK
<1>5. /\ claim'[c] = [run |-> r, seq |-> current[r]]
      /\ \A d \in 1..issued : claim'[d] = claim[d]
    BY <1>1, <1>2, <1>3, <1>4 DEF TypeOK
<1>6. TypeOK'
  <2>1. /\ status \in [Run -> RunStatus] /\ current \in [Run -> Seq1]
        /\ activation \in [Run -> [Seq1 -> RunStatus]]
        /\ claim \in [Claim -> [run : Run \cup {NoRun}, seq : 0..MaxSeq]]
        /\ \A d \in 1..issued : claim[d] \in [run : Run, seq : Seq1]
    BY <1>3 DEF TypeOK
  <2>2. status' \in [Run -> RunStatus]
    BY <1>1, <2>1
  <2>3. activation' \in [Run -> [Seq1 -> RunStatus]]
    <3> HIDE DEF Seq1
    <3>1. "dispatched" \in RunStatus /\ current[r] \in Seq1
      BY <2>1
    <3> HIDE DEF RunStatus
    <3>2. QED
      BY <1>1, <2>1, <3>1
  <2>4. [run |-> r, seq |-> current[r]] \in [run : Run, seq : Seq1]
    BY <2>1
  <2>5. claim' \in [Claim -> [run : Run \cup {NoRun}, seq : 0..MaxSeq]]
    <3>1. Seq1 \subseteq 0..MaxSeq
      BY BoundAssumption
    <3> HIDE DEF Seq1, NoRun, Claim
    <3>2. QED
      BY <1>1, <2>1, <2>4, <3>1
  <2>6. \A d \in 1..issued' : claim'[d] \in [run : Run, seq : Seq1]
    <3> HIDE DEF Seq1
    <3>1. QED
      BY <1>2, <1>4, <1>5, <2>1, <2>4
  <2>7. calling' \subseteq AgentCall'
    BY <1>2, <1>3 DEF AgentCall, TypeOK
  <2>8. issued' \in 0..MaxClaims
    BY <1>2, BoundAssumption
  <2>9. leased' \subseteq 1..issued' /\ working' \subseteq 1..issued'
    BY <1>2, <1>3, <1>4 DEF TypeOK
  <2> HIDE DEF RunStatus, WaitingReason, ThreadStatus, Seq1, Claim, NoRun
  <2>10. QED
    BY <1>2, <1>3, <2>2, <2>3, <2>5, <2>6, <2>7, <2>8, <2>9 DEF TypeOK
<1>7. \A p \in Run : ClaimsOf(p)' = IF p = r THEN ClaimsOf(p) \cup {c}
                                           ELSE ClaimsOf(p)
  <2>1. /\ leased' = leased \cup {c} /\ claim'[c].run = r
        /\ \A d \in leased : claim'[d].run = claim[d].run
    <3> HIDE DEF c
    <3>1. leased' = leased \cup {c}
      BY ONLY <1>2
    <3>2. claim'[c].run = r
      BY ONLY <1>5
    <3>3. \A d \in leased : claim'[d].run = claim[d].run
      BY ONLY <1>4, <1>5
    <3>4. QED
      BY ONLY <3>1, <3>2, <3>3
  <2>2. QED
    BY ONLY <2>1 DEF ClaimsOf
<1>8. AbsentRunUntouched'
    BY <1>1, <1>2, <1>3, <1>4, <1>5 DEF Inv, AbsentRunUntouched, TypeOK
<1>9. ActiveRunIsLeased' /\ ClosedRunReleased'
    BY <1>1, <1>2, <1>3, <1>7
       DEF Inv, ActiveRunIsLeased, ClosedRunReleased, TypeOK
<1>10. ExclusiveClaim'
  <2> SUFFICES ASSUME NEW p \in Run, p \notin overtaken
               PROVE  /\ \A d, e \in ClaimsOf(p)' : d = e
                      /\ \A d \in ClaimsOf(p)' : claim'[d].seq = current[p]
                      /\ status'[p] = "queued" => ClaimsOf(p)' = {}
    BY <1>2 DEF ExclusiveClaim
  <2>1. /\ \A d, e \in ClaimsOf(p) : d = e
        /\ \A d \in ClaimsOf(p) : claim[d].seq = current[p]
        /\ status[p] = "queued" => ClaimsOf(p) = {}
    BY DEF Inv, ExclusiveClaim
  <2>2. \A d \in ClaimsOf(p) : claim'[d] = claim[d]
    BY <1>4, <1>5 DEF ClaimsOf
  <2>3. CASE p = r
    <3>1. ClaimsOf(p)' = {c}
      BY <1>1, <1>7, <2>1, <2>3
    <3>2. status'[p] = "dispatched"
      BY <1>1, <1>3, <2>3 DEF TypeOK
    <3>3. QED
      BY <1>5, <2>3, <3>1, <3>2
  <2>4. CASE p # r
    <3>1. status'[p] = status[p]
      BY <1>1, <1>3, <2>4 DEF TypeOK
    <3>2. QED
      BY <1>7, <2>1, <2>2, <2>4, <3>1
  <2>5. QED
    BY <2>3, <2>4
<1>11. QED
    BY <1>6, <1>8, <1>9, <1>10 DEF Inv

-----------------------------------------------------------------------------
\* What is left of the invariant to show when a step hands out no claim: every
\* run is let go of, or overtaken, or keeps its rows and no new lease.
Kept(p) ==
    /\ p \notin overtaken
    /\ status'[p] = status[p] /\ current'[p] = current[p]

LEMMA NoNewClaimInv ==
    ASSUME Inv, claim' = claim, leased' \subseteq leased,
           \A p \in Run : p \in overtaken' \/ ClaimsOf(p)' = {} \/ Kept(p)
    PROVE  ExclusiveClaim'
<1> SUFFICES ASSUME NEW p \in Run, p \notin overtaken'
             PROVE  /\ \A d, e \in ClaimsOf(p)' : d = e
                    /\ \A d \in ClaimsOf(p)' : claim'[d].seq = current'[p]
                    /\ status'[p] = "queued" => ClaimsOf(p)' = {}
    BY DEF ExclusiveClaim
<1>1. CASE ClaimsOf(p)' = {}
    BY <1>1
<1>2. CASE Kept(p)
  <2>1. ClaimsOf(p)' \subseteq ClaimsOf(p)
    BY DEF ClaimsOf
  <2>2. /\ \A d, e \in ClaimsOf(p) : d = e
        /\ \A d \in ClaimsOf(p) : claim[d].seq = current[p]
        /\ status[p] = "queued" => ClaimsOf(p) = {}
    BY <1>2 DEF Inv, ExclusiveClaim, Kept
  <2>3. QED
    BY <1>2, <2>1, <2>2 DEF Kept
<1>3. QED
    BY <1>1, <1>2

\* A run that is not among those still marked has no lease left, or was not
\* marked.
LEMMA NotMarked ==
    ASSUME NEW S, claim' = claim, overtaken' = StillLeased(S, leased'),
           NEW p \in S
    PROVE  p \in overtaken' \/ ClaimsOf(p)' = {}
BY DEF StillLeased, ClaimsOf

LEMMA QueueNextInv ==
    ASSUME Inv, NEW r \in Run, status[r] # "absent", QueueNextActivation(r),
           reviewFeedback' \in [Run -> 0..MaxReviews],
           calling' \subseteq AgentCall',
           UNCHANGED <<relation, callFeedback, violating, sandboxed, thread,
                       cancelRequests, issued, claim, leased, lapsed, working>>
    PROVE  Inv'
<1>1. TypeOK
    BY DEF Inv
<1>2. TypeOK'
  <2>1. /\ status \in [Run -> RunStatus] /\ waiting \in [Run -> WaitingReason]
        /\ current \in [Run -> Seq1]
        /\ activation \in [Run -> [Seq1 -> RunStatus]]
    BY <1>1 DEF TypeOK
  <2>2. status' \in [Run -> RunStatus] /\ waiting' \in [Run -> WaitingReason]
    BY <2>1 DEF QueueNextActivation
  <2>3. current[r] + 1 \in Seq1
    BY <2>1, BoundAssumption DEF QueueNextActivation
  <2>4. /\ current' \in [Run -> Seq1]
        /\ activation' \in [Run -> [Seq1 -> RunStatus]]
    <3>1. "queued" \in RunStatus
      OBVIOUS
    <3> HIDE DEF Seq1, RunStatus
    <3>2. QED
      BY <2>1, <2>3, <3>1 DEF QueueNextActivation
  <2>5. overtaken' \subseteq Run
    BY <1>1 DEF QueueNextActivation, StillLeased, TypeOK
  <2>6. QED
    BY <1>1, <2>2, <2>4, <2>5 DEF TypeOK
<1>3. \A p \in Run : ClaimsOf(p)' = ClaimsOf(p)
    BY DEF ClaimsOf
<1>4. \A p \in Run : status'[p] = IF p = r THEN "queued" ELSE status[p]
    BY <1>1 DEF QueueNextActivation, TypeOK
<1>5. AbsentRunUntouched' /\ ActiveRunIsLeased' /\ ClosedRunReleased'
    BY <1>3, <1>4
       DEF Inv, AbsentRunUntouched, ActiveRunIsLeased, ClosedRunReleased
<1>6. ASSUME NEW p \in Run
      PROVE  p \in overtaken' \/ ClaimsOf(p)' = {} \/ Kept(p)
  <2>1. CASE p \in overtaken \cup {r}
    BY <2>1, NotMarked DEF QueueNextActivation
  <2>2. CASE p \notin overtaken \cup {r}
    BY <1>1, <2>2 DEF QueueNextActivation, Kept, TypeOK
  <2>3. QED
    BY <2>1, <2>2
<1>7. ExclusiveClaim'
    BY <1>6, NoNewClaimInv
<1>8. QED
    BY <1>2, <1>5, <1>7 DEF Inv

LEMMA ContinueInv ==
    ASSUME Inv, NEW r \in Run,
           Retry(r) \/ \E consumed \in {0, 1} : Continue(r, consumed)
    PROVE  Inv'
<1>1. /\ reviewFeedback \in [Run -> 0..MaxReviews]
      /\ calling \subseteq AgentCall
    BY DEF Inv, TypeOK
<1>2. CASE Retry(r)
  <2>1. calling' \subseteq AgentCall'
    BY <1>1, <1>2 DEF Retry, AgentCall
  <2>2. QED
    BY <1>1, <1>2, <2>1, QueueNextInv DEF Retry, callVars
<1>3. ASSUME NEW consumed \in {0, 1}, Continue(r, consumed)
      PROVE  Inv'
  <2>1. reviewFeedback' \in [Run -> 0..MaxReviews]
    BY <1>1, <1>3, BoundAssumption DEF Continue
  <2>2. calling' \subseteq AgentCall'
    BY <1>1, <1>3 DEF Continue, AgentCall
  <2>3. QED
    BY <1>3, <2>1, <2>2, QueueNextInv DEF Continue
<1>4. QED
    BY <1>2, <1>3

LEMMA StopInv ==
    ASSUME Inv, NEW r \in Run, StopActivation(r)
    PROVE  Inv'
<1>1. TypeOK
    BY DEF Inv
<1>2. /\ status' = [status EXCEPT ![r] = "completed"]
      /\ leased' = leased \ ClaimsOf(r) /\ cancelRequests' = cancelRequests \ {r}
      /\ overtaken' = StillLeased(overtaken, leased')
      /\ status[r] # "absent" /\ UNCHANGED <<issued, claim, current>>
    BY DEF StopActivation, Open
<1>3. \A p \in Run : /\ ClaimsOf(p)' = IF p = r THEN {} ELSE ClaimsOf(p)
                     /\ status'[p] = IF p = r THEN "completed" ELSE status[p]
    BY <1>1, <1>2 DEF ClaimsOf, TypeOK
<1>4. TypeOK'
  <2>1. /\ status' \in [Run -> RunStatus] /\ waiting' \in [Run -> WaitingReason]
        /\ overtaken' \subseteq Run
    BY <1>1 DEF StopActivation, StillLeased, TypeOK
  <2>2. activation' \in [Run -> [Seq1 -> RunStatus]]
    <3>1. /\ activation \in [Run -> [Seq1 -> RunStatus]]
          /\ current \in [Run -> Seq1] /\ "cancelled" \in RunStatus
      BY <1>1 DEF TypeOK
    <3> HIDE DEF Seq1, RunStatus
    <3>2. QED
      BY <3>1 DEF StopActivation
  <2>3. QED
    BY <1>1, <2>1, <2>2 DEF StopActivation, callVars, AgentCall, TypeOK
<1>5. AbsentRunUntouched' /\ ActiveRunIsLeased' /\ ClosedRunReleased'
    BY <1>2, <1>3
       DEF Inv, AbsentRunUntouched, ActiveRunIsLeased, ClosedRunReleased
<1>6. ASSUME NEW p \in Run
      PROVE  p \in overtaken' \/ ClaimsOf(p)' = {} \/ Kept(p)
  <2>1. CASE p \in overtaken
    BY <1>2, <2>1, NotMarked
  <2>2. CASE p = r
    BY <1>3, <2>2
  <2>3. CASE p \notin overtaken /\ p # r
    BY <1>1, <1>2, <2>3 DEF StopActivation, Kept, TypeOK
  <2>4. QED
    BY <2>1, <2>2, <2>3
<1>7. ExclusiveClaim'
    BY <1>2, <1>6, NoNewClaimInv
<1>8. QED
    BY <1>4, <1>5, <1>7 DEF Inv
-----------------------------------------------------------------------------
\* The first expired lease of a run exists.
LEMMA LeastElement ==
    ASSUME NEW T, T \subseteq Nat, T # {}
    PROVE  \E x \in T : \A y \in T : x <= y
<1> DEFINE R == {p \in Nat \X Nat : p[1] < p[2]}
<1>1. IsWellFoundedOn(R, Nat)
    BY NatLessThanWellFounded DEF OpToRel
<1>2. PICK x \in T : \A y \in T : <<y, x>> \notin R
  <2> HIDE DEF R
  <2>1. QED
    BY <1>1, WFMin
<1>3. ASSUME NEW y \in T, y < x
      PROVE  <<y, x>> \in R
    BY <1>3
<1>4. ASSUME NEW y \in T
      PROVE  x <= y
  <2>1. x \in Nat /\ y \in Nat /\ ~(y < x)
    BY <1>2, <1>3
  <2>2. QED
    BY <2>1
<1>5. QED
    BY <1>4

\* What RecoverStale does to a run: it goes back to the queue, on an activation
\* that one of its expired leases is for, or it keeps its rows.
Requeued(p) ==
    /\ status[p] \in OccupyingStatus
    /\ \E c \in lapsed : claim[c].run = p /\ current'[p] = claim[c].seq
    /\ status'[p] = "queued" /\ waiting'[p] = "none" /\ current'[p] \in Seq1
    /\ activation'[p] = [activation[p] EXCEPT ![current'[p]] = "queued"]

Untouched(p) ==
    /\ ~(status[p] \in OccupyingStatus /\ \E c \in lapsed : claim[c].run = p)
    /\ status'[p] = status[p] /\ waiting'[p] = waiting[p]
    /\ current'[p] = current[p] /\ activation'[p] = activation[p]

LEMMA RecoverRows ==
    ASSUME Inv, RecoverStale, NEW p \in Run
    PROVE  Requeued(p) \/ Untouched(p)
<1> DEFINE Own == {c \in lapsed : claim[c].run = p}
<1>1. lapsed \subseteq 1..issued /\ issued \in Nat
    BY DEF Inv, TypeOK
<1>2. CASE status[p] \in OccupyingStatus /\ Own # {}
  <2>1. PICK c \in lapsed : /\ claim[c].run = p
                            /\ \A d \in lapsed : claim[d].run = p => c <= d
    <3>1. Own \subseteq Nat /\ Own # {}
      <4>1. \A c \in 1..issued : c \in Nat
        BY <1>1
      <4>2. QED
        BY <1>1, <1>2, <4>1
    <3>2. PICK c \in Own : \A d \in Own : c <= d
      <4> HIDE DEF Own
      <4>1. QED
        BY <3>1, LeastElement
    <3>3. QED
      BY <3>2
  <2> DEFINE first == CHOOSE e \in lapsed :
                        /\ claim[e].run = p
                        /\ \A d \in lapsed : claim[d].run = p => e <= d
  <2>2. first \in lapsed /\ claim[first].run = p
    BY <2>1
  <2>3. claim[first].seq \in Seq1
    BY <1>1, <2>2, IssuedClaim
  <2>4. /\ status'[p] = "queued" /\ waiting'[p] = "none"
        /\ current'[p] = claim[first].seq
        /\ activation'[p] = [activation[p] EXCEPT ![claim[first].seq] = "queued"]
    BY <1>2 DEF RecoverStale
  <2> HIDE DEF first
  <2>5. QED
    BY <1>2, <2>2, <2>3, <2>4 DEF Requeued
<1>3. CASE ~(status[p] \in OccupyingStatus /\ Own # {})
    BY <1>3 DEF RecoverStale, Untouched
<1>4. QED
    BY <1>2, <1>3

LEMMA RecoverInv ==
    ASSUME Inv, RecoverStale
    PROVE  Inv'
<1>1. TypeOK
    BY DEF Inv
<1>2. /\ leased' = leased \ lapsed /\ lapsed' = {} /\ cancelRequests' \subseteq cancelRequests
      /\ overtaken' = StillLeased(overtaken, leased')
      /\ UNCHANGED <<relation, callFeedback, reviewFeedback, violating, sandboxed,
                     thread, issued, claim, working, calling>>
    BY DEF RecoverStale, callVars
<1>3. \A p \in Run : Requeued(p) \/ Untouched(p)
    BY RecoverRows
<1>4. TypeOK'
  <2>1. /\ status' = [p \in Run |-> status'[p]]
        /\ waiting' = [p \in Run |-> waiting'[p]]
        /\ current' = [p \in Run |-> current'[p]]
        /\ activation' = [p \in Run |-> activation'[p]]
    BY DEF RecoverStale
  <2>2. ASSUME NEW p \in Run
        PROVE  /\ status'[p] \in RunStatus /\ waiting'[p] \in WaitingReason
               /\ current'[p] \in Seq1 /\ activation'[p] \in [Seq1 -> RunStatus]
    <3>1. /\ status[p] \in RunStatus /\ waiting[p] \in WaitingReason
          /\ current[p] \in Seq1 /\ activation[p] \in [Seq1 -> RunStatus]
      BY <1>1 DEF TypeOK
    <3>2. CASE Requeued(p)
      <4>1. "queued" \in RunStatus /\ "none" \in WaitingReason
        OBVIOUS
      <4> HIDE DEF RunStatus, WaitingReason, Seq1
      <4>2. QED
        BY <3>1, <3>2, <4>1 DEF Requeued
    <3>3. CASE Untouched(p)
      BY <3>1, <3>3 DEF Untouched
    <3>4. QED
      BY <1>3, <3>2, <3>3
  <2>3. /\ status' \in [Run -> RunStatus] /\ waiting' \in [Run -> WaitingReason]
        /\ current' \in [Run -> Seq1]
        /\ activation' \in [Run -> [Seq1 -> RunStatus]]
    <3> HIDE DEF RunStatus, WaitingReason, Seq1
    <3>1. QED
      BY <2>1, <2>2
  <2>4. /\ overtaken' \subseteq Run /\ calling' \subseteq AgentCall'
        /\ cancelRequests' \subseteq Run
    BY <1>1, <1>2 DEF TypeOK, AgentCall, StillLeased
  <2>5. QED
    BY <1>1, <1>2, <2>3, <2>4 DEF TypeOK
<1>5. ASSUME NEW p \in Run
      PROVE  ClaimsOf(p)' = ClaimsOf(p) \ lapsed
    BY <1>2 DEF ClaimsOf
<1>6. AbsentRunUntouched' /\ ClosedRunReleased'
    BY <1>2, <1>3, <1>5
       DEF Inv, AbsentRunUntouched, ClosedRunReleased, Requeued, Untouched
<1>7. ActiveRunIsLeased'
  <2> SUFFICES ASSUME NEW p \in Run, status'[p] \in {"dispatched", "running"}
               PROVE  ClaimsOf(p)' # {}
    BY DEF ActiveRunIsLeased
  <2>1. Untouched(p)
    BY <1>3 DEF Requeued
  <2>2. ClaimsOf(p) # {} /\ ClaimsOf(p) \cap lapsed = {}
    BY <2>1 DEF Untouched, ClaimsOf, Inv, ActiveRunIsLeased
  <2>3. QED
    BY <1>5, <2>2
<1>8. ASSUME NEW p \in Run
      PROVE  p \in overtaken' \/ ClaimsOf(p)' = {} \/ Kept(p)
  <2>1. CASE p \in overtaken
    BY <1>2, <2>1, NotMarked
  <2>2. CASE p \notin overtaken /\ Untouched(p)
    BY <2>2 DEF Untouched, Kept
  <2>3. CASE p \notin overtaken /\ Requeued(p)
    <3>1. \A c, d \in ClaimsOf(p) : c = d
      BY <2>3 DEF Inv, ExclusiveClaim
    <3>2. \E c \in ClaimsOf(p) : c \in lapsed
      BY <1>1, <2>3 DEF Requeued, ClaimsOf, TypeOK
    <3>3. QED
      BY <1>5, <3>1, <3>2
  <2>4. QED
    BY <1>3, <2>1, <2>2, <2>3
<1>9. ExclusiveClaim'
    BY <1>2, <1>8, NoNewClaimInv
<1>10. QED
    BY <1>4, <1>6, <1>7, <1>9 DEF Inv
-----------------------------------------------------------------------------
\* Completion and cancellation: a run loses its claims and its cancel request
\* and parks or ends, or it is spared; then some parked runs are resumed.
Released(p, st, held) ==
    /\ status[p] # "absent"
    /\ st[p] \in TerminalStatus \cup {"waiting"}
    /\ held \cap ClaimsOf(p) = {}
    /\ p \notin cancelRequests'

Spared(p, st, cur, act, held) ==
    /\ st[p] = status[p] /\ cur[p] = current[p] /\ act[p] = activation[p]
    /\ ClaimsOf(p) \subseteq held
    /\ p \in cancelRequests' => p \in cancelRequests \/ Open(p)

Rows(st, wr, cur, act) ==
    /\ st \in [Run -> RunStatus] /\ wr \in [Run -> WaitingReason]
    /\ cur \in [Run -> Seq1] /\ act \in [Run -> [Seq1 -> RunStatus]]

\* What the enclosing action leaves to the rest of the state.
SettleFrame ==
    /\ violating' \subseteq Run \cap EnvironmentRuns
    /\ thread' \in [Run -> ThreadStatus]
    /\ cancelRequests' \subseteq Run
    /\ working' \subseteq working /\ calling' \subseteq AgentCall'
    /\ UNCHANGED <<relation, reviewFeedback, sandboxed>>

LEMMA SettleFeedback ==
    ASSUME Inv, NEW ended \in SUBSET Run, NEW self, NEW st, NEW wr, NEW cur,
           NEW act, NEW held, Settle(ended, self, st, wr, cur, act, held)
    PROVE  callFeedback' \in [Run -> Nat]
<1> DEFINE resumed == Resumed(ended, self, st, wr, cur, act)
<1>1. callFeedback \in [Run -> Nat]
    BY DEF Inv, TypeOK
<1>2. ASSUME NEW o \in Run
      PROVE  /\ Cardinality(Reports(ended, o)) \in Nat
             /\ o \in resumed =>
                    callFeedback[o] + Cardinality(Reports(ended, o)) > 0
  <2>1. IsFiniteSet(Reports(ended, o))
    BY RunAssumption, FS_Subset DEF Reports
  <2>2. /\ Cardinality(Reports(ended, o)) \in Nat
        /\ Cardinality(Reports(ended, o)) = 0 => Reports(ended, o) = {}
    BY <2>1, FS_CardinalityType, FS_EmptySet
  <2>3. o \in resumed => Reports(ended, o) # {} \/ callFeedback[o] > 0
    BY DEF Resumed
  <2>4. callFeedback[o] \in Nat
    BY <1>1
  <2>5. QED
    BY <2>2, <2>3, <2>4
<1>3. callFeedback' = [o \in Run |->
            callFeedback[o] + Cardinality(Reports(ended, o))
                - IF o \in resumed THEN 1 ELSE 0]
    BY DEF Settle
<1> HIDE DEF resumed
<1>4. QED
    BY <1>1, <1>2, <1>3

\* What Settle does to one run.
Resumes(p, st, cur, act) ==
    /\ st[p] = "waiting" /\ status'[p] = "queued" /\ waiting'[p] = "none"
    /\ cur[p] < MaxSeq /\ current'[p] = cur[p] + 1
    /\ activation'[p] = [act[p] EXCEPT ![cur[p] + 1] = "queued"]
    /\ p \in overtaken' \/ ClaimsOf(p)' = {}

Keeps(p, st, wr, cur, act) ==
    /\ status'[p] = st[p] /\ waiting'[p] = wr[p]
    /\ current'[p] = cur[p] /\ activation'[p] = act[p]

LEMMA SettleRows ==
    ASSUME Inv, NEW ended, NEW self, NEW st, NEW wr, NEW cur,
           NEW act, NEW held, Settle(ended, self, st, wr, cur, act, held),
           NEW p \in Run
    PROVE  Resumes(p, st, cur, act) \/ Keeps(p, st, wr, cur, act)
<1> DEFINE resumed == Resumed(ended, self, st, wr, cur, act)
<1>1. /\ claim' = claim /\ leased' = held
      /\ overtaken' = StillLeased(overtaken \cup resumed, leased')
    BY DEF Settle
<1>2. CASE p \in resumed
  <2>1. p \in overtaken' \/ ClaimsOf(p)' = {}
    <3> HIDE DEF resumed
    <3>1. QED
      BY <1>1, <1>2, NotMarked
  <2>2. st[p] = "waiting"
    BY <1>2 DEF Resumed
  <2> HIDE DEF resumed
  <2>3. /\ status'[p] = "queued" /\ waiting'[p] = "none" /\ cur[p] < MaxSeq
        /\ current'[p] = cur[p] + 1
        /\ activation'[p] = [act[p] EXCEPT ![cur[p] + 1] = "queued"]
    BY <1>2 DEF Settle, resumed
  <2>4. QED
    BY <2>1, <2>2, <2>3 DEF Resumes
<1>3. CASE p \notin resumed
  <2> HIDE DEF resumed
  <2>1. QED
    BY <1>3 DEF Settle, Keeps, resumed
<1>4. QED
    BY <1>2, <1>3

LEMMA SettleType ==
    ASSUME Inv, NEW ended \in SUBSET Run, NEW self, NEW st, NEW wr, NEW cur,
           NEW act, NEW held \in SUBSET leased, Rows(st, wr, cur, act),
           Settle(ended, self, st, wr, cur, act, held), SettleFrame
    PROVE  TypeOK'
<1>1. TypeOK
    BY DEF Inv
<1>2. /\ status' = [o \in Run |-> status'[o]]
      /\ waiting' = [o \in Run |-> waiting'[o]]
      /\ current' = [o \in Run |-> current'[o]]
      /\ activation' = [o \in Run |-> activation'[o]]
    BY DEF Settle
<1>3. ASSUME NEW p \in Run
      PROVE  /\ status'[p] \in RunStatus /\ waiting'[p] \in WaitingReason
             /\ current'[p] \in Seq1 /\ activation'[p] \in [Seq1 -> RunStatus]
  <2>1. /\ st[p] \in RunStatus /\ wr[p] \in WaitingReason
        /\ cur[p] \in Seq1 /\ act[p] \in [Seq1 -> RunStatus]
    BY DEF Rows
  <2>2. CASE Resumes(p, st, cur, act)
    <3>1. /\ "queued" \in RunStatus /\ "none" \in WaitingReason
          /\ cur[p] < MaxSeq => cur[p] + 1 \in Seq1
      BY <2>1, BoundAssumption
    <3> HIDE DEF RunStatus, WaitingReason, Seq1
    <3>2. QED
      BY <2>1, <2>2, <3>1 DEF Resumes
  <2>3. CASE Keeps(p, st, wr, cur, act)
    BY <2>1, <2>3 DEF Keeps
  <2>4. QED
    BY <2>2, <2>3, SettleRows
<1>4. /\ status' \in [Run -> RunStatus] /\ waiting' \in [Run -> WaitingReason]
      /\ current' \in [Run -> Seq1]
      /\ activation' \in [Run -> [Seq1 -> RunStatus]]
  <2> HIDE DEF RunStatus, WaitingReason, Seq1
  <2>1. QED
    BY <1>2, <1>3
<1>5. /\ UNCHANGED <<issued, claim>> /\ leased' \subseteq leased
      /\ lapsed' \subseteq leased' /\ overtaken' \subseteq Run
    BY <1>1 DEF Settle, StillLeased, Resumed, TypeOK
<1>6. callFeedback' \in [Run -> Nat]
    BY SettleFeedback
<1>7. QED
    BY <1>1, <1>4, <1>5, <1>6 DEF SettleFrame, TypeOK

LEMMA SettleInv ==
    ASSUME Inv, NEW ended \in SUBSET Run, NEW self, NEW st, NEW wr, NEW cur,
           NEW act, NEW held \in SUBSET leased, Rows(st, wr, cur, act),
           Settle(ended, self, st, wr, cur, act, held), SettleFrame,
           \A p \in Run : Released(p, st, held) \/ Spared(p, st, cur, act, held)
    PROVE  Inv'
<1>1. TypeOK'
    BY SettleType
<1>2. \A p \in Run :
        Resumes(p, st, cur, act) \/ Keeps(p, st, wr, cur, act)
    BY SettleRows
<1>3. UNCHANGED <<issued, claim>> /\ leased' = held
    BY DEF Settle
<1>4. \A p \in Run : ClaimsOf(p)' = held \cap ClaimsOf(p)
    BY <1>3 DEF ClaimsOf
<1>5. AbsentRunUntouched'
  <2> SUFFICES ASSUME NEW p \in Run, status'[p] = "absent"
               PROVE  p \notin cancelRequests' /\ \A c \in 1..issued : claim[c].run # p
    BY <1>3 DEF AbsentRunUntouched
  <2>1. st[p] = "absent" /\ ~Released(p, st, held)
    BY <1>2 DEF Resumes, Keeps, Released
  <2>2. status[p] = "absent" /\ (p \in cancelRequests' => p \in cancelRequests)
    BY <2>1 DEF Spared, Open
  <2>3. QED
    BY <2>2 DEF Inv, AbsentRunUntouched
<1>6. ActiveRunIsLeased'
  <2> SUFFICES ASSUME NEW p \in Run, status'[p] \in {"dispatched", "running"}
               PROVE  ClaimsOf(p)' # {}
    BY DEF ActiveRunIsLeased
  <2>1. st[p] = status'[p] /\ Spared(p, st, cur, act, held)
    BY <1>2 DEF Resumes, Keeps, Released
  <2>2. ClaimsOf(p) # {} /\ ClaimsOf(p) \subseteq held
    BY <2>1 DEF Spared, Inv, ActiveRunIsLeased
  <2>3. QED
    BY <1>4, <2>2
<1>7. ClosedRunReleased'
  <2> SUFFICES ASSUME NEW p \in Run, status'[p] \in ClosedStatus
               PROVE  ClaimsOf(p)' = {} /\ p \notin cancelRequests'
    BY DEF ClosedRunReleased
  <2>1. st[p] = status'[p]
    BY <1>2 DEF Resumes, Keeps
  <2>2. CASE Released(p, st, held)
    BY <1>4, <2>2 DEF Released
  <2>3. CASE Spared(p, st, cur, act, held)
    <3>1. status[p] \in ClosedStatus /\ ~Open(p)
      BY <2>1, <2>3 DEF Spared, Open
    <3>2. ClaimsOf(p) = {} /\ p \notin cancelRequests
      BY <3>1 DEF Inv, ClosedRunReleased
    <3>3. QED
      BY <1>4, <2>3, <3>1, <3>2 DEF Spared
  <2>4. QED
    BY <2>2, <2>3
<1>8. ASSUME NEW p \in Run
      PROVE  p \in overtaken' \/ ClaimsOf(p)' = {} \/ Kept(p)
  <2>1. CASE p \in overtaken
    <3>1. overtaken' = StillLeased(overtaken \cup
                            Resumed(ended, self, st, wr, cur, act), leased')
      BY DEF Settle
    <3>2. QED
      BY <1>3, <2>1, <3>1, NotMarked
  <2>2. CASE Resumes(p, st, cur, act)
    BY <2>2 DEF Resumes
  <2>3. CASE Released(p, st, held)
    BY <1>4, <2>3 DEF Released
  <2>4. CASE p \notin overtaken /\ Spared(p, st, cur, act, held)
             /\ Keeps(p, st, wr, cur, act)
    BY <2>4 DEF Spared, Keeps, Kept
  <2>5. QED
    BY <1>2, <2>1, <2>2, <2>3, <2>4
<1>9. ExclusiveClaim'
    BY <1>3, <1>8, NoNewClaimInv
<1>10. QED
    BY <1>1, <1>5, <1>6, <1>7, <1>9 DEF Inv

LEMMA CancelRunsInv ==
    ASSUME Inv, NEW open \in SUBSET Run, \A d \in open : Open(d),
           CancelRuns(open), thread' \in [Run -> ThreadStatus]
    PROVE  Inv'
<1> DEFINE ended == EndsAtOnce(open)
           st == [d \in Run |-> IF d \in ended THEN "cancelled" ELSE status[d]]
           wr == [d \in Run |-> IF d \in ended THEN "none" ELSE waiting[d]]
           held == {c \in leased : claim[c].run \notin ended}
<1>1. TypeOK /\ ended \subseteq open
    BY DEF Inv, EndsAtOnce
<1>2. /\ Settle(ended, {}, st, wr, current, activation, held)
      /\ cancelRequests' = (cancelRequests \cup open) \ ended
      /\ UNCHANGED <<relation, reviewFeedback, violating, sandboxed, working,
                     calling>>
    BY DEF CancelRuns
<1>3. Rows(st, wr, current, activation)
    BY <1>1 DEF TypeOK, Rows
<1>4. SettleFrame
    BY <1>1, <1>2 DEF TypeOK, AgentCall, SettleFrame
<1>5. ASSUME NEW p \in Run
      PROVE  \/ Released(p, st, held)
             \/ Spared(p, st, current, activation, held)
  <2>1. CASE p \in ended
    <3>1. status[p] # "absent"
      BY <1>1, <2>1 DEF Open
    <3>2. st[p] = "cancelled" /\ held \cap ClaimsOf(p) = {}
          /\ p \notin cancelRequests'
      BY <1>2, <2>1 DEF ClaimsOf
    <3>3. QED
      BY <3>1, <3>2 DEF Released
  <2>2. CASE p \notin ended
    <3>1. st[p] = status[p] /\ ClaimsOf(p) \subseteq held
      BY <2>2 DEF ClaimsOf
    <3>2. p \in cancelRequests' => p \in cancelRequests \/ Open(p)
      BY <1>2
    <3> HIDE DEF st, held
    <3>3. QED
      BY <3>1, <3>2 DEF Spared
  <2>3. QED
    BY <2>1, <2>2
<1>6. ended \in SUBSET Run /\ held \in SUBSET leased
    BY <1>1
<1> HIDE DEF ended, st, wr, held
<1>7. QED
    BY <1>2, <1>3, <1>4, <1>5, <1>6, SettleInv

LEMMA CancelInv ==
    ASSUME Inv, NEW r \in Run,
           Cancel(r) \/ \E cancel \in BOOLEAN : EndThread(r, cancel)
    PROVE  Inv'
<1>1. thread \in [Run -> ThreadStatus]
    BY DEF Inv, TypeOK
<1>2. CASE Cancel(r)
  <2> DEFINE open == {d \in CallTree(r) : Open(d)}
  <2>1. open \in SUBSET Run /\ \A d \in open : Open(d)
    BY DEF CallTree
  <2>2. thread' \in [Run -> ThreadStatus]
    BY <1>1, <1>2 DEF Cancel, ThreadsEnd
  <2>3. CancelRuns(open)
    BY <1>2 DEF Cancel
  <2> HIDE DEF open
  <2>4. QED
    BY <2>1, <2>2, <2>3, CancelRunsInv
<1>3. ASSUME NEW cancel \in BOOLEAN, EndThread(r, cancel)
      PROVE  Inv'
  <2> DEFINE open == {d \in {r} : cancel /\ Open(d)}
  <2>1. open \in SUBSET Run /\ \A d \in open : Open(d)
    OBVIOUS
  <2>2. thread' \in [Run -> ThreadStatus]
    BY <1>1, <1>3 DEF EndThread
  <2>3. CancelRuns(open)
    BY <1>3 DEF EndThread
  <2> HIDE DEF open
  <2>4. QED
    BY <2>1, <2>2, <2>3, CancelRunsInv
<1>4. QED
    BY <1>2, <1>3

\* Completion is a Settle of the run that parks or ends.
Finishes(r, s, result) ==
    \E ended \in SUBSET Run, self \in {{r}, {}},
       st0 \in TerminalStatus \cup {"waiting"}, wr0 \in WaitingReason :
        /\ Settle(ended, self, [status EXCEPT ![r] = st0],
                  [waiting EXCEPT ![r] = wr0], [current EXCEPT ![r] = s],
                  [activation EXCEPT ![r][s] = result], leased \ ClaimsOf(r))
        /\ st0 \in {"failed", "cancelled"} => ThreadsEnd({r})

LEMMA CompleteSettles ==
    ASSUME Inv, NEW c \in Claim, NEW result \in Result, NEW violates \in BOOLEAN,
           Complete(c, result, violates)
    PROVE  Finishes(claim[c].run, claim[c].seq, result)
<1> DEFINE r == claim[c].run
           cur == [current EXCEPT ![r] = claim[c].seq]
           act == [activation EXCEPT ![r][claim[c].seq] = result]
           held == leased \ ClaimsOf(r)
           settles(ended, self, st0, wr0) ==
                Settle(ended, self, [status EXCEPT ![r] = st0],
                       [waiting EXCEPT ![r] = wr0], cur, act, held)
           reasons == IF status[r] = "waiting" THEN {waiting[r]}
                                               ELSE FeedbackReasons(r)
           end == IF violates \/ r \in violating THEN "blocked" ELSE result
<1>1. r \in Run /\ waiting[r] \in WaitingReason
  <2>1. c \in leased
    BY DEF Complete
  <2>2. QED
    BY <2>1, LeasedClaim, IssuedClaim, RunRows
<1>2. FeedbackReasons(r) \subseteq WaitingReason
    BY DEF FeedbackReasons
<1>3. \/ \E reason \in reasons : settles({}, {r}, "waiting", reason)
      \/ settles({r}, {}, end, "none") /\ (end # "completed" => ThreadsEnd({r}))
    BY DEF Complete
<1>4. reasons \subseteq WaitingReason /\ end \in TerminalStatus
    BY <1>1, <1>2
<1>5. {r} \in SUBSET Run /\ {} \in SUBSET Run /\ "none" \in WaitingReason
    BY <1>1
<1> SUFFICES \E ended \in SUBSET Run, self \in {{r}, {}},
                st0 \in TerminalStatus \cup {"waiting"}, wr0 \in WaitingReason :
                  /\ settles(ended, self, st0, wr0)
                  /\ st0 \in {"failed", "cancelled"} => ThreadsEnd({r})
    BY DEF Finishes
<1> HIDE DEF r, settles, reasons, end, TerminalStatus, WaitingReason
<1>6. CASE \E reason \in reasons : settles({}, {r}, "waiting", reason)
    BY <1>4, <1>5, <1>6
<1>7. CASE settles({r}, {}, end, "none") /\ (end # "completed" => ThreadsEnd({r}))
    BY <1>4, <1>5, <1>7
<1>8. QED
    BY <1>3, <1>6, <1>7

LEMMA CompleteInv ==
    ASSUME Inv, NEW c \in Claim, NEW result \in Result, NEW violates \in BOOLEAN,
           Complete(c, result, violates)
    PROVE  Inv'
<1> DEFINE r == claim[c].run
           cur == [current EXCEPT ![r] = claim[c].seq]
           act == [activation EXCEPT ![r][claim[c].seq] = result]
           held == leased \ ClaimsOf(r)
<1>1. TypeOK /\ c \in leased
    BY DEF Inv, Complete
<1>2. r \in Run /\ claim[c].seq \in Seq1 /\ status[r] # "absent"
    BY <1>1, IssuedClaim, LeasedClaim
<1>3. PICK ended \in SUBSET Run, self \in {{r}, {}},
           st0 \in TerminalStatus \cup {"waiting"}, wr0 \in WaitingReason :
        /\ Settle(ended, self, [status EXCEPT ![r] = st0],
                  [waiting EXCEPT ![r] = wr0], cur, act, held)
        /\ st0 \in {"failed", "cancelled"} => ThreadsEnd({r})
  <2>1. Finishes(r, claim[c].seq, result)
    BY CompleteSettles
  <2>2. QED
    BY <2>1 DEF Finishes
<1> DEFINE st == [status EXCEPT ![r] = st0]
           wr == [waiting EXCEPT ![r] = wr0]
<1>4. Rows(st, wr, cur, act)
  <2>1. /\ status \in [Run -> RunStatus] /\ waiting \in [Run -> WaitingReason]
        /\ current \in [Run -> Seq1]
        /\ activation \in [Run -> [Seq1 -> RunStatus]]
    BY <1>1 DEF TypeOK
  <2>2. st0 \in RunStatus /\ result \in RunStatus
    OBVIOUS
  <2> HIDE DEF r, RunStatus, WaitingReason, Seq1
  <2>3. QED
    BY <1>2, <2>1, <2>2 DEF Rows
<1>5. SettleFrame
  <2>1. /\ violating' \subseteq Run \cap EnvironmentRuns
        /\ cancelRequests' \subseteq Run /\ working' \subseteq working
        /\ UNCHANGED <<relation, reviewFeedback, sandboxed>>
    BY <1>1, <1>2 DEF Complete, TypeOK
  <2>2. thread' \in [Run -> ThreadStatus]
    BY <1>1 DEF Complete, ThreadsEnd, TypeOK
  <2>3. calling' \subseteq AgentCall'
    BY <1>1 DEF Complete, AgentCall, TypeOK
  <2>4. QED
    BY <2>1, <2>2, <2>3 DEF SettleFrame
<1>6. cancelRequests' = cancelRequests \ {r}
    BY DEF Complete
<1>7. ASSUME NEW p \in Run
      PROVE  Released(p, st, held) \/ Spared(p, st, cur, act, held)
  <2>1. CASE p = r
    <3>1. st[p] = st0
      BY <1>1, <2>1, <1>2 DEF TypeOK
    <3>2. held \cap ClaimsOf(p) = {} /\ status[p] # "absent"
          /\ p \notin cancelRequests'
      BY <1>2, <1>6, <2>1
    <3> HIDE DEF st, held
    <3>3. QED
      BY <3>1, <3>2 DEF Released
  <2>2. CASE p # r
    <3>1. st[p] = status[p] /\ cur[p] = current[p] /\ act[p] = activation[p]
      BY <1>1, <2>2 DEF TypeOK
    <3>2. ClaimsOf(p) \subseteq held
      BY <2>2 DEF ClaimsOf
    <3> HIDE DEF st, cur, act, held
    <3>3. QED
      BY <1>6, <3>1, <3>2 DEF Spared
  <2>3. QED
    BY <2>1, <2>2
<1>8. held \in SUBSET leased
    OBVIOUS
<1> HIDE DEF r, st, wr, cur, act, held
<1>9. QED
    BY <1>3, <1>4, <1>5, <1>7, <1>8, SettleInv DEF st, wr

-----------------------------------------------------------------------------
LEMMA SubmitInv ==
    ASSUME Inv, NEW r \in Run, NEW started \in BOOLEAN,
           \/ Submit(r, started)
           \/ \E c \in Claim, persistent, wait \in BOOLEAN :
                SubmitAgentCall(c, r, persistent, wait, started)
    PROVE  Inv'
<1>1. calling \subseteq AgentCall /\ working \subseteq 1..issued
    BY DEF Inv, TypeOK
<1>2. CASE Submit(r, started)
    BY <1>1, <1>2, AddRunInv DEF Submit
<1>3. ASSUME NEW c \in Claim, NEW persistent \in BOOLEAN, NEW wait \in BOOLEAN,
             SubmitAgentCall(c, r, persistent, wait, started)
      PROVE  Inv'
  <2>1. c \in working /\ AddRun(r, claim[c].run, wait, started)
    BY <1>3 DEF SubmitAgentCall
  <2>2. claim[c].run \in Run
    BY <1>1, <2>1, IssuedClaim
  <2>3. calling' \subseteq AgentCall
    BY <1>1, <1>3, <2>1 DEF SubmitAgentCall, MarkIf, Call, AgentCall
  <2>4. QED
    BY <2>1, <2>2, <2>3, AddRunInv
<1>4. QED
    BY <1>2, <1>3

\* A step of an agent call that changes no run row and no lease.
CallMoves ==
    /\ thread' \in [Run -> ThreadStatus]
    /\ calling' \subseteq AgentCall
    /\ UNCHANGED <<status, waiting, current, activation, overtaken>>
    /\ UNCHANGED <<relation, callFeedback, reviewFeedback, violating, sandboxed,
                   cancelRequests, issued, claim, leased, lapsed, working>>

LEMMA CallMovesInv ==
    ASSUME Inv, CallMoves
    PROVE  Inv'
<1>1. TypeOK
    BY DEF Inv
<1>2. \A r \in Run : ClaimsOf(r)' = ClaimsOf(r)
    BY DEF CallMoves, ClaimsOf
<1>3. TypeOK'
    BY <1>1 DEF CallMoves, AgentCall, TypeOK
<1>4. AbsentRunUntouched' /\ ActiveRunIsLeased' /\ ClosedRunReleased'
    BY <1>2 DEF CallMoves, Inv, AbsentRunUntouched, ActiveRunIsLeased,
                ClosedRunReleased
<1>5. ExclusiveClaim'
  <2>1. ExclusiveClaim
    BY DEF Inv
  <2>2. QED
    BY ONLY <1>2, <2>1, CallMoves DEF CallMoves, ExclusiveClaim
<1>6. QED
    BY <1>3, <1>4, <1>5 DEF Inv

LEMMA FindInv ==
    ASSUME Inv, NEW c \in Claim, NEW r \in Run, NEW wait \in BOOLEAN,
           FindThread(c, r, wait)
    PROVE  Inv'
<1>1. thread \in [Run -> ThreadStatus] /\ calling \subseteq AgentCall
    BY DEF Inv, TypeOK
<1>2. calling' \subseteq AgentCall
    BY <1>1 DEF FindThread, Call, AgentCall
<1>3. CallMoves
    BY <1>1, <1>2 DEF FindThread, CallMoves, runVars, callVars, leaseVars
<1>4. QED
    BY <1>3, CallMovesInv

\* What an agent call does next is a call of the same executor again.
LEMMA NextOfCall ==
    ASSUME Inv, NEW x \in calling,
           calling' \subseteq calling \cup MarkIf(x.wait, x.by, x.called)
    PROVE  x.called \in Run /\ calling' \subseteq AgentCall
BY DEF Inv, TypeOK, MarkIf, Call, AgentCall

LEMMA CallStepInv ==
    ASSUME Inv, NEW x \in calling, BindThread(x) \/ ContinueThread(x)
    PROVE  Inv'
<1>1. thread \in [Run -> ThreadStatus] /\ reviewFeedback \in [Run -> 0..MaxReviews]
    BY DEF Inv, TypeOK
<1>2. x.called \in Run /\ calling' \subseteq AgentCall
    BY NextOfCall DEF BindThread, ContinueThread
<1>3. CASE BindThread(x)
  <2>1. thread' \in [Run -> ThreadStatus]
    BY <1>1, <1>3 DEF BindThread
  <2>2. CallMoves
    BY <1>2, <1>3, <2>1 DEF BindThread, CallMoves, runVars, callVars, leaseVars
  <2>3. QED
    BY <2>2, CallMovesInv
<1>4. CASE /\ status[x.called] \in ContinuableStatus
           /\ ContinueThread(x) /\ QueueNextActivation(x.called)
  <2>1. calling' \subseteq AgentCall'
    BY <1>2, <1>4 DEF ContinueThread, AgentCall
  <2>2. UNCHANGED <<relation, callFeedback, reviewFeedback, violating, sandboxed,
                    thread, cancelRequests, issued, claim, leased, lapsed,
                    working>>
    BY <1>4 DEF ContinueThread, callVars
  <2>3. reviewFeedback' \in [Run -> 0..MaxReviews]
    BY <1>1, <2>2
  <2>4. QED
    BY ONLY Inv, <1>2, <1>4, <2>1, <2>2, <2>3, QueueNextInv
<1>5. CASE ContinueThread(x) /\ UNCHANGED <<runVars, overtaken>>
  <2>1. CallMoves
    BY <1>1, <1>2, <1>5 DEF ContinueThread, CallMoves, runVars, callVars
  <2>2. QED
    BY <2>1, CallMovesInv
<1>6. QED
    BY <1>3, <1>4, <1>5 DEF ContinueThread

LEMMA StutterInv ==
    ASSUME Inv, UNCHANGED vars
    PROVE  Inv'
<1>1. thread \in [Run -> ThreadStatus] /\ calling \subseteq AgentCall
    BY DEF Inv, TypeOK
<1>2. CallMoves
    BY <1>1 DEF vars, runVars, callVars, leaseVars, CallMoves
<1>3. QED
    BY <1>2, CallMovesInv

LEMMA NextInv == Inv /\ [Next]_vars => Inv'
<1> SUFFICES ASSUME Inv, [Next]_vars PROVE Inv'
    OBVIOUS
<1>1. CASE \E r \in Run, started \in BOOLEAN : Submit(r, started)
    BY <1>1, SubmitInv
<1>2. CASE \E k \in WorkerKind : ClaimActivation(k)
    BY <1>2, ClaimActivationInv
<1>3. ASSUME NEW c \in Claim, WorkerStep(c)
      PROVE  Inv'
  <2>1. CASE \/ Heartbeat(c) \/ PinSession(c)
             \/ ReportRunning(c) \/ ReportBlocked(c)
             \/ ReportWaitingApproval(c) \/ ReportPolicyViolation(c)
    BY <2>1, WorkerReportInv
  <2>2. CASE \E result \in Result, violates \in BOOLEAN :
                Complete(c, result, violates)
    BY <2>2, CompleteInv
  <2>3. CASE \E r \in Run, persistent, wait, started \in BOOLEAN :
                SubmitAgentCall(c, r, persistent, wait, started)
    BY <2>3, SubmitInv
  <2>4. CASE \E r \in Run, wait \in BOOLEAN : FindThread(c, r, wait)
    BY <2>4, FindInv
  <2>5. QED
    BY <1>3, <2>1, <2>2, <2>3, <2>4 DEF WorkerStep
<1>4. CASE \E c \in Claim : LeaseLapses(c) \/ WorkerStops(c)
    BY <1>4, QuietInv
<1>5. CASE \E x \in calling : CallStep(x)
    BY <1>5, CallStepInv, MarkInv DEF CallStep
<1>6. CASE RecoverStale
    BY <1>6, RecoverInv
<1>7. ASSUME NEW r \in Run,
             \/ AppendReviewFeedback(r)
             \/ \E consumed \in {0, 1} : Continue(r, consumed)
             \/ Retry(r)
             \/ Cancel(r)
             \/ \E cancel \in BOOLEAN : EndThread(r, cancel)
             \/ StopActivation(r)
      PROVE  Inv'
    BY <1>7, QuietInv, ContinueInv, CancelInv, StopInv
<1>8. CASE UNCHANGED vars
    BY <1>8, StutterInv
<1>9. QED
    BY <1>1, <1>2, <1>3, <1>4, <1>5, <1>6, <1>7, <1>8 DEF Next

LEMMA InvAlways == Spec => []Inv
BY InitInv, NextInv, PTL DEF Spec

-----------------------------------------------------------------------------
\* Every row of the control plane has its type: a lease belongs to a claim that
\* was handed out, for a run and an activation that exist, and agent calls are
\* made by executors that are still at work.
THEOREM TypeCorrect == Spec => []TypeOK
<1>1. Inv => TypeOK
    BY DEF Inv
<1>2. QED
    BY <1>1, InvAlways, PTL

\* Whatever workers, operators, timeouts and calling runs do, a run is never
\* left DISPATCHED or RUNNING without a lease, which recovery looks at.
THEOREM NoStrandedRun == Spec => []ActiveRunIsLeased
<1>1. Inv => ActiveRunIsLeased
    BY DEF Inv
<1>2. QED
    BY <1>1, InvAlways, PTL

\* A run that completed, failed or was cancelled has no claim and no cancel
\* request left, so that no late call of a worker can change it.
THEOREM EndReleasesRun == Spec => []ClosedRunReleased
<1>1. Inv => ClosedRunReleased
    BY DEF Inv
<1>2. QED
    BY <1>1, InvAlways, PTL

\* Two workers never hold claims of one run, and a worker never one of another
\* activation than the current, unless the run was continued under its lease.
THEOREM OneWorkerPerRun == Spec => []ExclusiveClaim
<1>1. Inv => ExclusiveClaim
    BY DEF Inv
<1>2. QED
    BY <1>1, InvAlways, PTL
=============================================================================
