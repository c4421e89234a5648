------------------------ MODULE PostgresAgentRunStore ------------------------
(***************************************************************************)
(* The AgentRun control plane over Postgres (services/agent_runtime/       *)
(* postgres_store.py).  The in-memory control plane runs every method      *)
(* under one lock; here each method is a READ COMMITTED transaction, and   *)
(* what methods read before their first write may be stale when they       *)
(* write.  The module follows the rows of ONE AgentRun: the run, its       *)
(* activations, claims, cancel request and agent-call feedback.            *)
(*                                                                         *)
(* A transaction is up to three steps: its unlocked reads; a lock on a     *)
(* claim row, with the reads under it; and its writes with the commit.     *)
(* Everything from the first write to the run's row on is one step, since  *)
(* that row stays locked until the commit.  Claiming takes a global lock   *)
(* and locks the rows it reads, so it is one step.                         *)
(*                                                                         *)
(* Left out: sandbox runs, environment policy, sessions, artifacts, steers *)
(* and events.  A called run is only the report it makes.                  *)
(***************************************************************************)
EXTENDS Naturals, FiniteSets

CONSTANTS
    Txn,          \* database transactions that may be under way
    MaxSeq,       \* bound: activations
    MaxClaims,    \* bound: claims
    MaxCalls,     \* bound: called runs that report to this run
    MaxRestarts,  \* bound: restarts of the server
    MaxLapses,    \* bound: leases that lapse
    GiveUp        \* whether a worker may give up a request and go on

BoundAssumption ==
    /\ MaxSeq \in Nat \ {0} /\ MaxClaims \in Nat /\ MaxCalls \in Nat
    /\ MaxRestarts \in Nat /\ MaxLapses \in Nat /\ GiveUp \in BOOLEAN

Claim == 1..MaxClaims
Seq == 1..MaxSeq
NoReason == "none"

VARIABLES
    run,        \* labrastro_agent_runs: status, waiting_reason and the
                \* sequence number of current_activation_id
    activation, \* labrastro_agent_run_activations.status by sequence number
    claim,      \* labrastro_agent_run_activation_claims, in claiming order
    cancel,     \* unresolved cancel request: 0, or the activation that was
                \* the current one when it was made
    pending,    \* unconsumed agent-call feedback that requires activation
    calls,      \* called runs that have not reported
    txn,        \* what each transaction is doing, and what it has read
    waitsFor,   \* the transaction a worker waits for before it goes on
    inputs,     \* continuations that were accepted
    lapses, restarts    \* counters for the bounds

vars == <<run, activation, claim, cancel, pending, calls, txn, waitsFor,
          inputs, lapses, restarts>>

Terminal == {"completed", "failed", "cancelled"}
Active == {"dispatched", "running"}
RunStatus == Terminal \cup Active \cup {"queued", "waiting", "blocked"}
Result == {"completed", "failed", "cancelled", "blocked"}
Ended == Result \cup {"waiting"}
Idle == [op |-> "idle"]

TypeOK ==
    /\ run \in [status : RunStatus, seq : Seq,
                reason : {NoReason, "agent_call", "user_approval"}]
    /\ activation \in [Seq -> Ended \cup Active \cup {"absent", "queued"}]
    /\ \E n \in 0..MaxClaims :
          claim \in [1..n -> [seq : Seq, active : BOOLEAN, lapsed : BOOLEAN,
                              working : BOOLEAN]]
    /\ cancel \in 0..MaxSeq /\ pending \in 0..MaxCalls
    /\ calls \in 0..MaxCalls
    /\ DOMAIN txn = Txn
    /\ waitsFor \in [Claim -> Txn \cup {"none"}]
    /\ inputs \in Nat
    /\ lapses \in 0..MaxLapses /\ restarts \in 0..MaxRestarts

Init ==
    /\ run = [status |-> "queued", reason |-> NoReason, seq |-> 1]
    /\ activation = [s \in Seq |-> IF s = 1 THEN "queued" ELSE "absent"]
    /\ claim = << >>
    /\ cancel = 0 /\ pending = 0 /\ calls = 0
    /\ txn = [t \in Txn |-> Idle]
    /\ waitsFor = [c \in Claim |-> "none"]
    /\ inputs = 1
    /\ lapses = 0 /\ restarts = 0

Claims == DOMAIN claim
ActiveClaims == {c \in Claims : claim[c].active}

\* Claim rows that a transaction under way has locked.
LockedBy(t) == IF "locked" \in DOMAIN txn[t] THEN txn[t].locked ELSE {}
Locked(t) == UNION {LockedBy(u) : u \in Txn \ {t}}

\* MAX(seq) + 1 over the activations the transaction can see.
NextSeq == Cardinality({s \in Seq : activation[s] # "absent"}) + 1

\* Mutant: only the newest claim is released.
ReleasedNewest ==
    [c \in Claims |-> [claim[c] EXCEPT
        !.active = claim[c].active /\ c # Cardinality(Claims)]]

\* _release_claims: every claim of the run that is still active.
ReleasedClaims ==
    [c \in Claims |-> [claim[c] EXCEPT !.active = FALSE]]

Begin(t, record) == txn[t] = Idle /\ txn' = [txn EXCEPT ![t] = record]
Commit(t) == txn' = [txn EXCEPT ![t] = Idle]

\* A worker goes on when the transaction of its request has ended.
Answered(t) == waitsFor' = [c \in Claim |->
                  IF waitsFor[c] = t THEN "none" ELSE waitsFor[c]]

-----------------------------------------------------------------------------
(* Wake-up of a caller that waits for the report of a run it called.       *)

\* Mutant: a caller is queued before its report is there.
ResumeAtOnce(r, act, n) ==
    /\ r.status = "waiting" /\ r.reason = "agent_call"
    /\ act[r.seq] \in Ended

CanResume(r, act, n) ==
    /\ n > 0 /\ r.status = "waiting" /\ r.reason = "agent_call"
    /\ act[r.seq] \in Ended

\* Given the rows as this transaction has written them, a parked caller is
\* queued on its next activation, which consumes one report.
WriteAndResume(r, act, n) ==
    IF CanResume(r, act, n)
    THEN /\ run' = [status |-> "queued", reason |-> NoReason, seq |-> NextSeq]
         /\ activation' = [act EXCEPT ![NextSeq] = "queued"]
         /\ pending' = n - 1
    ELSE run' = r /\ activation' = act /\ pending' = n

\* A called run ends: the report is added, the event that tells of it locks
\* the caller's row, and only then it is asked whether the caller is parked.
Report ==
    /\ calls > 0 /\ (CanResume(run, activation, 1) => NextSeq \in Seq)
    /\ calls' = calls - 1
    /\ WriteAndResume(run, activation, pending + 1)
    /\ UNCHANGED <<claim, cancel, txn, waitsFor, inputs, lapses, restarts>>

-----------------------------------------------------------------------------
(* Claims and leases.                                                      *)

StaleClaims == {c \in ActiveClaims : claim[c].lapsed}
\* Mutant: only runs that have not started are recovered.
NotStarted == {"dispatched", "waiting"}

Recoverable == Active \cup {"waiting"}

\* The rows after the recovery of the claims in C, whose run had the given
\* status: the one that comes first, in no order, has its activation queued, and
\* the run with it; for the others the run is already queued.
RecoveredRun(C, seen) ==
    IF C # {} /\ seen \in Recoverable
    THEN [run EXCEPT !.status = "queued"] ELSE run
RecoveredActivations(C, seen) ==
    IF C = {} \/ seen \notin Recoverable THEN {activation}
    ELSE {[activation EXCEPT ![claim[c].seq] = "queued"] : c \in C}
ExpiredClaims(C) ==
    [c \in Claims |-> IF c \in C THEN [claim[c] EXCEPT !.active = FALSE]
                      ELSE claim[c]]

LeaseLapses(c) ==
    /\ claim[c].active /\ ~claim[c].lapsed /\ lapses < MaxLapses
    /\ claim' = [claim EXCEPT ![c].lapsed = TRUE]
    /\ lapses' = lapses + 1
    /\ UNCHANGED <<run, activation, cancel, pending, calls, txn, waitsFor,
                   inputs, restarts>>

\* recover_stale_agent_runs locks the lapsed claims, reads the run ...
RecoverLock(t) ==
    /\ StaleClaims # {} /\ StaleClaims \cap Locked(t) = {}
    /\ Begin(t, [op |-> "recover", locked |-> StaleClaims,
                 seen |-> run.status])
    /\ UNCHANGED <<run, activation, claim, cancel, pending, calls, waitsFor,
                   inputs, lapses, restarts>>

\* ... and writes what it makes of the status it has read.
RecoverWrite(t) ==
    /\ txn[t].op = "recover"
    /\ LET C == txn[t].locked IN
       /\ run' = RecoveredRun(C, txn[t].seen)
       /\ activation' \in RecoveredActivations(C, txn[t].seen)
       /\ claim' = ExpiredClaims(C)
    /\ Commit(t)
    /\ UNCHANGED <<cancel, pending, calls, waitsFor, inputs, lapses,
                   restarts>>

\* A worker claims the run; lapsed claims are recovered first.
ClaimActivation ==
    LET recovered == RecoveredRun(StaleClaims, run.status)
        c == Cardinality(Claims) + 1
    IN /\ StaleClaims \cap UNION {LockedBy(t) : t \in Txn} = {}
       /\ recovered.status = "queued" /\ c \in Claim
       /\ run' = [recovered EXCEPT !.status = "dispatched"]
       /\ \E act \in RecoveredActivations(StaleClaims, run.status) :
              activation' = [act EXCEPT ![run.seq] = "dispatched"]
       /\ claim' = [d \in Claims \cup {c} |->
             IF d = c THEN [seq |-> run.seq, active |-> TRUE,
                            lapsed |-> FALSE, working |-> TRUE]
             ELSE ExpiredClaims(StaleClaims)[d]]
       /\ UNCHANGED <<cancel, pending, calls, txn, waitsFor, inputs, lapses,
                      restarts>>

\* A heartbeat finds its claim active ...
HeartbeatRead(t, c) ==
    /\ claim[c].working /\ claim[c].active
    /\ Begin(t, [op |-> "heartbeat", claim |-> c])
    /\ UNCHANGED <<run, activation, claim, cancel, pending, calls, waitsFor,
                   inputs, lapses, restarts>>

\* ... renews it, whatever has become of it, and reads the run ...
HeartbeatLock(t) ==
    /\ txn[t].op = "heartbeat" /\ "locked" \notin DOMAIN txn[t]
    /\ LET c == txn[t].claim IN
       /\ c \notin Locked(t)
       /\ txn' = [txn EXCEPT ![t] = [op |-> "heartbeat", claim |-> c,
              locked |-> {c}, seen |-> run.status, seq |-> run.seq]]
    /\ UNCHANGED <<run, activation, claim, cancel, pending, calls, waitsFor,
                   inputs, lapses, restarts>>

\* ... and marks run and activation as running.  A worker that hears of a
\* cancel request stops.
HeartbeatWrite(t) ==
    /\ txn[t].op = "heartbeat" /\ "locked" \in DOMAIN txn[t]
    /\ run' = IF txn[t].seen = "dispatched"
              THEN [run EXCEPT !.status = "running"] ELSE run
    /\ activation' = [activation EXCEPT ![txn[t].seq] = "running"]
    /\ claim' = [claim EXCEPT ![txn[t].claim].lapsed = FALSE]
    /\ Commit(t)
    /\ UNCHANGED <<cancel, pending, calls, waitsFor, inputs, lapses,
                   restarts>>

-----------------------------------------------------------------------------
(* What a worker reports.                                                  *)

Free(c) == claim[c].working /\ waitsFor[c] = "none"

\* An event of the executor finds the claim active ...
EventRead(t, c, status) ==
    /\ Free(c) /\ claim[c].active
    /\ Begin(t, [op |-> "event", status |-> status])
    /\ waitsFor' = [waitsFor EXCEPT ![c] = t]
    /\ UNCHANGED <<run, activation, claim, cancel, pending, calls, inputs,
                   lapses, restarts>>

\* ... and sets the run's status.
EventWrite(t) ==
    /\ txn[t].op = "event"
    /\ run' = [run EXCEPT !.status = txn[t].status,
                          !.reason = IF txn[t].status = "waiting"
                                     THEN "user_approval" ELSE NoReason]
    /\ Commit(t) /\ Answered(t)
    /\ UNCHANGED <<activation, claim, cancel, pending, calls, inputs, lapses,
                   restarts>>

\* The agent tool calls another run, and finds that its own has not ended ...
CallRead(t, c) ==
    /\ Free(c) /\ calls + pending < MaxCalls
    /\ calls' = calls + 1
    /\ IF run.status \in Terminal
       THEN UNCHANGED <<txn, waitsFor>>
       ELSE /\ Begin(t, [op |-> "call"])
            /\ waitsFor' = [waitsFor EXCEPT ![c] = t]
    /\ UNCHANGED <<run, activation, claim, cancel, pending, inputs, lapses,
                   restarts>>

\* ... so it is marked as waiting.
CallWrite(t) ==
    /\ txn[t].op = "call"
    /\ run' = [run EXCEPT !.status = "waiting", !.reason = "agent_call"]
    /\ Commit(t) /\ Answered(t)
    /\ UNCHANGED <<activation, claim, cancel, pending, calls, inputs, lapses,
                   restarts>>

\* A worker whose request is not answered in time goes on without it.
WorkerGivesUp(c) ==
    /\ GiveUp /\ waitsFor[c] # "none"
    /\ waitsFor' = [waitsFor EXCEPT ![c] = "none"]
    /\ UNCHANGED <<run, activation, claim, cancel, pending, calls, txn,
                   inputs, lapses, restarts>>

\* A completion locks its claim, and needs its activation to be the current
\* one; it then decides by the status and the reports it has read ...
CompleteLock(t, c, result) ==
    /\ Free(c) /\ claim[c].active /\ c \notin Locked(t)
    /\ claim[c].seq = run.seq
    /\ Begin(t, [op |-> "complete", locked |-> {c}, claim |-> c,
                 result |-> result, seen |-> run, due |-> pending > 0])
    /\ UNCHANGED <<run, activation, claim, cancel, pending, calls, waitsFor,
                   inputs, lapses, restarts>>

CompletedRun(t) ==
    LET parked == txn[t].seen.status = "waiting" \/ txn[t].due
        reason == IF txn[t].seen.reason # NoReason THEN txn[t].seen.reason
                  ELSE "agent_call"
    IN IF txn[t].result = "completed" /\ parked
       THEN [run EXCEPT !.status = "waiting", !.reason = reason]
       ELSE [run EXCEPT !.status = txn[t].result, !.reason = NoReason]

\* Mutant: the reports that were read at the start are the ones looked at.
CompleteByFirstRead(t) ==
    /\ txn[t].op = "complete"
    /\ ActiveClaims \cap Locked(t) = {}
    /\ LET c == txn[t].claim
           act == [activation EXCEPT ![claim[c].seq] = txn[t].result]
       IN /\ txn[t].due => NextSeq \in Seq
          /\ IF txn[t].due
             THEN WriteAndResume(CompletedRun(t), act, pending)
             ELSE /\ run' = CompletedRun(t) /\ activation' = act
                  /\ UNCHANGED pending
          /\ claim' = [ReleasedClaims EXCEPT ![c].working = FALSE]
    /\ cancel' = 0
    /\ Commit(t)
    /\ UNCHANGED <<calls, waitsFor, inputs, lapses, restarts>>

\* ... writes the outcome, releases every claim, resolves the cancel request
\* and looks for reports again.
CompleteWrite(t) ==
    /\ txn[t].op = "complete"
    /\ ActiveClaims \cap Locked(t) = {}
    /\ LET c == txn[t].claim
           act == [activation EXCEPT ![claim[c].seq] = txn[t].result]
       IN /\ CanResume(CompletedRun(t), act, pending) => NextSeq \in Seq
          /\ WriteAndResume(CompletedRun(t), act, pending)
          /\ claim' = [ReleasedClaims EXCEPT ![c].working = FALSE]
    /\ cancel' = 0
    /\ Commit(t)
    /\ UNCHANGED <<calls, waitsFor, inputs, lapses, restarts>>

-----------------------------------------------------------------------------
(* What users and the server ask for.                                      *)

\* continue_agent_run finds the run continuable (as a retry, also when it has
\* failed or was cancelled) and counts activations ...
ContinueRead(t) ==
    /\ run.status \in Terminal \cup {"waiting", "blocked"}
    /\ NextSeq \in Seq
    /\ Begin(t, [op |-> "continue", next |-> NextSeq])
    /\ UNCHANGED <<run, activation, claim, cancel, pending, calls, waitsFor,
                   inputs, lapses, restarts>>

\* ... and queues the run on an activation of that number, which is inserted
\* or overwritten.
ContinueWrite(t) ==
    /\ txn[t].op = "continue"
    /\ run' = [status |-> "queued", reason |-> NoReason,
               seq |-> txn[t].next]
    /\ activation' = [activation EXCEPT ![txn[t].next] = "queued"]
    /\ inputs' = inputs + 1
    /\ Commit(t)
    /\ UNCHANGED <<claim, cancel, pending, calls, waitsFor, lapses, restarts>>

\* cancel_agent_run reads the run in a transaction of its own ...
CancelRead(t) ==
    /\ run.status \notin Terminal
    /\ Begin(t, [op |-> "cancel", seen |-> run.status])
    /\ UNCHANGED <<run, activation, claim, cancel, pending, calls, waitsFor,
                   inputs, lapses, restarts>>

\* ... and either records a request or ends the run.
CancelWrite(t) ==
    /\ txn[t].op = "cancel"
    /\ IF txn[t].seen \in Recoverable
       THEN cancel' = run.seq /\ UNCHANGED <<run, claim>>
       ELSE /\ ActiveClaims \cap Locked(t) = {}
            /\ run' = [run EXCEPT !.status = "cancelled"]
            /\ claim' = ReleasedClaims
            /\ UNCHANGED cancel
    /\ Commit(t)
    /\ UNCHANGED <<activation, pending, calls, waitsFor, inputs, lapses,
                   restarts>>

\* stop_agent_run_activation reads the run and its current activation ...
StopRead(t) ==
    /\ run.status \notin Terminal \cup {"blocked"}
    /\ Begin(t, [op |-> "stop"])
    /\ UNCHANGED <<run, activation, claim, cancel, pending, calls, waitsFor,
                   inputs, lapses, restarts>>

\* ... and completes the run with its activation cancelled.
StopWrite(t) ==
    /\ txn[t].op = "stop" /\ ActiveClaims \cap Locked(t) = {}
    /\ run' = [run EXCEPT !.status = "completed", !.reason = NoReason]
    /\ activation' = [activation EXCEPT ![run.seq] = "cancelled"]
    /\ claim' = ReleasedClaims
    /\ cancel' = 0
    /\ Commit(t)
    /\ UNCHANGED <<pending, calls, waitsFor, inputs, lapses, restarts>>

\* Locks are taken in different orders (claim then run, or run then claim):
\* Postgres ends a deadlock by aborting one of the transactions.
ReleasesClaims(t) ==
    \/ txn[t].op \in {"stop", "complete"}
    \/ txn[t].op = "cancel" /\ txn[t].seen \notin Recoverable
InDeadlock(t) ==
    \/ ReleasesClaims(t) /\ ActiveClaims \cap Locked(t) # {}
    \/ \E u \in Txn \ {t} :
          ReleasesClaims(u) /\ ActiveClaims \cap LockedBy(t) # {}
DeadlockAborts(t) ==
    /\ InDeadlock(t)
    /\ Commit(t) /\ Answered(t)
    /\ UNCHANGED <<run, activation, claim, cancel, pending, calls, inputs,
                   lapses, restarts>>

\* A worker stops: it is told to, its claim is gone, or it crashes.
WorkerStops(c) ==
    /\ claim[c].working
    /\ claim' = [claim EXCEPT ![c].working = FALSE]
    /\ UNCHANGED <<run, activation, cancel, pending, calls, txn, waitsFor,
                   inputs, lapses, restarts>>

\* The server restarts: what was under way is rolled back, and runs that were
\* in flight fail, this one and, without a report, those it has called.
HostRestart ==
    /\ restarts < MaxRestarts
    /\ txn' = [t \in Txn |-> Idle]
    /\ waitsFor' = [c \in Claim |-> "none"]
    /\ IF run.status \in Active
       THEN run' = [run EXCEPT !.status = "failed"] /\ claim' = ReleasedClaims
       ELSE UNCHANGED <<run, claim>>
    /\ calls' \in 0..calls
    /\ restarts' = restarts + 1
    /\ UNCHANGED <<activation, cancel, pending, inputs, lapses>>

-----------------------------------------------------------------------------
WorkerStep(t, c) ==
    \/ HeartbeatRead(t, c) \/ CallRead(t, c)
    \/ \E s \in {"running", "waiting", "blocked"} : EventRead(t, c, s)
    \/ \E r \in Result : CompleteLock(t, c, r)

Write(t) ==
    \/ RecoverWrite(t) \/ HeartbeatLock(t) \/ HeartbeatWrite(t)
    \/ EventWrite(t) \/ CallWrite(t) \/ CompleteWrite(t) \/ ContinueWrite(t)
    \/ CancelWrite(t) \/ StopWrite(t) \/ DeadlockAborts(t)

Next ==
    \/ ClaimActivation \/ Report \/ HostRestart
    \/ \E c \in Claims : \/ LeaseLapses(c) \/ WorkerStops(c)
                         \/ WorkerGivesUp(c)
                         \/ \E t \in Txn : WorkerStep(t, c)
    \/ \E t \in Txn : \/ RecoverLock(t) \/ ContinueRead(t) \/ CancelRead(t)
                      \/ StopRead(t) \/ Write(t)

Spec == Init /\ [][Next]_vars

-----------------------------------------------------------------------------
(* Properties.                                                             *)

\* A run that has ended holds no claim, whichever of the transactions that
\* end runs overlapped with a claim, a continuation or a recovery.
ClosedRunReleased == run.status \in Terminal => ActiveClaims = {}

Unleased == run.status \in Active /\ ActiveClaims = {}

\* A run in execution has a claim, whose lease can lapse so that recovery finds
\* it.  Only three overlaps leave one without: an event whose claim has been
\* released since it was looked up, a recovery that has read a status that an
\* event then changed, and a heartbeat that renews a claim already released.
LeaseLostOnlyToOverlap ==
    [][(Unleased' /\ ~Unleased) =>
          \E t \in Txn :
             /\ txn'[t] = Idle
             /\ \/ txn[t].op = "event"
                \/ txn[t].op = "recover" /\ txn[t].seen # run.status
                \/ txn[t].op = "heartbeat" /\ ~claim[txn[t].claim].active
      ]_vars

MissedReport == /\ run.status = "waiting" /\ run.reason = "agent_call"
                /\ activation[run.seq] \in Ended /\ pending > 0

\* The transactions of a called run's end and of its caller's completion look
\* for each other's work, and one of them sees it: a caller whose activation
\* has ended is parked with an unconsumed report only by a late mark.
ReportMissedOnlyByLateMark ==
    [][(MissedReport' /\ ~MissedReport) =>
          \E t \in Txn : txn[t].op = "call" /\ txn'[t] = Idle]_vars

-----------------------------------------------------------------------------
(* What a document, a comment or a test says and the code does not keep:   *)
(* README.md tells what happens instead.                                   *)

\* Every continuation that was accepted has an activation of its own.
ContinuationGetsActivation == inputs < NextSeq

\* A caller that waits for a report has it delivered once its own activation
\* is over and nobody works on it.
WaitingCallerIsAnswered ==
    (/\ run.status = "waiting" /\ run.reason = "agent_call"
     /\ ActiveClaims = {} /\ \A t \in Txn : txn[t] = Idle) => pending = 0

\* A caller that waits for a report is still going to get one.
WaitingCallerHasCall ==
    (run.status = "waiting" /\ run.reason = "agent_call")
       => calls + pending > 0

\* A cancel request that a heartbeat hears of was made for its activation.
CancelHitsItsActivation ==
    (run.status \in Active /\ cancel # 0) => cancel = run.seq
=============================================================================
