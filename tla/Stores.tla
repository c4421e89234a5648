------------------------------- MODULE Stores -------------------------------
(***************************************************************************)
(* The parts that keep rows or documents which concurrent requests read,   *)
(* change and write back, side by side: each behaviour is one of a single  *)
(* part, that Init chooses, and leaves the others as they begin.  The      *)
(* taskflows are two parts: their requests overlap, or they come one after *)
(* another.                                                                *)
(***************************************************************************)
EXTENDS Naturals, Sequences, FiniteSets

CONSTANTS
    Txn,                 \* transactions of the AgentRun store
    Handler,             \* handlers of concurrent requests
    Taskflow, Assignment, NoAssignment,
    MaxSeq, MaxClaims, MaxCalls, MaxLapses, GiveUp,
    MaxDrafts, MaxDecisions, MaxMarks, MaxRuns, MaxRestarts

VARIABLES
    part,                                        \* the one that moves
    run, activation, claim, cancel, pending, calls, txn, waitsFor, inputs, lapses,
    restarts,
    store, taskRuns, cache, agentRuns, handler, count, agreed, confirmed,
    unaccounted,
    candidates, saved, mentions, runs, assigner, losses, cancelled, overlapped,
    late

Rows == INSTANCE PostgresAgentRunStore
Taskflows == INSTANCE TaskflowDispatch
Assignments == INSTANCE IssueAssignments WITH handler <- assigner, restarts <- losses

ASSUME StoresAssumption ==
    /\ Rows!BoundAssumption /\ Taskflows!TaskflowDispatchAssumption
    /\ Assignments!IssueAssignmentsAssumption

runVars == <<run, activation, claim, cancel, pending, calls, txn, waitsFor, inputs,
             lapses, restarts>>
taskflowVars == <<store, taskRuns, cache, agentRuns, handler, count, agreed,
                  confirmed, unaccounted>>
assignmentVars == <<candidates, saved, mentions, runs, assigner, losses, cancelled,
                    overlapped, late>>
vars == <<part, runVars, taskflowVars, assignmentVars>>

Init ==
    /\ part \in {"run", "requests", "one by one", "assignments"}
    /\ Rows!Init /\ Taskflows!Init /\ Assignments!Init

\* A step of one part, and of none of the others.
RunStep == Rows!Next /\ UNCHANGED <<part, taskflowVars, assignmentVars>>
TaskflowStep == Taskflows!Next /\ UNCHANGED <<part, runVars, assignmentVars>>
AssignmentStep == Assignments!Next /\ UNCHANGED <<part, runVars, taskflowVars>>

\* At most one handler is at work on a taskflow.
Busy == {h \in Handler : handler[h].at # "idle"}
OneByOne == \A g, h \in Busy : g = h

Next ==
    \/ part = "run" /\ RunStep
    \/ part = "requests" /\ TaskflowStep
    \/ part = "one by one" /\ TaskflowStep /\ OneByOne'
    \/ part = "assignments" /\ AssignmentStep

Spec == Init /\ [][Next]_vars

-----------------------------------------------------------------------------
(* Properties.                                                             *)

TypeOK == Rows!TypeOK /\ Taskflows!TypeOK /\ Assignments!TypeOK

\* A run that has ended holds no claim, whichever of the transactions that end
\* runs overlapped with a claim, a continuation or a recovery.
ClosedRunReleased == Rows!ClosedRunReleased

\* A run in execution has a claim, whose lease can lapse so that the recovery
\* finds it.  Only three overlaps leave one without: an event whose claim has
\* been released since it was looked up, a recovery that has read a status which
\* an event then changed, and a heartbeat that renews a claim already released.
LeaseLostOnlyToOverlap == Rows!LeaseLostOnlyToOverlap

\* The transactions of a called run's end and of its caller's completion look
\* for each other's work, and one of them sees it: a caller whose activation
\* has ended is parked with an unconsumed report only by a late mark.
ReportMissedOnlyByLateMark == Rows!ReportMissedOnlyByLateMark

\* What a taskflow dispatches was confirmed twice, however requests interleave:
\* the decision by a user, and by a user the draft its plan was compiled from.
\* With requests one after another, nothing is dispatched after an override or
\* a memory patch before the taskflow is compiled again, also when the server
\* restarted in between.
OnlyConfirmedRuns ==
    /\ Taskflows!OnlyConfirmedRuns
    /\ part = "one by one" => Taskflows!RecompiledFirst

\* A cancelled assignment stays cancelled and is not dispatched any more, unless
\* another request held a copy of it while it was cancelled.
CancelHolds == Assignments!CancelHolds
=============================================================================
