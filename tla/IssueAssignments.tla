-------------------------- MODULE IssueAssignments --------------------------
(***************************************************************************)
(* The assignments of an issue: each becomes a work item of the issue's    *)
(* taskflow, and is dispatched, cancelled or reassigned. A request loads   *)
(* the assignment, works on its copy and saves it whole; requests overlap. *)
(***************************************************************************)
EXTENDS Naturals, Sequences

CONSTANTS
    Assignment,  \* assignments of one issue
    Handler,     \* handler threads
    MaxRuns,     \* bound: TaskRuns of one assignment
    MaxRestarts, \* bound: restarts of the server
    NoAssignment \* not an assignment

IssueAssignmentsAssumption ==
    {MaxRuns, MaxRestarts} \subseteq Nat /\ NoAssignment \notin Assignment

VARIABLES
    candidates, \* work item candidates of the taskflow, named by their assignments
    saved,      \* [Assignment -> its record]
    mentions,   \* assignments a saved mention names
    runs,       \* [Assignment -> TaskRuns dispatched for it]
    handler,    \* [Handler -> the request in progress]
    restarts,
    cancelled,  \* history: assignments whose cancellation was acknowledged
    overlapped, \* history: those another request held a copy of meanwhile
    late        \* history: those dispatched afterwards

vars == <<candidates, saved, mentions, runs, handler, restarts, cancelled, overlapped, late>>
history == <<cancelled, overlapped, late>>

Absent == [status |-> "absent", item |-> NoAssignment, run |-> 0]
Free == [at |-> "idle"]
Becomes(h, s) == handler' = [handler EXCEPT ![h] = s]

TypeOK ==
    /\ saved \in [Assignment -> [status : {"absent", "ready", "dispatched", "needs", "cancelled"},
                                 item : Assignment \cup {NoAssignment}, run : 0..MaxRuns]]
    /\ runs \in [Assignment -> 0..MaxRuns]
    /\ \A a \in Assignment :
         /\ saved[a].status # "absent" => saved[a].item # NoAssignment
         /\ saved[a].run <= runs[a]
         /\ saved[a].status = "dispatched" => runs[a] > 0
    /\ mentions \subseteq {a \in Assignment : saved[a].status # "absent"}

Init ==
    /\ candidates = <<>>
    /\ saved = [a \in Assignment |-> Absent]
    /\ mentions = {}
    /\ runs = [a \in Assignment |-> 0]
    /\ handler = [h \in Handler |-> Free]
    /\ restarts = 0
    /\ cancelled = {} /\ overlapped = {} /\ late = {}

-----------------------------------------------------------------------------
(* create_assignment, by itself or for a mention *)

Used == {candidates[i] : i \in DOMAIN candidates}

\* The discovery turn adds the candidate to those the taskflow has.
Create(h, a, mention) ==
    /\ handler[h] = Free /\ a \notin Used
    /\ candidates' = Append(candidates, a)
    /\ Becomes(h, [at |-> "create", assignment |-> a, mention |-> mention])
    /\ UNCHANGED <<saved, mentions, runs, restarts, history>>

\* The brief is confirmed and compiled; the work item is the plan's first.
CreateSave(h) ==
    LET s == handler[h]
    IN /\ s.at = "create"
       /\ saved' = [saved EXCEPT ![s.assignment] =
                      [status |-> "ready", item |-> Head(candidates), run |-> 0]]
       /\ Becomes(h, IF s.mention THEN [s EXCEPT !.at = "mention"] ELSE Free)
       /\ UNCHANGED <<candidates, mentions, runs, restarts, history>>

\* create_mention keeps the mention last.
MentionSave(h) ==
    /\ handler[h].at = "mention"
    /\ mentions' = mentions \cup {handler[h].assignment}
    /\ Becomes(h, Free)
    /\ UNCHANGED <<candidates, saved, runs, restarts, history>>

-----------------------------------------------------------------------------
(* dispatch_assignment, cancel_assignment, reassign_assignment *)

Load(h, op, a) ==
    /\ handler[h] = Free /\ saved[a].status # "absent"
    /\ Becomes(h, [at |-> op, assignment |-> a, copy |-> saved[a]])
    /\ UNCHANGED <<candidates, saved, mentions, runs, restarts, history>>

\* Mutant: a cancelled assignment is dispatched too.
DispatchLoadAny(h, a) == Load(h, "dispatch", a)

DispatchLoad(h, a) == saved[a].status # "cancelled" /\ Load(h, "dispatch", a)
CancelLoad(h, a) == Load(h, "cancel", a)
ReassignLoad(h, a) == saved[a].status \notin {"dispatched", "cancelled"} /\ Load(h, "reassign", a)

\* The taskflow dispatches the work item, or finds nobody for it.
DispatchRun(h, outcome) ==
    LET s == handler[h] a == s.assignment
    IN /\ s.at = "dispatch" /\ runs[a] < MaxRuns
       /\ runs' = [runs EXCEPT ![a] = @ + 1]
       /\ late' = IF a \in cancelled THEN late \cup {a} ELSE late
       /\ Becomes(h, [s EXCEPT !.at = "dispatched",
                      !.copy = [@ EXCEPT !.status = outcome, !.run = runs[a] + 1]])
       /\ UNCHANGED <<candidates, saved, mentions, restarts, cancelled, overlapped>>

\* The decision became stale, or the dispatch failed: nothing is saved.
DispatchRefused(h) ==
    /\ handler[h].at = "dispatch"
    /\ Becomes(h, Free)
    /\ UNCHANGED <<candidates, saved, mentions, runs, restarts, history>>

\* The copy replaces the record.
Save(h, status) ==
    LET s == handler[h]
    IN /\ saved' = [saved EXCEPT ![s.assignment] = [s.copy EXCEPT !.status = status]]
       /\ Becomes(h, Free)
       /\ UNCHANGED <<candidates, mentions, runs, restarts>>

DispatchSave(h) ==
    /\ handler[h].at = "dispatched"
    /\ Save(h, handler[h].copy.status) /\ UNCHANGED history

\* Requests that hold a copy of the assignment.
Holders(a) ==
    {h \in Handler : /\ handler[h].at \in {"dispatch", "dispatched", "cancel", "reassign"}
                     /\ handler[h].assignment = a}

CancelSave(h) ==
    LET a == handler[h].assignment
    IN /\ handler[h].at = "cancel"
       /\ Save(h, "cancelled")
       /\ cancelled' = cancelled \cup {a}
       /\ overlapped' = IF Holders(a) = {h} THEN overlapped ELSE overlapped \cup {a}
       /\ UNCHANGED late

ReassignSave(h) ==
    /\ handler[h].at = "reassign"
    /\ Save(h, "ready") /\ UNCHANGED history

Restart ==
    /\ restarts < MaxRestarts
    /\ restarts' = restarts + 1
    /\ handler' = [h \in Handler |-> Free]
    /\ UNCHANGED <<candidates, saved, mentions, runs, history>>

Next ==
    \/ \E h \in Handler :
         \/ \E a \in Assignment :
              \/ \E mention \in BOOLEAN : Create(h, a, mention)
              \/ DispatchLoad(h, a) \/ CancelLoad(h, a) \/ ReassignLoad(h, a)
         \/ CreateSave(h) \/ MentionSave(h)
         \/ \E outcome \in {"dispatched", "needs"} : DispatchRun(h, outcome)
         \/ DispatchRefused(h) \/ DispatchSave(h) \/ CancelSave(h) \/ ReassignSave(h)
    \/ Restart

Spec == Init /\ [][Next]_vars

-----------------------------------------------------------------------------
(* Properties *)

\* A cancelled assignment stays cancelled and is not dispatched any more, unless
\* another request held a copy of it while it was cancelled. (dispatch_assignment,
\* reassign_assignment, update_assignment)
CancelHolds ==
    \A a \in cancelled :
        \/ saved[a].status = "cancelled" /\ a \notin late
        \/ a \in overlapped

-----------------------------------------------------------------------------
(* What a document, a comment or a test says and the code does not keep:   *)
(* README.md tells what happens instead.                                   *)

\* A cancelled assignment is not dispatched. (dispatch_assignment: "cancelled
\* assignments cannot be dispatched")
CancelIsFinal == late = {}

\* The work item of an assignment is the one made for it. (create_assignment)
WorkItemIsOwn ==
    \A a \in Assignment : saved[a].status # "absent" => saved[a].item = a
=============================================================================
