---------------------------- MODULE StoresProofs ----------------------------
(***************************************************************************)
(* Machine-checked proofs about the parts that keep rows and documents,    *)
(* for every number of transactions, handlers, taskflows and assignments   *)
(* and every value of the bounds.  Each part has an invariant of its own;  *)
(* a step of one part leaves the variables of the others unchanged.        *)
(***************************************************************************)
EXTENDS Stores, FiniteSetTheorems, TLAPS

-----------------------------------------------------------------------------
(* The inductive invariants.                                               *)

\* A stored record of assignment a, or a request's copy of one.
AssignmentRecord ==
    [status : {"absent", "ready", "dispatched", "needs", "cancelled"},
     item : Assignment \cup {NoAssignment}, run : 0..MaxRuns]

RecordOf(a, s) ==
    /\ s \in AssignmentRecord
    /\ s.status # "absent" => s.item # NoAssignment
    /\ s.run <= runs[a]
    /\ s.status = "dispatched" => runs[a] > 0

Creating == {"create", "mention"}
Holding == {"dispatch", "dispatched", "cancel", "reassign"}

AssignerRequest ==
    {Assignments!Free}
    \cup [at : Creating, assignment : Assignment, mention : BOOLEAN]
    \cup [at : Holding, assignment : Assignment, copy : AssignmentRecord]

\* What the handler's request relies on: the candidate it has added and nobody
\* else adds, the record it has written, or the copy of a record there is.
AssignerRelies(h) ==
    LET s == assigner[h] IN
    /\ s.at = "create" => /\ s.assignment \in Assignments!Used
                          /\ saved[s.assignment].status = "absent"
    /\ s.at = "mention" => saved[s.assignment].status # "absent"
    /\ s.at \in Holding => /\ RecordOf(s.assignment, s.copy)
                           /\ s.copy.status # "absent"
                           /\ saved[s.assignment].status # "absent"

AssignmentTypes ==
    /\ candidates \in Seq(Assignment)
    /\ runs \in [Assignment -> 0..MaxRuns]
    /\ saved \in [Assignment -> AssignmentRecord]
    /\ assigner \in [Handler -> AssignerRequest]
    /\ mentions \subseteq Assignment
    /\ late \subseteq cancelled /\ cancelled \subseteq Assignment

\* An assignment whose cancellation nobody overlapped is in no request's hands
\* that could undo it.
CancelIsSafe(a) ==
    /\ saved[a].status = "cancelled" /\ a \notin late
    /\ \A h \in Handler :
          assigner[h].at \in Holding \ {"cancel"} => assigner[h].assignment # a

AssignmentInv ==
    /\ AssignmentTypes
    /\ \A a \in Assignment : RecordOf(a, saved[a])
    /\ \A a \in Assignment : saved[a].status # "absent" => a \in Assignments!Used
    /\ \A a \in mentions : saved[a].status # "absent"
    /\ \A h \in Handler : AssignerRelies(h)
    /\ \A g, h \in Handler :
          assigner[g].at = "create" /\ assigner[h].at = "create" /\ g # h
             => assigner[g].assignment # assigner[h].assignment
    /\ \A a \in cancelled \ overlapped : CancelIsSafe(a)

\* A snapshot of a taskflow, saved or in a request's hands, is truthful: of n drafts
\* it has the newest at most, and the decisions and drafts it shows as confirmed are
\* among those that users confirmed.
Truthful(s, n, decisions, drafts) ==
    /\ s \in Taskflows!Snapshot
    /\ s.confirmed <= s.current /\ s.current <= n
    /\ \A d \in Taskflows!Decision : s.decisions[d].status = "confirmed" => d \in decisions
    /\ s.plan # 0 => s.plan \in drafts
    /\ s.brief = "confirmed" => s.content \in drafts

Honest(s) == Truthful(s, count.drafts, agreed, confirmed)

Counts == [drafts : Nat, decisions : Nat, runs : Nat, marks : Nat, restarts : Nat]

TaskflowRequest ==
    {Taskflows!Free}
    \cup [at : Taskflows!Op \cup {"submitted", "linked", "patched"},
          taskflow : Taskflow, decision : Taskflows!Decision, run : Nat,
          copy : Taskflows!Snapshot, taskRuns : SUBSET Nat, unaccounted : BOOLEAN,
          others : UNION {[S -> Taskflows!Snapshot] : S \in SUBSET Taskflow}]

\* What a request relies on, of the given counts and confirmations.
Relies(r, counts, decisions, drafts) ==
    /\ Truthful(r.copy, counts.drafts, decisions, drafts)
    /\ \A t \in DOMAIN r.others : Truthful(r.others[t], counts.drafts, decisions, drafts)
    /\ r.taskRuns \subseteq 1..counts.runs
    /\ r.at = "submitted" => r.run \in 1..counts.runs
    /\ r.at = "patched" => r.taskflow \notin DOMAIN r.others

TaskflowTypes ==
    /\ store \in [Taskflow -> Taskflows!Snapshot]
    /\ cache \in [Taskflow -> 0..MaxDrafts]
    /\ handler \in [Handler -> TaskflowRequest]
    /\ count \in Counts
    /\ unaccounted \in [Taskflow -> BOOLEAN]

TaskflowInv ==
    /\ TaskflowTypes
    /\ \A t \in Taskflow : Honest(store[t])
    /\ \A t \in Taskflow : cache[t] # 0 => cache[t] \in confirmed
    /\ taskRuns \subseteq 1..count.runs
    /\ DOMAIN agentRuns \subseteq 1..count.runs
    /\ Taskflows!OnlyConfirmedRuns
    /\ \A h \in Busy : Relies(handler[h], count, agreed, confirmed)

\* Requests come one after another: the one at work has up-to-date copies, and
\* what was marked since the last compilation is marked in the store too.
UpToDate(h) ==
    LET t == handler[h].taskflow IN
    /\ handler[h].copy.stale = store[t].stale
    /\ handler[h].unaccounted = unaccounted[t]
    /\ handler[h].at = "patched" =>
          \A u \in Taskflow \ DOMAIN handler[h].others : u # t => store[u].stale

OneByOneInv ==
    /\ OneByOne
    /\ \A t \in Taskflow : unaccounted[t] => store[t].stale
    /\ \A h \in Busy : UpToDate(h)
    /\ Taskflows!RecompiledFirst

\* What a transaction of the AgentRun store may be doing and have read.
RunRow == [status : Rows!RunStatus, seq : Rows!Seq,
           reason : {Rows!NoReason, "agent_call", "user_approval"}]
ActivationStatus == Rows!Ended \cup Rows!Active \cup {"absent", "queued"}
ClaimRow == [seq : Rows!Seq, active : BOOLEAN, lapsed : BOOLEAN, working : BOOLEAN]

TransactionOf(D) ==
    {Rows!Idle} \cup [op : {"call", "stop"}]
    \cup [op : {"recover"}, locked : SUBSET D, seen : Rows!RunStatus]
    \cup [op : {"heartbeat"}, claim : D]
    \cup [op : {"heartbeat"}, claim : D, locked : SUBSET D,
          seen : Rows!RunStatus, seq : Rows!Seq]
    \cup [op : {"event"}, status : {"running", "waiting", "blocked"}]
    \cup [op : {"complete"}, locked : SUBSET D, claim : D,
          result : Rows!Result, seen : RunRow, due : BOOLEAN]
    \cup [op : {"continue"}, next : Rows!Seq]
    \cup [op : {"cancel"}, seen : Rows!RunStatus]
Transaction == TransactionOf(Rows!Claims)

RunTypes ==
    /\ run \in RunRow
    /\ activation \in [Rows!Seq -> ActivationStatus]
    /\ claim \in [Rows!Claims -> ClaimRow]
    /\ \E n \in 0..MaxClaims : Rows!Claims = 1..n
    /\ cancel \in 0..MaxSeq
    /\ pending \in Nat /\ calls \in Nat /\ calls + pending <= MaxCalls
    /\ txn \in [Txn -> Transaction]
    /\ waitsFor \in [Rows!Claim -> Txn \cup {"none"}]
    /\ inputs \in Nat
    /\ lapses \in 0..MaxLapses /\ restarts \in 0..MaxRestarts

RunInv ==
    /\ RunTypes
    /\ Rows!ClosedRunReleased
    /\ \A t \in Txn : txn[t].op = "recover" => txn[t].locked # {}

StoresInv ==
    /\ part \in {"run", "requests", "one by one", "assignments"}
    /\ RunInv /\ TaskflowInv /\ AssignmentInv
    /\ part = "one by one" => OneByOneInv

-----------------------------------------------------------------------------
(* Assignments.                                                            *)

LEMMA UsedGrows ==
    ASSUME candidates \in Seq(Assignment), NEW a \in Assignment,
           candidates' = Append(candidates, a)
    PROVE  /\ candidates' \in Seq(Assignment)
           /\ Assignments!Used' = Assignments!Used \cup {a}
<1>1. /\ candidates' \in Seq(Assignment) /\ Len(candidates') = Len(candidates) + 1
      /\ DOMAIN candidates = 1..Len(candidates)
      /\ DOMAIN candidates' = 1..Len(candidates')
      /\ Len(candidates) \in Nat
      /\ candidates'[Len(candidates) + 1] = a
      /\ \A i \in 1..Len(candidates) : candidates'[i] = candidates[i]
    OBVIOUS
<1>2. QED
    BY <1>1 DEF Assignments!Used

LEMMA AssignmentInit ==
    ASSUME Assignments!Init
    PROVE  AssignmentInv
<1> USE DEF Assignments!Init, Assignments!Absent, Assignments!Free
<1>1. /\ MaxRuns \in Nat /\ NoAssignment \notin Assignment
    BY StoresAssumption DEF Assignments!IssueAssignmentsAssumption
<1>2. /\ Assignments!Absent \in AssignmentRecord
      /\ Assignments!Free \in AssignerRequest
      /\ candidates \in Seq(Assignment)
    BY <1>1 DEF AssignmentRecord, AssignerRequest
<1>3. AssignmentTypes
    BY <1>1, <1>2 DEF AssignmentTypes
<1>4. \A a \in Assignment : RecordOf(a, saved[a])
    BY <1>1, <1>2 DEF RecordOf
<1>5. \A h \in Handler : AssignerRelies(h)
    BY DEF AssignerRelies, Holding
<1>6. QED
    BY <1>3, <1>4, <1>5 DEF AssignmentInv

\* What AssignmentInv says of a handler, by what its request is about to do.
LEMMA AssignerAt ==
    ASSUME AssignmentInv, NEW h \in Handler
    PROVE  /\ assigner[h].at \in Creating =>
                assigner[h] \in [at : Creating, assignment : Assignment, mention : BOOLEAN]
           /\ assigner[h].at \in Holding =>
                assigner[h] \in [at : Holding, assignment : Assignment,
                                 copy : AssignmentRecord]
           /\ assigner[h] \in AssignerRequest
           /\ AssignerRelies(h)
BY DEF AssignmentInv, AssignmentTypes, AssignerRequest, Assignments!Free, Creating, Holding

\* A step changes the request of one handler, to one that relies on what there
\* is, and leaves what the other handlers rely on.
LEMMA AssignmentStep1 ==
    ASSUME AssignmentInv, NEW h \in Handler, NEW s \in AssignerRequest,
           assigner' = [assigner EXCEPT ![h] = s],
           candidates' \in Seq(Assignment), Assignments!Used \subseteq Assignments!Used',
           runs' \in [Assignment -> 0..MaxRuns],
           \A a \in Assignment : runs[a] <= runs'[a],
           saved' \in [Assignment -> AssignmentRecord],
           \A a \in Assignment : RecordOf(a, saved[a])',
           \A a \in Assignment : saved'[a].status # "absent" =>
              \/ saved[a].status # "absent"
              \/ assigner[h].at = "create" /\ assigner[h].assignment = a,
           \A a \in Assignment : saved[a].status # "absent" => saved'[a].status # "absent",
           mentions' \subseteq Assignment,
           \A a \in mentions' : saved'[a].status # "absent",
           late' \subseteq cancelled', cancelled' \subseteq Assignment,
           AssignerRelies(h)',
           s.at = "create" =>
              \A g \in Handler : assigner[g].at = "create" =>
                                    assigner[g].assignment # s.assignment,
           \A a \in cancelled' \ overlapped' : CancelIsSafe(a)'
    PROVE  AssignmentInv'
<1>1. AssignmentTypes'
    BY DEF AssignmentInv, AssignmentTypes
<1>2. ASSUME NEW g \in Handler, g # h
      PROVE  AssignerRelies(g)'
    <2>1. assigner'[g] = assigner[g] /\ AssignerRelies(g)
        BY <1>2 DEF AssignmentInv, AssignmentTypes
    <2>2. CASE assigner[g].at = "create"
        <3>1. assigner[g].assignment \in Assignment
            BY <2>2, AssignerAt DEF Creating
        <3>2. QED
            BY <1>2, <2>1, <2>2, <3>1 DEF AssignerRelies, Holding, AssignmentInv
    <2>3. CASE assigner[g].at = "mention"
        <3>1. assigner[g].assignment \in Assignment
            BY <2>3, AssignerAt DEF Creating
        <3>2. QED
            BY <2>1, <2>3, <3>1 DEF AssignerRelies, Holding
    <2>4. CASE assigner[g].at \in Holding
        <3>1. assigner[g].assignment \in Assignment /\ assigner[g].copy \in AssignmentRecord
            BY <2>4, AssignerAt
        <3>2. runs \in [Assignment -> 0..MaxRuns]
            BY DEF AssignmentInv, AssignmentTypes
        <3>3. RecordOf(assigner[g].assignment, assigner[g].copy)'
            BY <2>1, <2>4, <3>1, <3>2 DEF AssignerRelies, RecordOf, AssignmentRecord
        <3>4. QED
            BY <2>1, <2>4, <3>1, <3>3 DEF AssignerRelies, Holding
    <2>5. QED
        BY <2>1, <2>2, <2>3, <2>4 DEF AssignerRelies
<1>3. ASSUME NEW f \in Handler, NEW g \in Handler, f # g,
             assigner'[f].at = "create", assigner'[g].at = "create"
      PROVE  assigner'[f].assignment # assigner'[g].assignment
    BY <1>3 DEF AssignmentInv, AssignmentTypes
<1>4. ASSUME NEW a \in Assignment, saved'[a].status # "absent"
      PROVE  a \in Assignments!Used'
    BY <1>4 DEF AssignmentInv, AssignerRelies
<1>5. QED
    BY <1>1, <1>2, <1>3, <1>4 DEF AssignmentInv

LEMMA CreateAssignment ==
    ASSUME AssignmentInv, NEW h \in Handler, NEW a \in Assignment,
           NEW mention \in BOOLEAN, Assignments!Create(h, a, mention)
    PROVE  AssignmentInv'
<1> DEFINE s == [at |-> "create", assignment |-> a, mention |-> mention]
<1>1. s \in AssignerRequest /\ assigner' = [assigner EXCEPT ![h] = s]
    BY DEF Assignments!Create, Assignments!Becomes, AssignerRequest, Creating
<1>2. /\ Assignments!Used' = Assignments!Used \cup {a} /\ a \notin Assignments!Used
      /\ candidates' \in Seq(Assignment)
    BY UsedGrows DEF Assignments!Create, AssignmentInv, AssignmentTypes
<1>3. UNCHANGED <<saved, mentions, runs, cancelled, overlapped, late>>
    BY DEF Assignments!Create, Assignments!history
<1>4. saved[a].status = "absent"
    BY <1>2 DEF AssignmentInv
<1>5. /\ AssignerRelies(h)'
      /\ \A g \in Handler : assigner[g].at = "create" => assigner[g].assignment # a
    BY <1>1, <1>2, <1>3, <1>4
       DEF AssignerRelies, AssignmentInv, AssignmentTypes, Holding
<1>6. \A b \in cancelled' \ overlapped' : CancelIsSafe(b)'
    BY <1>1, <1>3 DEF AssignmentInv, AssignmentTypes, CancelIsSafe, Holding
<1>7. /\ \A b \in Assignment : RecordOf(b, saved[b])'
      /\ \A b \in mentions' : saved'[b].status # "absent"
      /\ \A b \in Assignment : runs[b] <= runs'[b]
      /\ saved' \in [Assignment -> AssignmentRecord] /\ runs' \in [Assignment -> 0..MaxRuns]
      /\ mentions' \subseteq Assignment
      /\ late' \subseteq cancelled' /\ cancelled' \subseteq Assignment
    BY <1>3, StoresAssumption
       DEF AssignmentInv, AssignmentTypes, RecordOf, Assignments!IssueAssignmentsAssumption
<1>8. QED
    BY <1>1, <1>2, <1>3, <1>5, <1>6, <1>7, AssignmentStep1

LEMMA CreateSaveAssignment ==
    ASSUME AssignmentInv, NEW h \in Handler, Assignments!CreateSave(h)
    PROVE  AssignmentInv'
<1> DEFINE s == assigner[h]
           a == s.assignment
           r == [status |-> "ready", item |-> Head(candidates), run |-> 0]
           n == IF s.mention THEN [s EXCEPT !.at = "mention"] ELSE Assignments!Free
<1>1. /\ s.at = "create" /\ saved' = [saved EXCEPT ![a] = r]
      /\ assigner' = [assigner EXCEPT ![h] = n]
      /\ UNCHANGED <<candidates, mentions, runs, cancelled, overlapped, late>>
    BY DEF Assignments!CreateSave, Assignments!Becomes, Assignments!history
<1>2. /\ s \in [at : Creating, assignment : Assignment, mention : BOOLEAN]
      /\ a \in Assignments!Used /\ saved[a].status = "absent" /\ a \in Assignment
    BY <1>1, AssignerAt DEF AssignerRelies, Creating
<1>3. r \in AssignmentRecord /\ r.item # NoAssignment
    <2>1. candidates \in Seq(Assignment) /\ candidates # << >>
        BY <1>2 DEF AssignmentInv, AssignmentTypes, Assignments!Used
    <2>2. QED
        BY <2>1, StoresAssumption DEF AssignmentRecord, Assignments!IssueAssignmentsAssumption
<1>4. /\ n \in AssignerRequest /\ n.at # "create" /\ n.at \notin Holding
      /\ n.at = "mention" => n.assignment = a
    BY <1>2 DEF AssignerRequest, Assignments!Free, Creating, Holding
<1>5. /\ \A b \in Assignment : RecordOf(b, saved[b])'
      /\ \A b \in mentions' : saved'[b].status # "absent"
      /\ \A b \in Assignment : runs[b] <= runs'[b]
      /\ saved' \in [Assignment -> AssignmentRecord] /\ runs' \in [Assignment -> 0..MaxRuns]
      /\ mentions' \subseteq Assignment
      /\ late' \subseteq cancelled' /\ cancelled' \subseteq Assignment
      /\ candidates' \in Seq(Assignment) /\ Assignments!Used' = Assignments!Used
      /\ saved'[a].status # "absent"
    BY <1>1, <1>2, <1>3, StoresAssumption
       DEF AssignmentInv, AssignmentTypes, RecordOf, Assignments!IssueAssignmentsAssumption,
           Assignments!Used
<1>6. AssignerRelies(h)'
    BY <1>1, <1>4, <1>5 DEF AssignerRelies, AssignmentInv, AssignmentTypes
<1>7. \A b \in cancelled' \ overlapped' : CancelIsSafe(b)'
    BY <1>1, <1>2, <1>4 DEF AssignmentInv, AssignmentTypes, CancelIsSafe
<1>8. \A b \in Assignment :
          /\ saved'[b].status # "absent" => saved[b].status # "absent" \/ b = a
          /\ saved[b].status # "absent" => saved'[b].status # "absent"
    BY <1>1, <1>2 DEF AssignmentInv, AssignmentTypes
<1>9. QED
    BY <1>1, <1>4, <1>5, <1>6, <1>7, <1>8, AssignmentStep1

\* Steps that leave everything but a handler's request as it is, and give up a
\* request, or load a copy of a record that is not cancelled, or for its
\* cancellation.
LEMMA RequestAssignment ==
    ASSUME AssignmentInv, NEW h \in Handler, NEW s \in AssignerRequest,
           assigner' = [assigner EXCEPT ![h] = s], s.at # "create",
           UNCHANGED <<candidates, saved, runs, cancelled, overlapped, late>>,
           mentions' \subseteq Assignment,
           \A a \in mentions' : saved[a].status # "absent",
           AssignerRelies(h)',
           \A a \in Assignment :
              s.at \in Holding \ {"cancel"} /\ s.assignment = a
                 => \/ saved[a].status # "cancelled"
                    \/ assigner[h].at \in Holding \ {"cancel"} /\ assigner[h].assignment = a
    PROVE  AssignmentInv'
<1>1. \A a \in cancelled' \ overlapped' : CancelIsSafe(a)'
    BY DEF AssignmentInv, AssignmentTypes, CancelIsSafe
<1>2. /\ candidates' \in Seq(Assignment) /\ Assignments!Used' = Assignments!Used
      /\ runs' \in [Assignment -> 0..MaxRuns] /\ saved' \in [Assignment -> AssignmentRecord]
      /\ \A a \in Assignment : RecordOf(a, saved[a])' /\ runs[a] <= runs'[a]
      /\ late' \subseteq cancelled' /\ cancelled' \subseteq Assignment
    BY StoresAssumption DEF AssignmentInv, AssignmentTypes, RecordOf, Assignments!Used,
       Assignments!IssueAssignmentsAssumption
<1>3. QED
    BY <1>1, <1>2, AssignmentStep1

LEMMA FreeAssigner ==
    /\ Assignments!Free \in AssignerRequest
    /\ Assignments!Free.at \notin Creating \cup Holding
BY DEF Assignments!Free, AssignerRequest, Creating, Holding

\* A handler with nothing to do relies on nothing.
LEMMA FreeRelies ==
    ASSUME AssignmentInv, NEW h \in Handler,
           assigner' = [assigner EXCEPT ![h] = Assignments!Free]
    PROVE  AssignerRelies(h)'
BY FreeAssigner DEF AssignerRelies, AssignmentInv, AssignmentTypes, Creating, Holding

LEMMA MentionSaveAssignment ==
    ASSUME AssignmentInv, NEW h \in Handler, Assignments!MentionSave(h)
    PROVE  AssignmentInv'
<1>1. /\ assigner[h].at = "mention"
      /\ assigner' = [assigner EXCEPT ![h] = Assignments!Free]
      /\ mentions' = mentions \cup {assigner[h].assignment}
      /\ UNCHANGED <<candidates, saved, runs, cancelled, overlapped, late>>
    BY DEF Assignments!MentionSave, Assignments!Becomes, Assignments!history
<1>2. assigner[h].assignment \in Assignment /\ saved[assigner[h].assignment].status # "absent"
    BY <1>1, AssignerAt DEF AssignerRelies, Creating
<1>3. mentions' \subseteq Assignment /\ \A a \in mentions' : saved[a].status # "absent"
    BY <1>1, <1>2 DEF AssignmentInv, AssignmentTypes
<1>4. QED
    BY <1>1, <1>3, FreeAssigner, FreeRelies, RequestAssignment DEF Creating

LEMMA LoadAssignment ==
    ASSUME AssignmentInv, NEW h \in Handler, NEW a \in Assignment,
           NEW op \in Holding \ {"dispatched"}, Assignments!Load(h, op, a),
           op # "cancel" => saved[a].status # "cancelled"
    PROVE  AssignmentInv'
<1>0. PICK s : s = [at |-> op, assignment |-> a, copy |-> saved[a]]
    OBVIOUS
<1>1. /\ saved[a].status # "absent" /\ assigner' = [assigner EXCEPT ![h] = s]
      /\ UNCHANGED <<candidates, saved, mentions, runs, cancelled, overlapped, late>>
    BY <1>0 DEF Assignments!Load, Assignments!Becomes, Assignments!history
<1>2. s \in AssignerRequest /\ RecordOf(a, saved[a])
    BY <1>0 DEF AssignerRequest, AssignmentInv, AssignmentTypes
<1>3. AssignerRelies(h)'
    BY <1>0, <1>1, <1>2 DEF AssignerRelies, AssignmentInv, AssignmentTypes, Holding, RecordOf
<1>4. mentions' \subseteq Assignment /\ \A b \in mentions' : saved[b].status # "absent"
    BY <1>1 DEF AssignmentInv, AssignmentTypes
<1>5. s.at = op /\ s.assignment = a /\ op # "create"
    BY <1>0 DEF Holding
<1>6. \A b \in Assignment :
          s.at \in Holding \ {"cancel"} /\ s.assignment = b
             => saved[b].status # "cancelled"
    BY <1>5
<1>7. s.at # "create" /\ UNCHANGED <<candidates, saved, runs, cancelled, overlapped, late>>
    BY <1>1, <1>5
<1>8. QED
    BY <1>1, <1>2, <1>3, <1>4, <1>6, <1>7, RequestAssignment

LEMMA DispatchRefusedAssignment ==
    ASSUME AssignmentInv, NEW h \in Handler, Assignments!DispatchRefused(h)
    PROVE  AssignmentInv'
<1>1. /\ assigner' = [assigner EXCEPT ![h] = Assignments!Free]
      /\ UNCHANGED <<candidates, saved, mentions, runs, cancelled, overlapped, late>>
    BY DEF Assignments!DispatchRefused, Assignments!Becomes, Assignments!history
<1>2. mentions' \subseteq Assignment /\ \A b \in mentions' : saved[b].status # "absent"
    BY <1>1 DEF AssignmentInv, AssignmentTypes
<1>3. QED
    BY <1>1, <1>2, FreeAssigner, FreeRelies, RequestAssignment DEF Creating

LEMMA DispatchRunAssignment ==
    ASSUME AssignmentInv, NEW h \in Handler, NEW outcome \in {"dispatched", "needs"},
           Assignments!DispatchRun(h, outcome)
    PROVE  AssignmentInv'
<1>0. PICK s, a, r, n :
          /\ s = assigner[h] /\ a = s.assignment
          /\ r = [s.copy EXCEPT !.status = outcome, !.run = runs[a] + 1]
          /\ n = [s EXCEPT !.at = "dispatched", !.copy = r]
    OBVIOUS
<1>1. /\ s.at = "dispatch" /\ runs[a] < MaxRuns
      /\ runs' = [runs EXCEPT ![a] = runs[a] + 1]
      /\ late' = IF a \in cancelled THEN late \cup {a} ELSE late
      /\ assigner' = [assigner EXCEPT ![h] = n]
      /\ UNCHANGED <<candidates, saved, mentions, cancelled, overlapped>>
    BY <1>0 DEF Assignments!DispatchRun, Assignments!Becomes
<1>2. /\ s \in [at : Holding, assignment : Assignment, copy : AssignmentRecord]
      /\ a \in Assignment /\ s.copy \in AssignmentRecord
      /\ RecordOf(a, s.copy) /\ s.copy.status # "absent" /\ saved[a].status # "absent"
      /\ runs \in [Assignment -> 0..MaxRuns] /\ MaxRuns \in Nat
    BY <1>0, <1>1, AssignerAt, StoresAssumption
       DEF AssignerRelies, Holding, AssignmentInv, AssignmentTypes,
           Assignments!IssueAssignmentsAssumption
<1>3. /\ r \in AssignmentRecord /\ r.status = outcome /\ r.run = runs[a] + 1
      /\ r.item = s.copy.item
    <2>1. runs[a] + 1 \in 0..MaxRuns
        BY <1>1, <1>2
    <2>2. QED
        BY <1>0, <1>2, <2>1 DEF AssignmentRecord
<1>4. n \in AssignerRequest /\ n.at = "dispatched" /\ n.assignment = a /\ n.copy = r
    BY <1>0, <1>2, <1>3 DEF AssignerRequest, Holding
<1>5. /\ runs' \in [Assignment -> 0..MaxRuns] /\ runs'[a] = runs[a] + 1
      /\ \A b \in Assignment : runs[b] <= runs'[b]
    BY <1>1, <1>2
<1>6. \A b \in Assignment : RecordOf(b, saved[b])'
    BY <1>1, <1>2, <1>5 DEF AssignmentInv, AssignmentTypes, RecordOf, AssignmentRecord
<1>7. assigner'[h] = n
    BY <1>1 DEF AssignmentInv, AssignmentTypes
<1>8. AssignerRelies(h)'
    <2>1. RecordOf(a, r)'
        BY <1>2, <1>3, <1>5 DEF RecordOf
    <2>2. QED
        BY <1>1, <1>2, <1>3, <1>4, <1>7, <2>1 DEF AssignerRelies, Holding
<1>9. \A b \in cancelled' \ overlapped' : CancelIsSafe(b)'
    BY <1>0, <1>1, <1>2, <1>4 DEF AssignmentInv, AssignmentTypes, CancelIsSafe, Holding
<1>10. /\ candidates' \in Seq(Assignment) /\ Assignments!Used' = Assignments!Used
       /\ saved' \in [Assignment -> AssignmentRecord]
       /\ mentions' \subseteq Assignment
       /\ late' \subseteq cancelled' /\ cancelled' \subseteq Assignment
       /\ \A b \in mentions' : saved'[b].status # "absent"
    BY <1>1 DEF AssignmentInv, AssignmentTypes, Assignments!Used
<1>11. QED
    BY <1>1, <1>4, <1>5, <1>6, <1>8, <1>9, <1>10, AssignmentStep1

\* A request that saves its copy, with a status, and is done.
LEMMA SaveAssignment ==
    ASSUME AssignmentInv, NEW h \in Handler, assigner[h].at \in Holding,
           NEW st \in {"ready", "dispatched", "needs", "cancelled"},
           Assignments!Save(h, st), st = "dispatched" => assigner[h].copy.status = st,
           late' \subseteq cancelled', cancelled' \subseteq Assignment,
           \A a \in cancelled' \ overlapped' : CancelIsSafe(a)'
    PROVE  AssignmentInv'
<1> DEFINE s == assigner[h]
           a == s.assignment
           r == [s.copy EXCEPT !.status = st]
<1>1. /\ saved' = [saved EXCEPT ![a] = r]
      /\ assigner' = [assigner EXCEPT ![h] = Assignments!Free]
      /\ UNCHANGED <<candidates, mentions, runs>>
    BY DEF Assignments!Save, Assignments!Becomes
<1>2. /\ a \in Assignment /\ s.copy \in AssignmentRecord
      /\ RecordOf(a, s.copy) /\ s.copy.status # "absent" /\ saved[a].status # "absent"
    BY AssignerAt DEF AssignerRelies
<1>3. /\ r \in AssignmentRecord /\ RecordOf(a, r) /\ r.status # "absent"
    BY <1>2 DEF RecordOf, AssignmentRecord
<1>4. /\ \A b \in Assignment : RecordOf(b, saved[b])'
      /\ saved' \in [Assignment -> AssignmentRecord] /\ runs' \in [Assignment -> 0..MaxRuns]
      /\ mentions' \subseteq Assignment
      /\ \A b \in mentions' : saved'[b].status # "absent"
      /\ \A b \in Assignment : runs[b] <= runs'[b]
      /\ \A b \in Assignment : saved[b].status # "absent" <=> saved'[b].status # "absent"
      /\ candidates' \in Seq(Assignment) /\ Assignments!Used' = Assignments!Used
    BY <1>1, <1>2, <1>3, StoresAssumption
       DEF AssignmentInv, AssignmentTypes, RecordOf, Assignments!Used,
           Assignments!IssueAssignmentsAssumption
<1>5. QED
    BY <1>1, <1>4, FreeAssigner, FreeRelies, AssignmentStep1 DEF Creating

LEMMA DispatchSaveAssignment ==
    ASSUME AssignmentInv, NEW h \in Handler, Assignments!DispatchSave(h)
    PROVE  AssignmentInv'
<1> DEFINE s == assigner[h]
<1>1. /\ s.at = "dispatched" /\ Assignments!Save(h, s.copy.status)
      /\ UNCHANGED <<cancelled, overlapped, late>>
    BY DEF Assignments!DispatchSave, Assignments!history
<1>2. /\ s.at \in Holding /\ s.copy.status \in {"ready", "dispatched", "needs", "cancelled"}
      /\ s.assignment \in Assignment
    BY <1>1, AssignerAt DEF AssignerRelies, Holding, AssignmentRecord
<1>3. \A a \in cancelled' \ overlapped' : CancelIsSafe(a)'
    BY <1>1, <1>2, FreeAssigner DEF AssignmentInv, AssignmentTypes, CancelIsSafe, Assignments!Save,
       Assignments!Becomes, Holding
<1>4. QED
    BY <1>1, <1>2, <1>3, SaveAssignment DEF AssignmentInv, AssignmentTypes

LEMMA ReassignSaveAssignment ==
    ASSUME AssignmentInv, NEW h \in Handler, Assignments!ReassignSave(h)
    PROVE  AssignmentInv'
<1>1. /\ assigner[h].at = "reassign" /\ Assignments!Save(h, "ready")
      /\ UNCHANGED <<cancelled, overlapped, late>>
    BY DEF Assignments!ReassignSave, Assignments!history
<1>2. assigner[h].at \in Holding /\ assigner[h].assignment \in Assignment
    BY <1>1, AssignerAt DEF Holding
<1>3. \A a \in cancelled' \ overlapped' : CancelIsSafe(a)'
    BY <1>1, <1>2, FreeAssigner DEF AssignmentInv, AssignmentTypes, CancelIsSafe, Assignments!Save,
       Assignments!Becomes, Holding
<1>4. QED
    BY <1>1, <1>2, <1>3, SaveAssignment DEF AssignmentInv, AssignmentTypes

LEMMA CancelSaveAssignment ==
    ASSUME AssignmentInv, NEW h \in Handler, Assignments!CancelSave(h)
    PROVE  AssignmentInv'
<1>0. PICK a : a = assigner[h].assignment
    OBVIOUS
<1>1. /\ assigner[h].at = "cancel" /\ Assignments!Save(h, "cancelled")
      /\ cancelled' = cancelled \cup {a} /\ UNCHANGED late
      /\ overlapped' = IF Assignments!Holders(a) = {h} THEN overlapped
                       ELSE overlapped \cup {a}
    BY <1>0 DEF Assignments!CancelSave
<1>2. /\ assigner[h].at \in Holding /\ a \in Assignment
      /\ assigner[h].copy \in AssignmentRecord
    BY <1>0, <1>1, AssignerAt DEF Holding
<1>3. ASSUME NEW b \in cancelled' \ overlapped', b # a
      PROVE  CancelIsSafe(b)'
    BY <1>0, <1>1, <1>2, <1>3, FreeAssigner DEF AssignmentInv, AssignmentTypes, CancelIsSafe,
       Assignments!Save, Assignments!Becomes, Holding
<1>4. ASSUME a \notin overlapped'
      PROVE  CancelIsSafe(a)'
    <2>1. a \notin late        BY <1>1, <1>4 DEF AssignmentInv, AssignmentTypes, CancelIsSafe
    <2>2. saved'[a].status = "cancelled" /\ assigner' = [assigner EXCEPT ![h] = Assignments!Free]
        BY <1>0, <1>1, <1>2 DEF AssignmentInv, AssignmentTypes, Assignments!Save,
           Assignments!Becomes, AssignmentRecord
    <2>3. ASSUME NEW g \in Handler, assigner'[g].at \in Holding \ {"cancel"}
          PROVE  assigner'[g].assignment # a
        <3>1. g # h /\ assigner'[g] = assigner[g]
            BY <2>2, <2>3, FreeAssigner DEF AssignmentInv, AssignmentTypes
        <3>2. Assignments!Holders(a) = {h}
            BY <1>1, <1>4
        <3>3. QED
            BY <2>3, <3>1, <3>2 DEF Assignments!Holders, Holding
    <2>4. QED
        BY <1>1, <2>1, <2>2, <2>3 DEF CancelIsSafe
<1>5. /\ cancelled' \subseteq Assignment /\ late' \subseteq cancelled'
      /\ \A b \in cancelled' \ overlapped' : CancelIsSafe(b)'
    BY <1>1, <1>2, <1>3, <1>4 DEF AssignmentInv, AssignmentTypes
<1>6. QED
    BY <1>1, <1>2, <1>5, SaveAssignment

LEMMA RestartAssignment ==
    ASSUME AssignmentInv, Assignments!Restart
    PROVE  AssignmentInv'
<1>1. /\ assigner' = [h \in Handler |-> Assignments!Free]
      /\ UNCHANGED <<candidates, saved, mentions, runs, cancelled, overlapped, late>>
    BY DEF Assignments!Restart, Assignments!history
<1>2. \A h \in Handler : assigner'[h].at \notin Creating \cup Holding
    BY <1>1, FreeAssigner
<1>3. AssignmentTypes'
    BY <1>1, FreeAssigner DEF AssignmentInv, AssignmentTypes
<1>4. \A h \in Handler : AssignerRelies(h)'
    BY <1>2 DEF AssignerRelies, Creating, Holding
<1>5. \A a \in cancelled' \ overlapped' : CancelIsSafe(a)'
    BY <1>1, <1>2 DEF AssignmentInv, CancelIsSafe
<1>6. \A a \in Assignment : RecordOf(a, saved[a])'
    BY <1>1 DEF AssignmentInv, RecordOf
<1>7. QED
    BY <1>1, <1>2, <1>3, <1>4, <1>5, <1>6 DEF AssignmentInv, Creating, Assignments!Used

LEMMA AssignmentStays ==
    ASSUME AssignmentInv, UNCHANGED assignmentVars
    PROVE  AssignmentInv'
BY DEF assignmentVars, AssignmentInv, AssignmentTypes, AssignerRelies, RecordOf,
   CancelIsSafe, Assignments!Used, AssignerRequest, AssignmentRecord

LEMMA AssignmentNext ==
    ASSUME AssignmentInv, Assignments!Next
    PROVE  AssignmentInv'
<1>1. ASSUME NEW h \in Handler, NEW a \in Assignment,
             \/ \E mention \in BOOLEAN : Assignments!Create(h, a, mention)
             \/ Assignments!DispatchLoad(h, a) \/ Assignments!CancelLoad(h, a)
             \/ Assignments!ReassignLoad(h, a)
      PROVE  AssignmentInv'
    <2>1. \/ \E mention \in BOOLEAN : Assignments!Create(h, a, mention)
          \/ saved[a].status # "cancelled" /\ Assignments!Load(h, "dispatch", a)
          \/ Assignments!Load(h, "cancel", a)
          \/ saved[a].status # "cancelled" /\ Assignments!Load(h, "reassign", a)
        BY <1>1 DEF Assignments!DispatchLoad, Assignments!CancelLoad, Assignments!ReassignLoad
    <2>2. QED
        BY <2>1, CreateAssignment, LoadAssignment DEF Holding
<1>2. ASSUME NEW h \in Handler,
             \/ Assignments!CreateSave(h) \/ Assignments!MentionSave(h)
             \/ \E outcome \in {"dispatched", "needs"} : Assignments!DispatchRun(h, outcome)
             \/ Assignments!DispatchRefused(h) \/ Assignments!DispatchSave(h)
             \/ Assignments!CancelSave(h) \/ Assignments!ReassignSave(h)
      PROVE  AssignmentInv'
    BY <1>2, CreateSaveAssignment, MentionSaveAssignment, DispatchRunAssignment,
       DispatchRefusedAssignment, DispatchSaveAssignment, CancelSaveAssignment,
       ReassignSaveAssignment
<1>3. QED
    BY <1>1, <1>2, RestartAssignment DEF Assignments!Next

-----------------------------------------------------------------------------
(* Taskflows: what the operations do to a truthful copy.                   *)

LEMMA TruthfulStays ==
    ASSUME NEW s, NEW n \in Nat, NEW m \in Nat, n <= m,
           NEW A, NEW B, A \subseteq B, NEW C, NEW D, C \subseteq D,
           Truthful(s, n, A, C)
    PROVE  Truthful(s, m, B, D)
BY DEF Truthful, Taskflows!Snapshot

LEMMA StaleIsTruthful ==
    ASSUME NEW s, NEW n, NEW A, NEW C, Truthful(s, n, A, C)
    PROVE  /\ Truthful(Taskflows!MarkStale(s), n, A, C)
           /\ Taskflows!MarkStale(s).stale
<1>1. PICK D : D = [d \in Taskflows!Decision |-> [s.decisions[d] EXCEPT !.stale = TRUE]]
    OBVIOUS
<1>2. PICK r : r = Taskflows!MarkStale(s)
    OBVIOUS
<1>3. s \in Taskflows!Snapshot
    BY DEF Truthful
<1>4. r = [s EXCEPT !.stale = TRUE, !.status = "confirmed", !.decisions = D]
    BY <1>1, <1>2, <1>3, Zenon DEF Taskflows!MarkStale, Taskflows!Snapshot
<1>5. /\ D \in [Taskflows!Decision ->
              [status : {"absent", "requested", "confirmed", "rejected"},
               brief : 0..MaxDrafts, stale : BOOLEAN]]
      /\ \A d \in Taskflows!Decision : D[d].status = s.decisions[d].status
    BY <1>1, <1>3 DEF Taskflows!Snapshot
<1>6. /\ r \in Taskflows!Snapshot /\ r.decisions = D /\ r.stale /\ r.current = s.current
      /\ r.confirmed = s.confirmed /\ r.plan = s.plan /\ r.brief = s.brief
      /\ r.content = s.content
    BY <1>3, <1>4, <1>5 DEF Taskflows!Snapshot
<1>7. QED
    BY <1>2, <1>5, <1>6 DEF Truthful

LEMMA DraftIsTruthful ==
    ASSUME NEW s, NEW n \in Nat, n < MaxDrafts, NEW A, NEW C, Truthful(s, n, A, C),
           MaxDrafts \in Nat
    PROVE  /\ Truthful(Taskflows!NewDraft(s, n + 1), n + 1, A, C)
           /\ Taskflows!NewDraft(s, n + 1).stale = s.stale
           /\ \A st \in {"clarifying", s.status} :
                /\ Truthful([Taskflows!NewDraft(s, n + 1) EXCEPT !.status = st], n + 1, A, C)
                /\ [Taskflows!NewDraft(s, n + 1) EXCEPT !.status = st].stale = s.stale
<1> DEFINE r == Taskflows!NewDraft(s, n + 1)
<1>1. r \in Taskflows!Snapshot /\ r.stale = s.stale /\ r.status = s.status
    <2>1. s \in Taskflows!Snapshot /\ s.current \in 0..MaxDrafts /\ s.current <= n
        BY DEF Truthful, Taskflows!Snapshot
    <2>2. s.current + 1 \in 0..MaxDrafts /\ n + 1 \in 0..MaxDrafts
        BY <2>1
    <2>3. QED
        BY <2>1, <2>2 DEF Taskflows!Snapshot, Taskflows!NewDraft
<1>2. Truthful(r, n + 1, A, C)
    <2>1. s \in Taskflows!Snapshot /\ s.current \in Nat /\ s.confirmed \in Nat
        BY DEF Truthful, Taskflows!Snapshot
    <2>2. /\ r.current = s.current + 1 /\ r.confirmed = s.confirmed /\ r.brief = "draft"
          /\ r.decisions = s.decisions /\ r.plan = s.plan
        BY <2>1 DEF Taskflows!Snapshot, Taskflows!NewDraft
    <2> HIDE DEF r
    <2>3. QED
        BY <1>1, <2>1, <2>2 DEF Truthful
<1>3. ASSUME NEW st \in {"clarifying", s.status}
      PROVE  /\ Truthful([r EXCEPT !.status = st], n + 1, A, C)
             /\ [r EXCEPT !.status = st].stale = s.stale
    <2> HIDE DEF r
    <2>1. s.status \in {"clarifying", "confirmed", "compiled", "dispatched"}
        BY DEF Truthful, Taskflows!Snapshot
    <2>2. [r EXCEPT !.status = st] \in Taskflows!Snapshot
        BY <1>1, <2>1 DEF Taskflows!Snapshot
    <2>3. QED
        BY <1>1, <1>2, <2>2 DEF Truthful, Taskflows!Snapshot
<1>4. QED
    BY <1>1, <1>2, <1>3

\* A snapshot changed in fields that a truthful one shows nothing by.
LEMMA StatusIsFree ==
    ASSUME NEW s, NEW n, NEW A, NEW C, Truthful(s, n, A, C),
           NEW st \in {"clarifying", "confirmed", "compiled", "dispatched"}
    PROVE  /\ Truthful([s EXCEPT !.status = st], n, A, C)
           /\ [s EXCEPT !.status = st].stale = s.stale
<1>1. [s EXCEPT !.status = st] \in Taskflows!Snapshot
    BY DEF Truthful, Taskflows!Snapshot
<1>2. QED
    BY <1>1 DEF Truthful, Taskflows!Snapshot

LEMMA ReadyIsTruthful ==
    ASSUME NEW s, NEW n, NEW A, NEW C, Truthful(s, n, A, C)
    PROVE  /\ Truthful([s EXCEPT !.brief = "ready"], n, A, C)
           /\ [s EXCEPT !.brief = "ready"].stale = s.stale
<1>1. [s EXCEPT !.brief = "ready"] \in Taskflows!Snapshot
    BY DEF Truthful, Taskflows!Snapshot
<1>2. QED
    BY <1>1 DEF Truthful, Taskflows!Snapshot

\* The user confirms the draft the copy holds.
LEMMA ConfirmedIsTruthful ==
    ASSUME NEW s, NEW n, NEW A, NEW C, Truthful(s, n, A, C)
    PROVE  /\ Truthful(Taskflows!Confirmed(s), n, A, C \cup {s.content})
           /\ Taskflows!Confirmed(s).stale = s.stale
<1>1. Taskflows!Confirmed(s) \in Taskflows!Snapshot
    BY DEF Truthful, Taskflows!Snapshot, Taskflows!Confirmed
<1>2. QED
    BY <1>1 DEF Truthful, Taskflows!Snapshot, Taskflows!Confirmed

\* A confirmed brief is compiled.
LEMMA CompiledIsTruthful ==
    ASSUME NEW s, NEW n, NEW A, NEW C, Truthful(s, n, A, C), s.brief = "confirmed"
    PROVE  Truthful(Taskflows!Compiled(s), n, A, C) /\ s.content \in C
<1>1. Taskflows!Compiled(s) \in Taskflows!Snapshot
    BY DEF Truthful, Taskflows!Snapshot, Taskflows!Compiled
<1>2. QED
    BY <1>1 DEF Truthful, Taskflows!Snapshot, Taskflows!Compiled

\* A decision is requested or rejected, or a user confirms it.
LEMMA DecisionIsTruthful ==
    ASSUME NEW s, NEW n, NEW A, NEW C, Truthful(s, n, A, C),
           NEW d \in Taskflows!Decision,
           NEW r \in [status : {"absent", "requested", "confirmed", "rejected"},
                      brief : 0..MaxDrafts, stale : BOOLEAN],
           NEW B, A \subseteq B, r.status = "confirmed" => d \in B
    PROVE  /\ Truthful([s EXCEPT !.decisions[d] = r], n, B, C)
           /\ [s EXCEPT !.decisions[d] = r].stale = s.stale
<1> DEFINE u == [s EXCEPT !.decisions[d] = r]
<1>1. /\ u \in Taskflows!Snapshot
      /\ u.decisions = [s.decisions EXCEPT ![d] = r]
      /\ u.current = s.current /\ u.confirmed = s.confirmed /\ u.brief = s.brief
      /\ u.plan = s.plan /\ u.content = s.content /\ u.stale = s.stale
    BY DEF Truthful, Taskflows!Snapshot
<1>2. s.decisions \in [Taskflows!Decision ->
          [status : {"absent", "requested", "confirmed", "rejected"},
           brief : 0..MaxDrafts, stale : BOOLEAN]]
    BY DEF Truthful, Taskflows!Snapshot
<1> HIDE DEF u
<1>3. \A e \in Taskflows!Decision : u.decisions[e].status = "confirmed" => e \in B
    BY <1>1, <1>2 DEF Truthful
<1>4. QED
    BY <1>1, <1>3 DEF Truthful, u

-----------------------------------------------------------------------------
(* Taskflows: the steps.                                                   *)

\* What TaskflowInv says of a handler at work.
LEMMA TaskflowAt ==
    ASSUME TaskflowInv, NEW h \in Handler, handler[h].at # "idle"
    PROVE  /\ h \in Busy
           /\ handler[h] \in [at : Taskflows!Op \cup {"submitted", "linked", "patched"},
                taskflow : Taskflow, decision : Taskflows!Decision, run : Nat,
                copy : Taskflows!Snapshot, taskRuns : SUBSET Nat, unaccounted : BOOLEAN,
                others : UNION {[S -> Taskflows!Snapshot] : S \in SUBSET Taskflow}]
           /\ Relies(handler[h], count, agreed, confirmed)
           /\ Honest(handler[h].copy)
           /\ count \in Counts
BY DEF TaskflowInv, TaskflowTypes, TaskflowRequest, Taskflows!Free, Busy, Relies, Honest

LEMMA FreeRequest ==
    /\ Taskflows!Free \in TaskflowRequest
    /\ Taskflows!Free.at = "idle"
BY DEF TaskflowRequest, Taskflows!Free

\* A step changes the request of one handler, only counts on, and only adds
\* confirmations.
LEMMA TaskflowStep1 ==
    ASSUME TaskflowInv, NEW h \in Handler, NEW r \in TaskflowRequest,
           handler' = [handler EXCEPT ![h] = r],
           r.at # "idle" => Relies(r, count', agreed', confirmed'),
           count' \in Counts, count.drafts <= count'.drafts, count.runs <= count'.runs,
           agreed \subseteq agreed', confirmed \subseteq confirmed',
           store' \in [Taskflow -> Taskflows!Snapshot],
           \A t \in Taskflow : \/ store'[t] = store[t]
                               \/ Truthful(store'[t], count'.drafts, agreed', confirmed'),
           cache' \in [Taskflow -> 0..MaxDrafts],
           \A t \in Taskflow : cache'[t] # 0 => cache'[t] = cache[t] \/ cache'[t] \in confirmed',
           taskRuns' \subseteq 1..count'.runs, DOMAIN agentRuns' \subseteq 1..count'.runs,
           Taskflows!OnlyConfirmedRuns',
           unaccounted' \in [Taskflow -> BOOLEAN]
    PROVE  TaskflowInv'
<1>1. TaskflowTypes'
    BY DEF TaskflowInv, TaskflowTypes
<1>2. count \in Counts /\ handler \in [Handler -> TaskflowRequest]
    BY DEF TaskflowInv, TaskflowTypes
<1>3. \A t \in Taskflow : Honest(store[t])'
    <2>1. ASSUME NEW t \in Taskflow
          PROVE  Truthful(store'[t], count'.drafts, agreed', confirmed')
        BY <1>2, TruthfulStays DEF TaskflowInv, Honest, Counts
    <2>2. QED
        BY <2>1 DEF Honest
<1>4. ASSUME NEW g \in Handler, g # h, g \in Busy'
      PROVE  Relies(handler'[g], count', agreed', confirmed')
    <2>1. g \in Busy /\ handler'[g] = handler[g]
        BY <1>2, <1>4 DEF Busy
    <2>2. Relies(handler[g], count, agreed, confirmed)
        BY <2>1 DEF TaskflowInv
    <2>3. /\ Truthful(handler[g].copy, count'.drafts, agreed', confirmed')
          /\ \A t \in DOMAIN handler[g].others :
                Truthful(handler[g].others[t], count'.drafts, agreed', confirmed')
        BY <1>2, <2>2, TruthfulStays DEF Relies, Counts
    <2>4. 1..count.runs \subseteq 1..count'.runs
        BY <1>2 DEF Counts
    <2>5. QED
        BY <2>1, <2>2, <2>3, <2>4 DEF Relies
<1>5. h \in Busy' => Relies(handler'[h], count', agreed', confirmed')
    BY <1>2 DEF Busy
<1>6. Busy' \subseteq Handler
    BY DEF Busy
<1>7. \A t \in Taskflow : cache'[t] # 0 => cache'[t] \in confirmed'
    BY DEF TaskflowInv
<1>8. QED
    BY <1>1, <1>3, <1>4, <1>5, <1>6, <1>7 DEF TaskflowInv

\* A request that fails, or is done without a change of the store.
LEMMA RaiseTaskflow ==
    ASSUME TaskflowInv, NEW h \in Handler,
           handler' = [handler EXCEPT ![h] = Taskflows!Free],
           UNCHANGED <<store, taskRuns, cache, agentRuns, count, agreed, confirmed,
                       unaccounted>>
    PROVE  TaskflowInv'
<1>1. count \in Counts /\ count.drafts <= count.drafts /\ count.runs <= count.runs
    BY DEF TaskflowInv, TaskflowTypes, Counts
<1>2. QED
    BY <1>1, FreeRequest, TaskflowStep1
       DEF TaskflowInv, TaskflowTypes, Counts, Taskflows!OnlyConfirmedRuns

\* A request saves a truthful snapshot and is done.
LEMMA SaveTaskflow ==
    ASSUME TaskflowInv, NEW h \in Handler, handler[h].at # "idle",
           NEW s, Taskflows!Save(h, s),
           count' \in Counts, count.drafts <= count'.drafts, count.runs = count'.runs,
           agreed \subseteq agreed', confirmed \subseteq confirmed',
           Truthful(s, count'.drafts, agreed', confirmed'),
           cache' \in [Taskflow -> 0..MaxDrafts],
           \A t \in Taskflow : cache'[t] # 0 => cache'[t] = cache[t] \/ cache'[t] \in confirmed',
           taskRuns' \in {taskRuns, handler[h].taskRuns}, UNCHANGED agentRuns,
           unaccounted' \in [Taskflow -> BOOLEAN]
    PROVE  TaskflowInv'
<1>1. /\ handler' = [handler EXCEPT ![h] = Taskflows!Free]
      /\ store' = [store EXCEPT ![handler[h].taskflow] = s]
    BY DEF Taskflows!Save
<1>2. /\ handler[h].taskflow \in Taskflow /\ handler[h].taskRuns \subseteq 1..count.runs
      /\ store \in [Taskflow -> Taskflows!Snapshot] /\ count \in Counts
      /\ s \in Taskflows!Snapshot
    BY TaskflowAt DEF TaskflowInv, TaskflowTypes, Relies, Truthful
<1>3. /\ store' \in [Taskflow -> Taskflows!Snapshot]
      /\ \A t \in Taskflow : store'[t] = store[t] \/ store'[t] = s
    BY <1>1, <1>2
<1>4. /\ taskRuns' \subseteq 1..count'.runs /\ DOMAIN agentRuns' \subseteq 1..count'.runs
      /\ Taskflows!OnlyConfirmedRuns'
    BY <1>2 DEF TaskflowInv, Taskflows!OnlyConfirmedRuns
<1>5. count.runs <= count'.runs
    BY <1>2 DEF Counts
<1>6. QED
    BY <1>1, <1>3, <1>4, <1>5, FreeRequest, TaskflowStep1

\* A request that saves a truthful snapshot without further ado.
LEMMA PlainSaveTaskflow ==
    ASSUME TaskflowInv, NEW h \in Handler, handler[h].at # "idle",
           NEW s, Taskflows!Save(h, s), Truthful(s, count.drafts, agreed, confirmed),
           taskRuns' \in {taskRuns, handler[h].taskRuns},
           UNCHANGED <<cache, agentRuns, count, agreed, confirmed, unaccounted>>
    PROVE  TaskflowInv'
<1>1. /\ count \in Counts /\ count.drafts <= count.drafts
      /\ cache \in [Taskflow -> 0..MaxDrafts] /\ unaccounted \in [Taskflow -> BOOLEAN]
    BY DEF TaskflowInv, TaskflowTypes, Counts
<1>2. QED
    BY <1>1, SaveTaskflow

LEMMA BeginTaskflow ==
    ASSUME TaskflowInv, NEW h \in Handler, NEW op \in Taskflows!Op, NEW t \in Taskflow,
           NEW d \in Taskflows!Decision, Taskflows!Begin(h, op, t, d)
    PROVE  TaskflowInv'
<1>1. PICK r :
          /\ r = [at |-> op, taskflow |-> t, decision |-> d, run |-> 0, copy |-> store[t],
                  taskRuns |-> taskRuns, unaccounted |-> unaccounted[t], others |-> <<>>]
          /\ handler' = [handler EXCEPT ![h] = r]
          /\ UNCHANGED <<store, taskRuns, cache, agentRuns, count, agreed, confirmed, unaccounted>>
    BY DEF Taskflows!Begin
<1>2. /\ count \in Counts /\ count.drafts <= count.drafts /\ count.runs <= count.runs
      /\ store[t] \in Taskflows!Snapshot /\ unaccounted[t] \in BOOLEAN
      /\ taskRuns \subseteq 1..count.runs /\ taskRuns \in SUBSET Nat
      /\ Truthful(store[t], count.drafts, agreed, confirmed)
    BY DEF TaskflowInv, TaskflowTypes, Counts, Honest
<1>3. <<>> \in UNION {[S -> Taskflows!Snapshot] : S \in SUBSET Taskflow}
    <2>1. <<>> \in [{} -> Taskflows!Snapshot]
        OBVIOUS
    <2>2. QED
        BY <2>1
<1>4. r \in TaskflowRequest
    BY <1>1, <1>2, <1>3 DEF TaskflowRequest
<1>5. Relies(r, count, agreed, confirmed)
    BY <1>1, <1>2 DEF Relies, Taskflows!Op
<1>6. QED
    BY <1>1, <1>2, <1>4, <1>5, TaskflowStep1
       DEF TaskflowInv, TaskflowTypes, Taskflows!OnlyConfirmedRuns

LEMMA Bounds ==
    /\ MaxDrafts \in Nat /\ MaxDecisions \in Nat /\ MaxRuns \in Nat
    /\ MaxMarks \in Nat /\ MaxRestarts \in Nat
BY StoresAssumption DEF Taskflows!TaskflowDispatchAssumption

\* Counting one of the things on.
LEMMA CountsOn ==
    ASSUME count \in Counts,
           NEW field \in {"drafts", "decisions", "runs", "marks", "restarts"},
           Taskflows!Counted(field)
    PROVE  /\ count' \in Counts /\ count.drafts <= count'.drafts /\ count.runs <= count'.runs
           /\ count'.drafts = IF field = "drafts" THEN count.drafts + 1 ELSE count.drafts
           /\ count'.runs = IF field = "runs" THEN count.runs + 1 ELSE count.runs
BY DEF Counts, Taskflows!Counted

\* Drafts.
LEMMA RedraftTaskflow ==
    ASSUME TaskflowInv, NEW h \in Handler, Taskflows!Redraft(h) \/ Taskflows!Reopen(h)
    PROVE  TaskflowInv'
<1>1. PICK s : s = handler[h].copy
    OBVIOUS
<1>2. PICK u : u = Taskflows!MarkStale(s)
    OBVIOUS
<1>3. /\ handler[h].at # "idle" /\ count.drafts < MaxDrafts
      /\ Taskflows!Counted("drafts")
      /\ taskRuns' \in {taskRuns, handler[h].taskRuns}
      /\ UNCHANGED <<cache, agentRuns, agreed, confirmed, unaccounted>>
    BY DEF Taskflows!Redraft, Taskflows!Reopen, Taskflows!At
<1>4. PICK n : n = count.drafts
    OBVIOUS
<1>5. /\ count \in Counts /\ n \in Nat /\ Truthful(s, n, agreed, confirmed)
      /\ Truthful(u, n, agreed, confirmed)
    BY <1>1, <1>2, <1>3, <1>4, TaskflowAt, StaleIsTruthful DEF Honest, Counts
<1>6. /\ count' \in Counts /\ count.drafts <= count'.drafts /\ count.runs = count'.runs
      /\ count'.drafts = n + 1
    BY <1>3, <1>4, <1>5, CountsOn
<1>7. PICK v : Taskflows!Save(h, v) /\ Truthful(v, n + 1, agreed, confirmed)
    <2>1. \/ \E st \in {"clarifying", s.status} :
                Taskflows!Save(h, [Taskflows!NewDraft(s, n + 1) EXCEPT !.status = st])
          \/ Taskflows!Save(h, Taskflows!NewDraft(u, n + 1))
        BY <1>1, <1>2, <1>4 DEF Taskflows!Redraft, Taskflows!Reopen
    <2>2. /\ Truthful(Taskflows!NewDraft(u, n + 1), n + 1, agreed, confirmed)
          /\ \A st \in {"clarifying", s.status} :
                Truthful([Taskflows!NewDraft(s, n + 1) EXCEPT !.status = st], n + 1,
                         agreed, confirmed)
        BY <1>3, <1>4, <1>5, DraftIsTruthful, Bounds
    <2>3. QED
        BY <2>1, <2>2
<1>8. cache' \in [Taskflow -> 0..MaxDrafts] /\ unaccounted' \in [Taskflow -> BOOLEAN]
    BY <1>3 DEF TaskflowInv, TaskflowTypes
<1>9. QED
    BY <1>3, <1>6, <1>7, <1>8, SaveTaskflow

LEMMA PlainTaskflow ==
    ASSUME TaskflowInv, NEW h \in Handler,
           \/ Taskflows!Resave(h) \/ Taskflows!MarkReady(h) \/ Taskflows!Reject(h)
           \/ Taskflows!SaveDispatched(h)
    PROVE  TaskflowInv'
<1>1. PICK s : s = handler[h].copy
    OBVIOUS
<1>2. handler[h].at # "idle"
    BY DEF Taskflows!Resave, Taskflows!MarkReady, Taskflows!Reject, Taskflows!SaveDispatched,
       Taskflows!At
<1>3. /\ Truthful(s, count.drafts, agreed, confirmed) /\ s \in Taskflows!Snapshot
      /\ handler[h].decision \in Taskflows!Decision
    BY <1>1, <1>2, TaskflowAt DEF Honest
<1>4. CASE Taskflows!Resave(h)
    BY <1>1, <1>2, <1>3, <1>4, PlainSaveTaskflow DEF Taskflows!Resave
<1>5. CASE Taskflows!MarkReady(h)
    BY <1>1, <1>2, <1>3, <1>5, PlainSaveTaskflow, RaiseTaskflow, ReadyIsTruthful
       DEF Taskflows!MarkReady, Taskflows!Raise
<1>6. CASE Taskflows!Reject(h)
    <2>1. PICK d \in Taskflows!Decision : d = handler[h].decision
        BY <1>3
    <2>2. PICK v : v = [s EXCEPT !.decisions[d].status = "rejected"]
        OBVIOUS
    <2>3. PICK r : r = [s.decisions[d] EXCEPT !.status = "rejected"]
        OBVIOUS
    <2>4. /\ r \in [status : {"absent", "requested", "confirmed", "rejected"},
                    brief : 0..MaxDrafts, stale : BOOLEAN]
          /\ r.status = "rejected"
        BY <1>3, <2>3 DEF Taskflows!Snapshot
    <2>5. v = [s EXCEPT !.decisions[d] = r]
        BY <2>2, <2>3
    <2>6. Truthful(v, count.drafts, agreed, confirmed)
        BY <1>3, <2>4, <2>5, DecisionIsTruthful
    <2>7. QED
        BY <1>1, <1>2, <1>6, <2>1, <2>2, <2>6, PlainSaveTaskflow, RaiseTaskflow
           DEF Taskflows!Reject, Taskflows!Raise
<1>7. CASE Taskflows!SaveDispatched(h)
    <2>1. /\ Truthful([s EXCEPT !.status = "dispatched"], count.drafts, agreed, confirmed)
        BY <1>3, StatusIsFree
    <2>2. PICK v : Taskflows!Save(h, v) /\ Truthful(v, count.drafts, agreed, confirmed)
        BY <1>1, <1>3, <1>7, <2>1 DEF Taskflows!SaveDispatched
    <2>3. QED
        BY <1>2, <1>7, <2>2, PlainSaveTaskflow DEF Taskflows!SaveDispatched
<1>8. QED
    BY <1>4, <1>5, <1>6, <1>7

LEMMA ConfirmTaskflow ==
    ASSUME TaskflowInv, NEW h \in Handler, Taskflows!Confirm(h)
    PROVE  TaskflowInv'
<1>1. PICK s : s = handler[h].copy
    OBVIOUS
<1>2. handler[h].at # "idle"
    BY DEF Taskflows!Confirm, Taskflows!At
<1>3. /\ Truthful(s, count.drafts, agreed, confirmed) /\ count \in Counts
      /\ count.drafts <= count.drafts
      /\ cache \in [Taskflow -> 0..MaxDrafts] /\ unaccounted \in [Taskflow -> BOOLEAN]
    BY <1>1, <1>2, TaskflowAt DEF Honest, Counts, TaskflowInv, TaskflowTypes
<1>4. PICK v : v = Taskflows!Confirmed(s)
    OBVIOUS
<1>5. Truthful(v, count.drafts, agreed, confirmed \cup {s.content})
    BY <1>3, <1>4, ConfirmedIsTruthful
<1>6. CASE /\ Taskflows!Save(h, v) /\ confirmed' = confirmed \cup {s.content}
           /\ UNCHANGED <<taskRuns, cache, agentRuns, count, agreed, unaccounted>>
    BY <1>2, <1>3, <1>5, <1>6, SaveTaskflow
<1>7. QED
    BY <1>1, <1>4, <1>6, RaiseTaskflow DEF Taskflows!Confirm, Taskflows!Raise

LEMMA CompileTaskflow ==
    ASSUME TaskflowInv, NEW h \in Handler, Taskflows!Compile(h)
    PROVE  TaskflowInv'
<1>1. PICK s : s = handler[h].copy
    OBVIOUS
<1>2. handler[h].at # "idle"
    BY DEF Taskflows!Compile, Taskflows!At
<1>3. /\ Truthful(s, count.drafts, agreed, confirmed) /\ count \in Counts
      /\ s \in Taskflows!Snapshot /\ count.drafts <= count.drafts
      /\ cache \in [Taskflow -> 0..MaxDrafts] /\ unaccounted \in [Taskflow -> BOOLEAN]
      /\ handler[h].taskflow \in Taskflow /\ handler[h].unaccounted \in BOOLEAN
    BY <1>1, <1>2, TaskflowAt DEF Honest, Counts, TaskflowInv, TaskflowTypes, Truthful
<1>4. PICK v : v = Taskflows!Compiled(s)
    OBVIOUS
<1>5. PICK t : t = handler[h].taskflow
    OBVIOUS
<1>6. CASE /\ Taskflows!Fresh(s) /\ taskRuns' = handler[h].taskRuns
           /\ Taskflows!Save(h, v) /\ cache' = [cache EXCEPT ![t] = s.content]
           /\ unaccounted' = [unaccounted EXCEPT ![t] =
                 unaccounted[t] /\ ~handler[h].unaccounted]
           /\ UNCHANGED <<agentRuns, count, agreed, confirmed>>
    <2>1. Truthful(v, count.drafts, agreed, confirmed) /\ s.content \in confirmed
        BY <1>3, <1>4, <1>6, CompiledIsTruthful DEF Taskflows!Fresh
    <2>2. s.content \in 0..MaxDrafts
        BY <1>3 DEF Taskflows!Snapshot
    <2>3. /\ cache' \in [Taskflow -> 0..MaxDrafts]
          /\ \A u \in Taskflow : cache'[u] = cache[u] \/ cache'[u] = s.content
        BY <1>3, <1>6, <2>2
    <2>4. unaccounted' \in [Taskflow -> BOOLEAN]
        BY <1>3, <1>6
    <2>5. QED
        BY <1>2, <1>3, <1>6, <2>1, <2>3, <2>4, SaveTaskflow
<1>7. QED
    BY <1>1, <1>4, <1>5, <1>6, RaiseTaskflow DEF Taskflows!Compile, Taskflows!Raise

LEMMA RequestTaskflow ==
    ASSUME TaskflowInv, NEW h \in Handler, Taskflows!RequestDecision(h)
    PROVE  TaskflowInv'
<1>1. PICK s : s = handler[h].copy
    OBVIOUS
<1>2. handler[h].at # "idle"
    BY DEF Taskflows!RequestDecision, Taskflows!At
<1>3. /\ Truthful(s, count.drafts, agreed, confirmed) /\ count \in Counts
      /\ s \in Taskflows!Snapshot
      /\ cache \in [Taskflow -> 0..MaxDrafts] /\ unaccounted \in [Taskflow -> BOOLEAN]
    BY <1>1, <1>2, TaskflowAt DEF Honest, TaskflowInv, TaskflowTypes, Truthful
<1>4. PICK d : d = count.decisions + 1
    OBVIOUS
<1>5. PICK r : r = [status |-> "requested", brief |-> s.confirmed, stale |-> FALSE]
    OBVIOUS
<1>6. PICK v : v = [s EXCEPT !.decisions[d] = r]
    OBVIOUS
<1>7. CASE /\ count.decisions < MaxDecisions /\ Taskflows!Save(h, v)
           /\ Taskflows!Counted("decisions")
           /\ UNCHANGED <<taskRuns, cache, agentRuns, agreed, confirmed, unaccounted>>
    <2>1. d \in Taskflows!Decision
        BY <1>3, <1>4, <1>7, Bounds DEF Taskflows!Decision, Counts
    <2>2. r \in [status : {"absent", "requested", "confirmed", "rejected"},
                 brief : 0..MaxDrafts, stale : BOOLEAN]
        BY <1>3, <1>5 DEF Taskflows!Snapshot
    <2>3. Truthful(v, count.drafts, agreed, confirmed)
        BY <1>3, <1>5, <1>6, <2>1, <2>2, DecisionIsTruthful
    <2>4. /\ count' \in Counts /\ count.drafts <= count'.drafts
          /\ count'.drafts = count.drafts /\ count'.runs = count.runs
        BY <1>3, <1>7, CountsOn
    <2>5. QED
        BY <1>2, <1>3, <1>7, <2>3, <2>4, SaveTaskflow
<1>8. QED
    BY <1>1, <1>4, <1>5, <1>6, <1>7, RaiseTaskflow
       DEF Taskflows!RequestDecision, Taskflows!Raise

LEMMA AgreeTaskflow ==
    ASSUME TaskflowInv, NEW h \in Handler, Taskflows!Agree(h)
    PROVE  TaskflowInv'
<1>1. PICK s : s = handler[h].copy
    OBVIOUS
<1>2. handler[h].at # "idle"
    BY DEF Taskflows!Agree, Taskflows!At
<1>3. /\ Truthful(s, count.drafts, agreed, confirmed) /\ count \in Counts
      /\ s \in Taskflows!Snapshot /\ count.drafts <= count.drafts
      /\ cache \in [Taskflow -> 0..MaxDrafts] /\ unaccounted \in [Taskflow -> BOOLEAN]
      /\ handler[h].decision \in Taskflows!Decision
    BY <1>1, <1>2, TaskflowAt DEF Honest, Counts, TaskflowInv, TaskflowTypes, Truthful
<1>4. PICK d : d = handler[h].decision
    OBVIOUS
<1>5. PICK r : r = [s.decisions[d] EXCEPT !.status = "confirmed"]
    OBVIOUS
<1>6. PICK u : u = [s EXCEPT !.decisions[d] = r]
    OBVIOUS
<1>7. r \in [status : {"absent", "requested", "confirmed", "rejected"},
             brief : 0..MaxDrafts, stale : BOOLEAN]
    BY <1>3, <1>4, <1>5 DEF Taskflows!Snapshot
<1>8. Truthful(u, count.drafts, agreed \cup {d}, confirmed)
    BY <1>3, <1>4, <1>6, <1>7, DecisionIsTruthful
<1>9. ASSUME NEW status \in {s.status, "compiled"},
             Taskflows!Save(h, [s EXCEPT !.decisions[d].status = "confirmed",
                                         !.status = status]),
             agreed' = agreed \cup {d},
             UNCHANGED <<taskRuns, cache, agentRuns, count, confirmed, unaccounted>>
      PROVE  TaskflowInv'
    <2>1. PICK v : v = [u EXCEPT !.status = status]
        OBVIOUS
    <2>2. v = [s EXCEPT !.decisions[d].status = "confirmed", !.status = status]
        BY <1>5, <1>6, <2>1
    <2>3. status \in {"clarifying", "confirmed", "compiled", "dispatched"}
        BY <1>3 DEF Taskflows!Snapshot
    <2>4. Truthful(v, count.drafts, agreed \cup {d}, confirmed)
        BY <1>8, <2>1, <2>3, StatusIsFree
    <2>5. Taskflows!Save(h, v)
        BY <1>9, <2>2
    <2>6. QED
        BY <1>2, <1>3, <1>9, <2>4, <2>5, SaveTaskflow
<1>10. QED
    BY <1>1, <1>4, <1>9, RaiseTaskflow DEF Taskflows!Agree, Taskflows!Raise

LEMMA OverrideTaskflow ==
    ASSUME TaskflowInv, NEW h \in Handler, Taskflows!Override(h) \/ Taskflows!PatchOwn(h)
    PROVE  TaskflowInv'
<1>1. PICK s : s = handler[h].copy
    OBVIOUS
<1>2. handler[h].at # "idle"
    BY DEF Taskflows!Override, Taskflows!PatchOwn, Taskflows!At
<1>3. PICK v : v = Taskflows!MarkStale(s)
    OBVIOUS
<1>4. /\ Truthful(v, count.drafts, agreed, confirmed) /\ count \in Counts
      /\ cache \in [Taskflow -> 0..MaxDrafts] /\ unaccounted \in [Taskflow -> BOOLEAN]
      /\ count.drafts <= count.drafts
    BY <1>1, <1>2, <1>3, TaskflowAt, StaleIsTruthful
       DEF Honest, Counts, TaskflowInv, TaskflowTypes
<1>5. CASE /\ Taskflows!Save(h, v)
           /\ count' = count \/ Taskflows!Counted("marks")
           /\ unaccounted' \in [Taskflow -> BOOLEAN]
           /\ UNCHANGED <<taskRuns, cache, agentRuns, agreed, confirmed>>
    <2>1. /\ count' \in Counts /\ count.drafts <= count'.drafts
          /\ count'.drafts = count.drafts /\ count'.runs = count.runs
        BY <1>4, <1>5, CountsOn
    <2>2. QED
        BY <1>2, <1>4, <1>5, <2>1, SaveTaskflow
<1>6. CASE Taskflows!Override(h)
    <2>1. [unaccounted EXCEPT ![handler[h].taskflow] = TRUE] \in [Taskflow -> BOOLEAN]
        BY <1>4
    <2>2. QED
        BY <1>1, <1>3, <1>5, <1>6, <2>1, RaiseTaskflow DEF Taskflows!Override, Taskflows!Raise
<1>7. CASE Taskflows!PatchOwn(h)
    <2>1. [t \in Taskflow |-> TRUE] \in [Taskflow -> BOOLEAN]
        OBVIOUS
    <2>2. QED
        BY <1>1, <1>3, <1>5, <1>7, <2>1 DEF Taskflows!PatchOwn
<1>8. QED
    BY <1>6, <1>7

\* Neither confirmations nor drafts change: what a request relies on still holds
\* of it when its "at" and "run" do, or its other copies.
LEMMA SubmitTaskflow ==
    ASSUME TaskflowInv, NEW h \in Handler, Taskflows!Submit(h) \/ Taskflows!SubmitNowhere(h)
    PROVE  TaskflowInv'
<1>1. PICK q : q = handler[h]
    OBVIOUS
<1>2. q.at = "dispatch"
    BY <1>1 DEF Taskflows!Submit, Taskflows!SubmitNowhere, Taskflows!At
<1>3. /\ q \in [at : Taskflows!Op \cup {"submitted", "linked", "patched"},
                taskflow : Taskflow, decision : Taskflows!Decision, run : Nat,
                copy : Taskflows!Snapshot, taskRuns : SUBSET Nat, unaccounted : BOOLEAN,
                others : UNION {[S -> Taskflows!Snapshot] : S \in SUBSET Taskflow}]
      /\ Relies(q, count, agreed, confirmed)
      /\ Truthful(q.copy, count.drafts, agreed, confirmed) /\ count \in Counts
      /\ cache \in [Taskflow -> 0..MaxDrafts] /\ unaccounted \in [Taskflow -> BOOLEAN]
    BY <1>1, <1>2, TaskflowAt DEF Honest, TaskflowInv, TaskflowTypes
<1>4. PICK plan, r, n :
          /\ plan = Taskflows!PlanOf(q.taskflow, q.copy) /\ r = count.runs + 1
          /\ n = [q EXCEPT !.at = "submitted", !.run = r]
    OBVIOUS
<1>5. CASE ~ (Taskflows!Dispatchable(q.copy, q.decision) /\ plan # 0)
    BY <1>1, <1>4, <1>5, RaiseTaskflow
       DEF Taskflows!Submit, Taskflows!SubmitNowhere, Taskflows!Raise
<1>6. CASE Taskflows!Raise(h, FALSE)
    BY <1>6, RaiseTaskflow DEF Taskflows!Raise
<1>7. CASE /\ Taskflows!Dispatchable(q.copy, q.decision) /\ plan # 0
           /\ cache' = [cache EXCEPT ![q.taskflow] = plan]
           /\ \/ agentRuns' = [x \in DOMAIN agentRuns \cup {r} |->
                    IF x = r THEN [decision |-> q.decision, plan |-> plan,
                                   unaccounted |-> q.unaccounted]
                    ELSE agentRuns[x]]
              \/ UNCHANGED agentRuns
           /\ handler' = [handler EXCEPT ![h] = n]
           /\ Taskflows!Counted("runs")
           /\ UNCHANGED <<store, taskRuns, agreed, confirmed, unaccounted>>
    <2>1. q.copy.content \in 0..MaxDrafts /\ q.taskflow \in Taskflow
        BY <1>3 DEF Taskflows!Snapshot
    <2>2. q.copy.content \in confirmed /\ q.decision \in agreed
        BY <1>3, <1>7 DEF Taskflows!Dispatchable, Taskflows!Fresh, Truthful
    <2>3. plan \in confirmed /\ plan \in 0..MaxDrafts
        BY <1>3, <1>4, <1>7, <2>1, <2>2 DEF Taskflows!PlanOf, TaskflowInv
    <2>4. /\ count' \in Counts /\ count.drafts <= count'.drafts /\ count.runs <= count'.runs
          /\ count'.drafts = count.drafts /\ count'.runs = r
        BY <1>3, <1>4, <1>7, CountsOn
    <2>5. /\ r \in Nat /\ r \in 1..count'.runs /\ 1..count.runs \subseteq 1..count'.runs
        BY <1>3, <1>4, <2>4 DEF Counts
    <2>6. n \in TaskflowRequest /\ n.at = "submitted" /\ n.run = r /\ n.copy = q.copy
          /\ n.others = q.others /\ n.taskRuns = q.taskRuns /\ n.taskflow = q.taskflow
        BY <1>3, <1>4, <2>5 DEF TaskflowRequest
    <2>7. Relies(n, count', agreed', confirmed')
        BY <1>3, <1>7, <2>4, <2>5, <2>6 DEF Relies
    <2>8. /\ cache' \in [Taskflow -> 0..MaxDrafts]
          /\ \A t \in Taskflow : cache'[t] = cache[t] \/ cache'[t] \in confirmed'
        BY <1>3, <1>7, <2>1, <2>3
    <2>9. DOMAIN agentRuns' \subseteq 1..count'.runs
        BY <1>7, <2>5 DEF TaskflowInv
    <2>10. Taskflows!OnlyConfirmedRuns'
        BY <1>7, <2>2, <2>3 DEF TaskflowInv, Taskflows!OnlyConfirmedRuns
    <2>11. taskRuns' \subseteq 1..count'.runs
        BY <1>7, <2>5 DEF TaskflowInv
    <2>12. store \in [Taskflow -> Taskflows!Snapshot]
        BY DEF TaskflowInv, TaskflowTypes
    <2>13. QED
        BY <1>3, <1>7, <2>4, <2>6, <2>7, <2>8, <2>9, <2>10, <2>11, <2>12, TaskflowStep1
<1>8. QED
    BY <1>1, <1>4, <1>5, <1>7 DEF Taskflows!Submit, Taskflows!SubmitNowhere, Taskflows!Raise

\* A step that changes a request, and saves snapshots or the project on its way.
LEMMA OnTheWayTaskflow ==
    ASSUME TaskflowInv, NEW h \in Handler, NEW n \in TaskflowRequest,
           handler' = [handler EXCEPT ![h] = n], Relies(n, count, agreed, confirmed),
           store' \in [Taskflow -> Taskflows!Snapshot],
           \A t \in Taskflow : \/ store'[t] = store[t]
                               \/ Truthful(store'[t], count.drafts, agreed, confirmed),
           taskRuns' \subseteq 1..count.runs,
           count' = count \/ Taskflows!Counted("marks"),
           UNCHANGED <<cache, agentRuns, agreed, confirmed, unaccounted>>
    PROVE  TaskflowInv'
<1>1. /\ count \in Counts /\ count.drafts <= count.drafts /\ count.runs <= count.runs
      /\ cache \in [Taskflow -> 0..MaxDrafts] /\ unaccounted \in [Taskflow -> BOOLEAN]
    BY DEF TaskflowInv, TaskflowTypes, Counts
<1>2. /\ count' \in Counts /\ count.drafts <= count'.drafts /\ count.runs <= count'.runs
      /\ count'.drafts = count.drafts /\ count'.runs = count.runs
    BY <1>1, CountsOn
<1>3. Relies(n, count', agreed', confirmed')
    BY <1>2 DEF Relies
<1>4. DOMAIN agentRuns' \subseteq 1..count'.runs /\ Taskflows!OnlyConfirmedRuns'
    BY <1>2 DEF TaskflowInv, Taskflows!OnlyConfirmedRuns
<1>5. QED
    BY <1>1, <1>2, <1>3, <1>4, TaskflowStep1

LEMMA SaveProjectTaskflow ==
    ASSUME TaskflowInv, NEW h \in Handler, Taskflows!SaveProject(h)
    PROVE  TaskflowInv'
<1>1. PICK q, n : q = handler[h] /\ n = [q EXCEPT !.at = "linked"]
    OBVIOUS
<1>2. /\ q.at = "submitted" /\ taskRuns' = q.taskRuns \cup {q.run}
      /\ handler' = [handler EXCEPT ![h] = n]
      /\ UNCHANGED <<store, cache, agentRuns, count, agreed, confirmed, unaccounted>>
    BY <1>1 DEF Taskflows!SaveProject, Taskflows!At
<1>3. /\ q \in [at : Taskflows!Op \cup {"submitted", "linked", "patched"},
                taskflow : Taskflow, decision : Taskflows!Decision, run : Nat,
                copy : Taskflows!Snapshot, taskRuns : SUBSET Nat, unaccounted : BOOLEAN,
                others : UNION {[S -> Taskflows!Snapshot] : S \in SUBSET Taskflow}]
      /\ Relies(q, count, agreed, confirmed)
      /\ store \in [Taskflow -> Taskflows!Snapshot]
    BY <1>1, <1>2, TaskflowAt DEF TaskflowInv, TaskflowTypes
<1>4. n \in TaskflowRequest /\ n.at = "linked" /\ n.copy = q.copy
      /\ n.others = q.others /\ n.taskRuns = q.taskRuns /\ n.taskflow = q.taskflow
    BY <1>1, <1>3 DEF TaskflowRequest
<1>5. Relies(n, count, agreed, confirmed) /\ taskRuns' \subseteq 1..count.runs
    BY <1>2, <1>3, <1>4 DEF Relies
<1>6. QED
    BY <1>2, <1>3, <1>4, <1>5, OnTheWayTaskflow

LEMMA PatchProjectTaskflow ==
    ASSUME TaskflowInv, NEW h \in Handler, Taskflows!PatchProject(h)
    PROVE  TaskflowInv'
<1>1. PICK q, others, n :
          /\ q = handler[h]
          /\ others = [t \in Taskflow \ {q.taskflow} |-> store[t]]
          /\ n = [q EXCEPT !.at = "patched", !.others = others]
    OBVIOUS
<1>2. /\ q.at = "patch" /\ taskRuns' = q.taskRuns
      /\ handler' = [handler EXCEPT ![h] = n]
      /\ Taskflows!Counted("marks")
      /\ UNCHANGED <<store, cache, agentRuns, agreed, confirmed, unaccounted>>
    BY <1>1 DEF Taskflows!PatchProject, Taskflows!At
<1>3. /\ q \in [at : Taskflows!Op \cup {"submitted", "linked", "patched"},
                taskflow : Taskflow, decision : Taskflows!Decision, run : Nat,
                copy : Taskflows!Snapshot, taskRuns : SUBSET Nat, unaccounted : BOOLEAN,
                others : UNION {[S -> Taskflows!Snapshot] : S \in SUBSET Taskflow}]
      /\ Relies(q, count, agreed, confirmed)
      /\ store \in [Taskflow -> Taskflows!Snapshot]
    BY <1>1, <1>2, TaskflowAt DEF TaskflowInv, TaskflowTypes
<1>4. /\ others \in [Taskflow \ {q.taskflow} -> Taskflows!Snapshot]
      /\ \A t \in DOMAIN others : Truthful(others[t], count.drafts, agreed, confirmed)
    BY <1>1, <1>3 DEF TaskflowInv, Honest
<1>5. others \in UNION {[S -> Taskflows!Snapshot] : S \in SUBSET Taskflow}
    BY <1>4
<1>6. n \in TaskflowRequest /\ n.at = "patched" /\ n.copy = q.copy
      /\ n.others = others /\ n.taskRuns = q.taskRuns /\ n.taskflow = q.taskflow
    BY <1>1, <1>3, <1>5 DEF TaskflowRequest
<1>7. Relies(n, count, agreed, confirmed) /\ taskRuns' \subseteq 1..count.runs
    BY <1>2, <1>3, <1>4, <1>6 DEF Relies
<1>8. QED
    BY <1>2, <1>3, <1>6, <1>7, OnTheWayTaskflow

LEMMA PatchOtherTaskflow ==
    ASSUME TaskflowInv, NEW h \in Handler, Taskflows!PatchOther(h)
    PROVE  TaskflowInv'
<1>1. PICK t \in DOMAIN handler[h].others :
          /\ store' = [store EXCEPT ![t] = Taskflows!MarkStale(handler[h].others[t])]
          /\ handler' = [handler EXCEPT ![h].others =
                [u \in DOMAIN handler[h].others \ {t} |-> handler[h].others[u]]]
    BY DEF Taskflows!PatchOther
<1>2. PICK q : q = handler[h]
    OBVIOUS
<1>3. PICK others, n :
          /\ others = [u \in DOMAIN handler[h].others \ {t} |-> handler[h].others[u]]
          /\ n = [q EXCEPT !.others = others]
    OBVIOUS
<1>4. /\ q.at = "patched" /\ handler' = [handler EXCEPT ![h] = n]
      /\ store' = [store EXCEPT ![t] = Taskflows!MarkStale(q.others[t])]
      /\ UNCHANGED <<taskRuns, cache, agentRuns, count, agreed, confirmed, unaccounted>>
    BY <1>1, <1>2, <1>3 DEF Taskflows!PatchOther, Taskflows!At
<1>5. /\ q \in [at : Taskflows!Op \cup {"submitted", "linked", "patched"},
                taskflow : Taskflow, decision : Taskflows!Decision, run : Nat,
                copy : Taskflows!Snapshot, taskRuns : SUBSET Nat, unaccounted : BOOLEAN,
                others : UNION {[S -> Taskflows!Snapshot] : S \in SUBSET Taskflow}]
      /\ Relies(q, count, agreed, confirmed)
      /\ store \in [Taskflow -> Taskflows!Snapshot] /\ taskRuns \subseteq 1..count.runs
    BY <1>2, <1>4, TaskflowAt DEF TaskflowInv, TaskflowTypes
<1>6. PICK S \in SUBSET Taskflow : q.others \in [S -> Taskflows!Snapshot]
    BY <1>5
<1>7. /\ others \in [S \ {t} -> Taskflows!Snapshot] /\ S \ {t} \in SUBSET Taskflow
      /\ t \in Taskflow /\ DOMAIN others \subseteq DOMAIN q.others
      /\ \A u \in DOMAIN others : others[u] = q.others[u]
    BY <1>1, <1>2, <1>3, <1>6
<1>8. others \in UNION {[R -> Taskflows!Snapshot] : R \in SUBSET Taskflow}
    BY <1>7
<1>9. n \in TaskflowRequest /\ n.at = "patched" /\ n.copy = q.copy
      /\ n.others = others /\ n.taskRuns = q.taskRuns /\ n.taskflow = q.taskflow
    BY <1>3, <1>4, <1>5, <1>8 DEF TaskflowRequest
<1>10. Relies(n, count, agreed, confirmed)
    BY <1>5, <1>7, <1>9, <1>4 DEF Relies
<1>11. Truthful(Taskflows!MarkStale(q.others[t]), count.drafts, agreed, confirmed)
    BY <1>1, <1>2, <1>5, StaleIsTruthful DEF Relies
<1>12. /\ store' \in [Taskflow -> Taskflows!Snapshot]
       /\ \A u \in Taskflow : \/ store'[u] = store[u]
                              \/ Truthful(store'[u], count.drafts, agreed, confirmed)
    BY <1>4, <1>5, <1>7, <1>11 DEF Truthful
<1>13. QED
    BY <1>4, <1>5, <1>9, <1>10, <1>12, OnTheWayTaskflow

LEMMA RestartTaskflow ==
    ASSUME TaskflowInv, Taskflows!Restart
    PROVE  TaskflowInv'
<1>1. /\ handler' = [h \in Handler |-> Taskflows!Free]
      /\ cache' = [t \in Taskflow |-> 0]
      /\ Taskflows!Counted("restarts")
      /\ UNCHANGED <<store, taskRuns, agentRuns, agreed, confirmed, unaccounted>>
    BY DEF Taskflows!Restart
<1>2. /\ count' \in Counts /\ count'.drafts = count.drafts /\ count'.runs = count.runs
    BY <1>1, CountsOn DEF TaskflowInv, TaskflowTypes
<1>3. TaskflowTypes' /\ Busy' = {}
    BY <1>1, <1>2, FreeRequest, Bounds DEF TaskflowInv, TaskflowTypes, Busy
<1>4. \A t \in Taskflow : Honest(store[t])'
    BY <1>1, <1>2 DEF TaskflowInv, Honest
<1>5. QED
    BY <1>1, <1>2, <1>3, <1>4 DEF TaskflowInv, Taskflows!OnlyConfirmedRuns

LEMMA TaskflowNext ==
    ASSUME TaskflowInv, Taskflows!Next
    PROVE  TaskflowInv'
<1>1. ASSUME NEW h \in Handler,
             \/ \E op \in Taskflows!Op, t \in Taskflow, d \in Taskflows!Decision :
                   Taskflows!Begin(h, op, t, d)
             \/ Taskflows!Redraft(h) \/ Taskflows!Reopen(h) \/ Taskflows!Resave(h)
             \/ Taskflows!MarkReady(h) \/ Taskflows!Confirm(h) \/ Taskflows!Compile(h)
             \/ Taskflows!RequestDecision(h) \/ Taskflows!Agree(h) \/ Taskflows!Reject(h)
             \/ Taskflows!Override(h) \/ Taskflows!Submit(h) \/ Taskflows!SubmitNowhere(h)
             \/ Taskflows!SaveProject(h) \/ Taskflows!SaveDispatched(h)
             \/ Taskflows!PatchProject(h) \/ Taskflows!PatchOther(h) \/ Taskflows!PatchOwn(h)
      PROVE  TaskflowInv'
    BY <1>1, BeginTaskflow, RedraftTaskflow, PlainTaskflow, ConfirmTaskflow, CompileTaskflow,
       RequestTaskflow, AgreeTaskflow, OverrideTaskflow, SubmitTaskflow, SaveProjectTaskflow,
       PatchProjectTaskflow, PatchOtherTaskflow
<1>2. QED
    BY <1>1, RestartTaskflow DEF Taskflows!Next

LEMMA TaskflowStays ==
    ASSUME TaskflowInv, UNCHANGED taskflowVars
    PROVE  TaskflowInv'
BY DEF taskflowVars, TaskflowInv, TaskflowTypes, Honest, Busy, Taskflows!OnlyConfirmedRuns

LEMMA TaskflowInit ==
    ASSUME Taskflows!Init
    PROVE  TaskflowInv
<1> USE DEF Taskflows!Init
<1>1. /\ Taskflows!New \in Taskflows!Snapshot
      /\ Truthful(Taskflows!New, 0, {}, {})
    BY Bounds DEF Taskflows!New, Taskflows!Snapshot, Taskflows!NoDecision, Truthful
<1>2. TaskflowTypes
    BY <1>1, FreeRequest, Bounds DEF TaskflowTypes, Counts
<1>3. \A t \in Taskflow : Honest(store[t])
    BY <1>1 DEF Honest
<1>4. Busy = {} /\ DOMAIN agentRuns = {}
    BY FreeRequest DEF Busy
<1>5. QED
    BY <1>2, <1>3, <1>4 DEF TaskflowInv, Taskflows!OnlyConfirmedRuns

-----------------------------------------------------------------------------
(* Taskflows: requests that come one after another.                        *)

\* The request at work is the only one.
LEMMA Alone ==
    ASSUME OneByOneInv, NEW h \in Handler, handler[h].at # "idle"
    PROVE  Busy = {h} /\ UpToDate(h)
BY DEF OneByOneInv, OneByOne, Busy

\* The request is done; what is marked since the last compilation is marked in
\* the store.
LEMMA DoneOneByOne ==
    ASSUME TaskflowInv, OneByOneInv, NEW h \in Handler,
           handler' = [handler EXCEPT ![h] = Taskflows!Free], handler[h].at # "idle",
           \A t \in Taskflow : unaccounted'[t] => store'[t].stale,
           UNCHANGED agentRuns
    PROVE  OneByOneInv'
<1>1. Busy = {h} /\ handler \in [Handler -> TaskflowRequest]
    BY Alone DEF TaskflowInv, TaskflowTypes
<1>2. Busy' = {}
    BY <1>1, FreeRequest DEF Busy
<1>3. QED
    BY <1>2 DEF OneByOneInv, OneByOne, Taskflows!RecompiledFirst

LEMMA RaiseOneByOne ==
    ASSUME TaskflowInv, OneByOneInv, NEW h \in Handler, handler[h].at # "idle",
           handler' = [handler EXCEPT ![h] = Taskflows!Free],
           UNCHANGED <<store, agentRuns, unaccounted>>
    PROVE  OneByOneInv'
BY DoneOneByOne DEF OneByOneInv

\* The copy is saved with the mark it has, or marked.
LEMMA SaveOneByOne ==
    ASSUME TaskflowInv, OneByOneInv, NEW h \in Handler, handler[h].at # "idle",
           NEW s, Taskflows!Save(h, s), s.stale = handler[h].copy.stale \/ s.stale,
           \A t \in Taskflow \ {handler[h].taskflow} :
              unaccounted'[t] => unaccounted[t] \/ store[t].stale,
           unaccounted'[handler[h].taskflow] => s.stale \/ unaccounted[handler[h].taskflow],
           UNCHANGED agentRuns
    PROVE  OneByOneInv'
<1>1. /\ handler' = [handler EXCEPT ![h] = Taskflows!Free]
      /\ store' = [store EXCEPT ![handler[h].taskflow] = s]
    BY DEF Taskflows!Save
<1>2. /\ handler[h].taskflow \in Taskflow /\ store \in [Taskflow -> Taskflows!Snapshot]
    BY TaskflowAt DEF TaskflowInv, TaskflowTypes
<1>3. handler[h].copy.stale = store[handler[h].taskflow].stale
    BY Alone DEF UpToDate
<1>4. ASSUME NEW t \in Taskflow, unaccounted'[t]
      PROVE  store'[t].stale
    <2>1. unaccounted[t] => store[t].stale
        BY DEF OneByOneInv
    <2>2. CASE t = handler[h].taskflow
        BY <1>1, <1>2, <1>3, <1>4, <2>1, <2>2
    <2>3. CASE t # handler[h].taskflow
        BY <1>1, <1>2, <1>4, <2>1, <2>3
    <2>4. QED
        BY <2>2, <2>3
<1>5. QED
    BY <1>1, <1>4, DoneOneByOne

\* The request goes on; its copy is still up to date.
LEMMA GoesOnOneByOne ==
    ASSUME TaskflowInv, OneByOneInv, NEW h \in Handler, OneByOne', NEW r,
           handler' = [handler EXCEPT ![h] = r], r.at # "idle",
           \A t \in Taskflow : store[t].stale => store'[t].stale,
           UNCHANGED unaccounted,
           r.copy.stale = store'[r.taskflow].stale,
           r.unaccounted = unaccounted[r.taskflow],
           r.at = "patched" => \A u \in Taskflow \ DOMAIN r.others :
                                  u # r.taskflow => store'[u].stale,
           Taskflows!RecompiledFirst'
    PROVE  OneByOneInv'
<1>1. handler'[h] = r
    BY DEF TaskflowInv, TaskflowTypes
<1>2. Busy' = {h}
    BY <1>1 DEF OneByOne, Busy
<1>3. \A g \in Busy' : UpToDate(g)'
    BY <1>1, <1>2 DEF UpToDate
<1>4. QED
    BY <1>3 DEF OneByOneInv

LEMMA BeginOneByOne ==
    ASSUME TaskflowInv, OneByOneInv, OneByOne', NEW h \in Handler, NEW op \in Taskflows!Op,
           NEW t \in Taskflow, NEW d \in Taskflows!Decision, Taskflows!Begin(h, op, t, d)
    PROVE  OneByOneInv'
<1>1. PICK r :
          /\ r = [at |-> op, taskflow |-> t, decision |-> d, run |-> 0, copy |-> store[t],
                  taskRuns |-> taskRuns, unaccounted |-> unaccounted[t], others |-> <<>>]
          /\ handler' = [handler EXCEPT ![h] = r]
          /\ UNCHANGED <<store, agentRuns, unaccounted>>
    BY DEF Taskflows!Begin
<1>2. /\ r.at # "idle" /\ r.at # "patched" /\ r.taskflow = t /\ r.copy = store[t]
      /\ r.unaccounted = unaccounted[t]
    BY <1>1 DEF Taskflows!Op
<1>3. Taskflows!RecompiledFirst'
    BY <1>1 DEF OneByOneInv, Taskflows!RecompiledFirst
<1>4. QED
    BY <1>1, <1>2, <1>3, GoesOnOneByOne

\* Operations on a snapshot that keep its mark.
LEMMA KeepsMark ==
    ASSUME NEW s \in Taskflows!Snapshot
    PROVE  /\ \A n : Taskflows!NewDraft(s, n).stale = s.stale
           /\ \A n, st : [Taskflows!NewDraft(s, n) EXCEPT !.status = st].stale = s.stale
           /\ \A n : Taskflows!NewDraft(Taskflows!MarkStale(s), n).stale
           /\ \A st : [s EXCEPT !.status = st].stale = s.stale
           /\ [s EXCEPT !.brief = "ready"].stale = s.stale
           /\ Taskflows!Confirmed(s).stale = s.stale
           /\ Taskflows!MarkStale(s).stale
BY DEF Taskflows!Snapshot, Taskflows!NewDraft, Taskflows!MarkStale, Taskflows!Confirmed

LEMMA SavesOneByOne ==
    ASSUME TaskflowInv, OneByOneInv, NEW h \in Handler,
           \/ Taskflows!Redraft(h) \/ Taskflows!Reopen(h) \/ Taskflows!Resave(h)
           \/ Taskflows!MarkReady(h) \/ Taskflows!Confirm(h)
           \/ Taskflows!RequestDecision(h) \/ Taskflows!Agree(h) \/ Taskflows!Reject(h)
           \/ Taskflows!SaveDispatched(h)
    PROVE  OneByOneInv'
<1>1. PICK s : s = handler[h].copy
    OBVIOUS
<1>2. handler[h].at # "idle" /\ UNCHANGED <<agentRuns, unaccounted>>
    BY DEF Taskflows!Redraft, Taskflows!Reopen, Taskflows!Resave, Taskflows!MarkReady,
       Taskflows!Confirm, Taskflows!RequestDecision, Taskflows!Agree, Taskflows!Reject,
       Taskflows!SaveDispatched, Taskflows!At, Taskflows!Raise
<1>3. s \in Taskflows!Snapshot
    BY <1>1, <1>2, TaskflowAt
<1>4. \/ \E v : Taskflows!Save(h, v) /\ (v.stale = s.stale \/ v.stale)
      \/ UNCHANGED store /\ handler' = [handler EXCEPT ![h] = Taskflows!Free]
    <2>1. CASE Taskflows!Redraft(h)
        <3>1. PICK n, st : Taskflows!Save(h, [Taskflows!NewDraft(s, n) EXCEPT !.status = st])
            BY <1>1, <2>1 DEF Taskflows!Redraft
        <3>2. [Taskflows!NewDraft(s, n) EXCEPT !.status = st].stale = s.stale
            BY <1>3, KeepsMark
        <3>3. QED
            BY <3>1, <3>2
    <2>2. CASE Taskflows!Reopen(h)
        BY <1>1, <1>3, <2>2, KeepsMark DEF Taskflows!Reopen
    <2>3. CASE Taskflows!Resave(h)
        BY <1>1, <1>3, <2>3, KeepsMark DEF Taskflows!Resave
    <2>4. CASE Taskflows!MarkReady(h)
        <3>1. CASE Taskflows!Save(h, [s EXCEPT !.brief = "ready"])
            BY <1>3, <3>1, KeepsMark
        <3>2. CASE UNCHANGED store /\ handler' = [handler EXCEPT ![h] = Taskflows!Free]
            BY <3>2
        <3>3. QED
            BY <1>1, <2>4, <3>1, <3>2, Zenon DEF Taskflows!MarkReady, Taskflows!Raise
    <2>5. CASE Taskflows!Confirm(h)
        BY <1>1, <1>3, <2>5, KeepsMark DEF Taskflows!Confirm, Taskflows!Raise
    <2>6. CASE Taskflows!RequestDecision(h)
        <3>1. ASSUME NEW d, NEW r, Taskflows!Save(h, [s EXCEPT !.decisions[d] = r])
              PROVE  \E v : Taskflows!Save(h, v) /\ (v.stale = s.stale \/ v.stale)
            <4>1. [s EXCEPT !.decisions[d] = r].stale = s.stale
                BY <1>3 DEF Taskflows!Snapshot
            <4>2. QED
                BY <3>1, <4>1
        <3>2. QED
            BY <1>1, <2>6, <3>1 DEF Taskflows!RequestDecision, Taskflows!Raise
    <2>7. CASE Taskflows!Agree(h)
        <3>1. ASSUME NEW d, NEW st, NEW x,
                     Taskflows!Save(h, [s EXCEPT !.decisions[d].status = x, !.status = st])
              PROVE  \E v : Taskflows!Save(h, v) /\ (v.stale = s.stale \/ v.stale)
            <4>1. [s EXCEPT !.decisions[d].status = x, !.status = st].stale = s.stale
                BY <1>3 DEF Taskflows!Snapshot
            <4>2. QED
                BY <3>1, <4>1
        <3>2. QED
            BY <1>1, <2>7, <3>1 DEF Taskflows!Agree, Taskflows!Raise
    <2>8. CASE Taskflows!Reject(h)
        <3>1. ASSUME NEW d, NEW st, Taskflows!Save(h, [s EXCEPT !.decisions[d].status = st])
              PROVE  \E v : Taskflows!Save(h, v) /\ (v.stale = s.stale \/ v.stale)
            <4>1. [s EXCEPT !.decisions[d].status = st].stale = s.stale
                BY <1>3 DEF Taskflows!Snapshot
            <4>2. QED
                BY <3>1, <4>1
        <3>2. QED
            BY <1>1, <2>8, <3>1 DEF Taskflows!Reject, Taskflows!Raise
    <2>9. CASE Taskflows!SaveDispatched(h)
        <3>1. CASE \E st : Taskflows!Save(h, [s EXCEPT !.status = st])
            BY <1>3, <3>1, KeepsMark
        <3>2. QED
            BY <1>1, <2>9, <3>1 DEF Taskflows!SaveDispatched
    <2>10. QED
        BY <2>1, <2>2, <2>3, <2>4, <2>5, <2>6, <2>7, <2>8, <2>9
<1>5. QED
    BY <1>1, <1>2, <1>4, SaveOneByOne, RaiseOneByOne

LEMMA CompileOneByOne ==
    ASSUME TaskflowInv, OneByOneInv, NEW h \in Handler, Taskflows!Compile(h)
    PROVE  OneByOneInv'
<1>1. PICK t : t = handler[h].taskflow
    OBVIOUS
<1>2. handler[h].at # "idle"
    BY DEF Taskflows!Compile, Taskflows!At
<1>3. t \in Taskflow /\ handler[h].unaccounted = unaccounted[t]
    BY <1>1, <1>2, TaskflowAt, Alone DEF UpToDate
<1>4. CASE /\ handler' = [handler EXCEPT ![h] = Taskflows!Free]
           /\ \E s : store' = [store EXCEPT ![t] = s]
           /\ unaccounted' = [unaccounted EXCEPT ![t] =
                 unaccounted[t] /\ ~handler[h].unaccounted]
           /\ UNCHANGED agentRuns
    <2>1. ~unaccounted'[t] /\ \A u \in Taskflow \ {t} : unaccounted'[u] = unaccounted[u]
        BY <1>3, <1>4 DEF TaskflowInv, TaskflowTypes
    <2>2. \A u \in Taskflow \ {t} : store'[u] = store[u]
        BY <1>4 DEF TaskflowInv, TaskflowTypes
    <2>3. QED
        BY <1>2, <1>4, <2>1, <2>2, DoneOneByOne DEF OneByOneInv
<1>5. QED
    BY <1>1, <1>2, <1>4, RaiseOneByOne DEF Taskflows!Compile, Taskflows!Raise, Taskflows!Save

LEMMA OverrideOneByOne ==
    ASSUME TaskflowInv, OneByOneInv, NEW h \in Handler, Taskflows!Override(h)
    PROVE  OneByOneInv'
<1>1. PICK v : v = Taskflows!MarkStale(handler[h].copy)
    OBVIOUS
<1>2. handler[h].at # "idle"
    BY DEF Taskflows!Override, Taskflows!At
<1>3. v.stale /\ handler[h].taskflow \in Taskflow
    BY <1>1, <1>2, TaskflowAt, KeepsMark
<1>4. CASE /\ Taskflows!Save(h, v)
           /\ unaccounted' = [unaccounted EXCEPT ![handler[h].taskflow] = TRUE]
           /\ UNCHANGED agentRuns
    <2>1. \A t \in Taskflow \ {handler[h].taskflow} : unaccounted'[t] = unaccounted[t]
        BY <1>4 DEF TaskflowInv, TaskflowTypes
    <2>2. QED
        BY <1>2, <1>3, <1>4, <2>1, SaveOneByOne
<1>5. QED
    BY <1>1, <1>2, <1>4, RaiseOneByOne DEF Taskflows!Override, Taskflows!Raise

\* The patched taskflow is the last to be marked: then all of them are.
LEMMA PatchOwnOneByOne ==
    ASSUME TaskflowInv, OneByOneInv, NEW h \in Handler, Taskflows!PatchOwn(h)
    PROVE  OneByOneInv'
<1>1. PICK v : v = Taskflows!MarkStale(handler[h].copy)
    OBVIOUS
<1>2. /\ handler[h].at = "patched" /\ DOMAIN handler[h].others = {}
      /\ Taskflows!Save(h, v) /\ UNCHANGED agentRuns
    BY <1>1 DEF Taskflows!PatchOwn, Taskflows!At
<1>3. v.stale
    BY <1>1, <1>2, TaskflowAt, KeepsMark
<1>4. \A t \in Taskflow \ {handler[h].taskflow} : store[t].stale
    BY <1>2, Alone DEF UpToDate
<1>5. QED
    BY <1>2, <1>3, <1>4, SaveOneByOne

LEMMA SubmitOneByOne ==
    ASSUME TaskflowInv, OneByOneInv, OneByOne', NEW h \in Handler,
           Taskflows!Submit(h) \/ Taskflows!SubmitNowhere(h)
    PROVE  OneByOneInv'
<1>1. PICK q : q = handler[h]
    OBVIOUS
<1>2. q.at = "dispatch"
    BY <1>1 DEF Taskflows!Submit, Taskflows!SubmitNowhere, Taskflows!At
<1>3. /\ q \in [at : Taskflows!Op \cup {"submitted", "linked", "patched"},
                taskflow : Taskflow, decision : Taskflows!Decision, run : Nat,
                copy : Taskflows!Snapshot, taskRuns : SUBSET Nat, unaccounted : BOOLEAN,
                others : UNION {[S -> Taskflows!Snapshot] : S \in SUBSET Taskflow}]
      /\ UpToDate(h)
    BY <1>1, <1>2, TaskflowAt, Alone
<1>4. PICK r, n, plan :
          /\ r = count.runs + 1 /\ plan = Taskflows!PlanOf(q.taskflow, q.copy)
          /\ n = [q EXCEPT !.at = "submitted", !.run = r]
    OBVIOUS
<1>5. CASE /\ Taskflows!Dispatchable(q.copy, q.decision)
           /\ \/ agentRuns' = [x \in DOMAIN agentRuns \cup {r} |->
                    IF x = r THEN [decision |-> q.decision, plan |-> plan,
                                   unaccounted |-> q.unaccounted]
                    ELSE agentRuns[x]]
              \/ UNCHANGED agentRuns
           /\ handler' = [handler EXCEPT ![h] = n]
           /\ UNCHANGED <<store, unaccounted>>
    <2>1. ~q.copy.stale
        BY <1>5 DEF Taskflows!Dispatchable
    <2>2. ~q.unaccounted
        BY <1>1, <1>3, <2>1 DEF OneByOneInv, UpToDate
    <2>3. Taskflows!RecompiledFirst'
        BY <1>5, <2>2 DEF OneByOneInv, Taskflows!RecompiledFirst
    <2>4. /\ n.at = "submitted" /\ n.copy = q.copy /\ n.taskflow = q.taskflow
          /\ n.unaccounted = q.unaccounted
        BY <1>3, <1>4
    <2>5. QED
        BY <1>1, <1>3, <1>5, <2>3, <2>4, GoesOnOneByOne DEF UpToDate
<1>6. QED
    BY <1>1, <1>2, <1>4, <1>5, RaiseOneByOne
       DEF Taskflows!Submit, Taskflows!SubmitNowhere, Taskflows!Raise

LEMMA SaveProjectOneByOne ==
    ASSUME TaskflowInv, OneByOneInv, OneByOne', NEW h \in Handler, Taskflows!SaveProject(h)
    PROVE  OneByOneInv'
<1>1. PICK q, n : q = handler[h] /\ n = [q EXCEPT !.at = "linked"]
    OBVIOUS
<1>2. /\ q.at = "submitted" /\ handler' = [handler EXCEPT ![h] = n]
      /\ UNCHANGED <<store, agentRuns, unaccounted>>
    BY <1>1 DEF Taskflows!SaveProject, Taskflows!At
<1>3. /\ n.at = "linked" /\ n.copy = q.copy /\ n.taskflow = q.taskflow
      /\ n.unaccounted = q.unaccounted /\ UpToDate(h)
    BY <1>1, <1>2, TaskflowAt, Alone
<1>4. Taskflows!RecompiledFirst'
    BY <1>2 DEF OneByOneInv, Taskflows!RecompiledFirst
<1>5. n.copy.stale = store'[n.taskflow].stale /\ n.unaccounted = unaccounted[n.taskflow]
    BY <1>1, <1>2, <1>3 DEF UpToDate
<1>6. QED
    BY <1>2, <1>3, <1>4, <1>5, GoesOnOneByOne

LEMMA PatchProjectOneByOne ==
    ASSUME TaskflowInv, OneByOneInv, OneByOne', NEW h \in Handler, Taskflows!PatchProject(h)
    PROVE  OneByOneInv'
<1>1. PICK q, others, n :
          /\ q = handler[h]
          /\ others = [t \in Taskflow \ {q.taskflow} |-> store[t]]
          /\ n = [q EXCEPT !.at = "patched", !.others = others]
    OBVIOUS
<1>2. /\ q.at = "patch" /\ handler' = [handler EXCEPT ![h] = n]
      /\ UNCHANGED <<store, agentRuns, unaccounted>>
    BY <1>1 DEF Taskflows!PatchProject, Taskflows!At
<1>3. /\ n.at = "patched" /\ n.copy = q.copy /\ n.taskflow = q.taskflow
      /\ n.unaccounted = q.unaccounted /\ n.others = others /\ UpToDate(h)
    BY <1>1, <1>2, TaskflowAt, Alone
<1>4. DOMAIN others = Taskflow \ {q.taskflow}
    BY <1>1
<1>5. Taskflows!RecompiledFirst'
    BY <1>2 DEF OneByOneInv, Taskflows!RecompiledFirst
<1>6. n.copy.stale = store'[n.taskflow].stale /\ n.unaccounted = unaccounted[n.taskflow]
    BY <1>1, <1>2, <1>3 DEF UpToDate
<1>7. n.at # "idle" /\ \A u \in Taskflow \ DOMAIN n.others : u = n.taskflow
    BY <1>3, <1>4
<1>8. QED
    BY <1>2, <1>3, <1>5, <1>6, <1>7, GoesOnOneByOne

LEMMA PatchOtherOneByOne ==
    ASSUME TaskflowInv, OneByOneInv, OneByOne', NEW h \in Handler, Taskflows!PatchOther(h)
    PROVE  OneByOneInv'
<1>1. PICK t \in DOMAIN handler[h].others :
          /\ store' = [store EXCEPT ![t] = Taskflows!MarkStale(handler[h].others[t])]
          /\ handler' = [handler EXCEPT ![h].others =
                [u \in DOMAIN handler[h].others \ {t} |-> handler[h].others[u]]]
    BY DEF Taskflows!PatchOther
<1>2. PICK q : q = handler[h]
    OBVIOUS
<1>3. PICK others, n :
          /\ others = [u \in DOMAIN handler[h].others \ {t} |-> handler[h].others[u]]
          /\ n = [q EXCEPT !.others = others]
    OBVIOUS
<1>4. /\ q.at = "patched" /\ handler' = [handler EXCEPT ![h] = n]
      /\ UNCHANGED <<agentRuns, unaccounted>>
    BY <1>1, <1>2, <1>3 DEF Taskflows!PatchOther, Taskflows!At
<1>5. /\ q \in [at : Taskflows!Op \cup {"submitted", "linked", "patched"},
                taskflow : Taskflow, decision : Taskflows!Decision, run : Nat,
                copy : Taskflows!Snapshot, taskRuns : SUBSET Nat, unaccounted : BOOLEAN,
                others : UNION {[S -> Taskflows!Snapshot] : S \in SUBSET Taskflow}]
      /\ Relies(q, count, agreed, confirmed) /\ UpToDate(h)
      /\ store \in [Taskflow -> Taskflows!Snapshot]
    BY <1>2, <1>4, TaskflowAt, Alone DEF TaskflowInv, TaskflowTypes
<1>6. /\ n.at = "patched" /\ n.copy = q.copy /\ n.taskflow = q.taskflow
      /\ n.unaccounted = q.unaccounted /\ n.others = others
    BY <1>3, <1>4, <1>5
<1>7. /\ DOMAIN others = DOMAIN q.others \ {t} /\ t # q.taskflow
      /\ q.others[t] \in Taskflows!Snapshot
    BY <1>1, <1>2, <1>3, <1>4, <1>5 DEF Relies, Truthful
<1>8. /\ \A u \in Taskflow \ {t} : store'[u] = store[u]
      /\ t \in Taskflow => store'[t].stale
    BY <1>1, <1>2, <1>5, <1>7, KeepsMark
<1>9. q.taskflow \in Taskflow
    BY <1>5
<1>10. Taskflows!RecompiledFirst'
    BY <1>4 DEF OneByOneInv, Taskflows!RecompiledFirst
<1>11. \A u \in Taskflow : store[u].stale => store'[u].stale
    BY <1>8
<1>12. \A u \in Taskflow \ DOMAIN others : u # q.taskflow => store'[u].stale
    BY <1>2, <1>4, <1>5, <1>7, <1>8 DEF UpToDate
<1>13. n.copy.stale = store'[n.taskflow].stale /\ n.unaccounted = unaccounted[n.taskflow]
    BY <1>2, <1>5, <1>6, <1>7, <1>8, <1>9 DEF UpToDate
<1>14. QED
    BY <1>4, <1>6, <1>10, <1>11, <1>12, <1>13, GoesOnOneByOne

LEMMA OneByOneNext ==
    ASSUME TaskflowInv, OneByOneInv, Taskflows!Next, OneByOne'
    PROVE  OneByOneInv'
<1>1. ASSUME NEW h \in Handler,
             \/ \E op \in Taskflows!Op, t \in Taskflow, d \in Taskflows!Decision :
                   Taskflows!Begin(h, op, t, d)
             \/ Taskflows!Redraft(h) \/ Taskflows!Reopen(h) \/ Taskflows!Resave(h)
             \/ Taskflows!MarkReady(h) \/ Taskflows!Confirm(h) \/ Taskflows!Compile(h)
             \/ Taskflows!RequestDecision(h) \/ Taskflows!Agree(h) \/ Taskflows!Reject(h)
             \/ Taskflows!Override(h) \/ Taskflows!Submit(h) \/ Taskflows!SubmitNowhere(h)
             \/ Taskflows!SaveProject(h) \/ Taskflows!SaveDispatched(h)
             \/ Taskflows!PatchProject(h) \/ Taskflows!PatchOther(h) \/ Taskflows!PatchOwn(h)
      PROVE  OneByOneInv'
    BY <1>1, BeginOneByOne, SavesOneByOne, CompileOneByOne, OverrideOneByOne,
       SubmitOneByOne, SaveProjectOneByOne, PatchProjectOneByOne, PatchOtherOneByOne,
       PatchOwnOneByOne
<1>2. CASE Taskflows!Restart
    <2>1. /\ handler' = [h \in Handler |-> Taskflows!Free]
          /\ UNCHANGED <<store, agentRuns, unaccounted>>
        BY <1>2 DEF Taskflows!Restart
    <2>2. Busy' = {}
        BY <2>1, FreeRequest DEF Busy
    <2>3. QED
        BY <2>1, <2>2 DEF OneByOneInv, Taskflows!RecompiledFirst
<1>3. QED
    BY <1>1, <1>2 DEF Taskflows!Next

LEMMA OneByOneStays ==
    ASSUME OneByOneInv, UNCHANGED taskflowVars
    PROVE  OneByOneInv'
BY DEF taskflowVars, OneByOneInv, OneByOne, Busy, UpToDate, Taskflows!RecompiledFirst

LEMMA OneByOneInit ==
    ASSUME Taskflows!Init
    PROVE  OneByOneInv
<1>1. Busy = {}
    BY FreeRequest DEF Busy, Taskflows!Init
<1>2. QED
    BY <1>1 DEF OneByOneInv, OneByOne, Taskflows!Init, Taskflows!RecompiledFirst

-----------------------------------------------------------------------------
(* The rows of an AgentRun.                                                *)

USE DEF Rows!Terminal, Rows!Active, Rows!RunStatus, Rows!Result, Rows!Ended,
        Rows!NoReason, Rows!Recoverable, Rows!Idle, Rows!Seq

LEMMA RunBounds ==
    /\ MaxSeq \in Nat /\ 1 \in 1..MaxSeq /\ MaxClaims \in Nat /\ MaxCalls \in Nat
    /\ MaxRestarts \in Nat /\ MaxLapses \in Nat /\ GiveUp \in BOOLEAN
BY StoresAssumption DEF Rows!BoundAssumption

\* What a transaction has read, by its kind.
LEMMA TransactionAt ==
    ASSUME RunInv, NEW t \in Txn
    PROVE  /\ txn[t] \in Transaction
           /\ txn[t].op = "recover" =>
                /\ txn[t] \in [op : {"recover"}, locked : SUBSET Rows!Claims,
                               seen : Rows!RunStatus]
                /\ txn[t].locked # {}
           /\ txn[t].op = "heartbeat" => txn[t].claim \in Rows!Claims
           /\ txn[t].op = "heartbeat" /\ "locked" \in DOMAIN txn[t] =>
                txn[t] \in [op : {"heartbeat"}, claim : Rows!Claims,
                            locked : SUBSET Rows!Claims, seen : Rows!RunStatus,
                            seq : Rows!Seq]
           /\ txn[t].op = "event" =>
                txn[t] \in [op : {"event"}, status : {"running", "waiting", "blocked"}]
           /\ txn[t].op = "complete" =>
                txn[t] \in [op : {"complete"}, locked : SUBSET Rows!Claims,
                            claim : Rows!Claims, result : Rows!Result, seen : RunRow,
                            due : BOOLEAN]
           /\ txn[t].op = "continue" => txn[t] \in [op : {"continue"}, next : Rows!Seq]
           /\ txn[t].op = "cancel" => txn[t] \in [op : {"cancel"}, seen : Rows!RunStatus]
<1>1. txn[t] \in Transaction /\ (txn[t].op = "recover" => txn[t].locked # {})
    BY DEF RunInv, RunTypes
<1>2. QED
    BY <1>1 DEF Transaction, TransactionOf

\* A step of one transaction that adds no claim.
LEMMA RunStep1 ==
    ASSUME RunInv, NEW t \in Txn, NEW x \in Transaction,
           txn' = [txn EXCEPT ![t] = x], x.op = "recover" => x.locked # {},
           run' \in RunRow, activation' \in [Rows!Seq -> ActivationStatus],
           claim' \in [Rows!Claims -> ClaimRow], cancel' \in 0..MaxSeq,
           pending' \in Nat, calls' \in Nat, calls' + pending' <= MaxCalls,
           waitsFor' \in [Rows!Claim -> Txn \cup {"none"}], inputs' \in Nat,
           UNCHANGED <<lapses, restarts>>,
           run'.status \in Rows!Terminal => \A c \in Rows!Claims : ~claim'[c].active
    PROVE  RunInv'
<1>1. Rows!Claims' = Rows!Claims
    BY DEF Rows!Claims
<1>2. RunTypes'
    <2>1. Transaction' = Transaction
        BY <1>1 DEF Transaction, TransactionOf
    <2>2. txn' \in [Txn -> Transaction']
        BY <2>1 DEF RunInv, RunTypes
    <2>3. QED
        BY <1>1, <2>2 DEF RunInv, RunTypes
<1>3. Rows!ClosedRunReleased'
    BY <1>1 DEF Rows!ClosedRunReleased, Rows!ActiveClaims
<1>4. \A u \in Txn : txn'[u].op = "recover" => txn'[u].locked # {}
    BY DEF RunInv, RunTypes
<1>5. QED
    BY <1>2, <1>3, <1>4 DEF RunInv

\* A step that changes what a transaction does, and nothing of the rows.
LEMMA ReadRuns ==
    ASSUME RunInv, NEW t \in Txn, NEW x \in Transaction,
           txn' = [txn EXCEPT ![t] = x], x.op = "recover" => x.locked # {},
           calls' \in Nat, calls' + pending <= MaxCalls,
           waitsFor' \in [Rows!Claim -> Txn \cup {"none"}],
           UNCHANGED <<run, activation, claim, cancel, pending, inputs, lapses, restarts>>
    PROVE  RunInv'
<1>1. run.status \in Rows!Terminal => \A c \in Rows!Claims : ~claim[c].active
    BY DEF RunInv, Rows!ClosedRunReleased, Rows!ActiveClaims
<1>2. QED
    BY <1>1, RunStep1 DEF RunInv, RunTypes

LEMMA ClaimsAreClaim ==
    ASSUME RunInv
    PROVE  Rows!Claims \subseteq Rows!Claim
BY RunBounds DEF RunInv, RunTypes, Rows!Claim

LEMMA ReadsRuns ==
    ASSUME RunInv, NEW t \in Txn,
           \/ Rows!RecoverLock(t) \/ Rows!ContinueRead(t) \/ Rows!CancelRead(t)
           \/ Rows!StopRead(t) \/ Rows!HeartbeatLock(t) \/ Rows!DeadlockAborts(t)
           \/ \E c \in Rows!Claims : Rows!WorkerStep(t, c)
    PROVE  RunInv'
<1>1. /\ run \in RunRow /\ waitsFor \in [Rows!Claim -> Txn \cup {"none"}]
      /\ calls \in Nat /\ pending \in Nat /\ calls + pending <= MaxCalls
      /\ run.status \in Rows!RunStatus /\ run.seq \in Rows!Seq
    BY DEF RunInv, RunTypes, RunRow
<1>2. CASE Rows!RecoverLock(t)
    <2>1. PICK x : x = [op |-> "recover", locked |-> Rows!StaleClaims, seen |-> run.status]
        OBVIOUS
    <2>2. x \in Transaction /\ x.locked # {}
        BY <1>1, <1>2, <2>1
           DEF Transaction, TransactionOf, Rows!RecoverLock, Rows!StaleClaims,
               Rows!ActiveClaims
    <2>3. QED
        BY <1>1, <1>2, <2>1, <2>2, ReadRuns DEF Rows!RecoverLock, Rows!Begin
<1>3. CASE Rows!ContinueRead(t)
    <2>1. PICK x : x = [op |-> "continue", next |-> Rows!NextSeq]
        OBVIOUS
    <2>2. x \in Transaction /\ x.op # "recover"
        BY <1>3, <2>1 DEF Transaction, TransactionOf, Rows!ContinueRead
    <2>3. QED
        BY <1>1, <1>3, <2>1, <2>2, ReadRuns DEF Rows!ContinueRead, Rows!Begin
<1>4. CASE Rows!CancelRead(t)
    <2>1. PICK x : x = [op |-> "cancel", seen |-> run.status]
        OBVIOUS
    <2>2. x \in Transaction /\ x.op # "recover"
        BY <1>1, <2>1 DEF Transaction, TransactionOf
    <2>3. QED
        BY <1>1, <1>4, <2>1, <2>2, ReadRuns DEF Rows!CancelRead, Rows!Begin
<1>5. CASE Rows!StopRead(t)
    <2>1. PICK x : x = [op |-> "stop"]
        OBVIOUS
    <2>2. x \in Transaction /\ x.op # "recover"
        BY <2>1 DEF Transaction, TransactionOf
    <2>3. QED
        BY <1>1, <1>5, <2>1, <2>2, ReadRuns DEF Rows!StopRead, Rows!Begin
<1>6. CASE Rows!HeartbeatLock(t)
    <2>1. PICK x : x = [op |-> "heartbeat", claim |-> txn[t].claim,
                        locked |-> {txn[t].claim}, seen |-> run.status, seq |-> run.seq]
        OBVIOUS
    <2>2. x \in Transaction /\ x.op # "recover"
        BY <1>1, <1>6, <2>1, TransactionAt DEF Transaction, TransactionOf, Rows!HeartbeatLock
    <2>3. QED
        BY <1>1, <1>6, <2>1, <2>2, ReadRuns DEF Rows!HeartbeatLock
<1>7. CASE Rows!DeadlockAborts(t)
    <2>1. Rows!Idle \in Transaction /\ Rows!Idle.op # "recover"
        BY DEF Transaction, TransactionOf
    <2>2. waitsFor' \in [Rows!Claim -> Txn \cup {"none"}]
        BY <1>1, <1>7 DEF Rows!DeadlockAborts, Rows!Answered
    <2>3. QED
        BY <1>1, <1>7, <2>1, <2>2, ReadRuns DEF Rows!DeadlockAborts, Rows!Commit
<1>8. ASSUME NEW c \in Rows!Claims, Rows!HeartbeatRead(t, c)
      PROVE  RunInv'
    <2>1. PICK x : x = [op |-> "heartbeat", claim |-> c]
        OBVIOUS
    <2>2. x \in Transaction /\ x.op # "recover"
        BY <2>1 DEF Transaction, TransactionOf
    <2>3. QED
        BY <1>1, <1>8, <2>1, <2>2, ReadRuns DEF Rows!HeartbeatRead, Rows!Begin
<1>9. ASSUME NEW c \in Rows!Claims, Rows!CallRead(t, c)
      PROVE  RunInv'
    <2>1. /\ calls' = calls + 1 /\ calls + pending < MaxCalls
          /\ UNCHANGED <<run, activation, claim, cancel, pending, inputs, lapses, restarts>>
        BY <1>9 DEF Rows!CallRead
    <2>2. calls' \in Nat /\ calls' + pending <= MaxCalls
        BY <1>1, <2>1, RunBounds
    <2>3. PICK x : x = [op |-> "call"]
        OBVIOUS
    <2>4. x \in Transaction /\ x.op # "recover"
        BY <2>3 DEF Transaction, TransactionOf
    <2>5. \/ UNCHANGED <<txn, waitsFor>>
          \/ txn' = [txn EXCEPT ![t] = x] /\ waitsFor' = [waitsFor EXCEPT ![c] = t]
        BY <1>9, <2>3 DEF Rows!CallRead, Rows!Begin
    <2>6. CASE UNCHANGED <<txn, waitsFor>>
        <3>1. PICK y : y = txn[t]
            OBVIOUS
        <3>2. /\ txn' = [txn EXCEPT ![t] = y] /\ y \in Transaction
              /\ y.op = "recover" => y.locked # {}
            BY <2>6, <3>1, TransactionAt DEF RunInv, RunTypes
        <3>3. QED
            BY <1>1, <2>1, <2>2, <2>6, <3>2, ReadRuns
    <2>7. CASE txn' = [txn EXCEPT ![t] = x] /\ waitsFor' = [waitsFor EXCEPT ![c] = t]
        BY <1>1, <2>1, <2>2, <2>4, <2>7, ReadRuns
    <2>8. QED
        BY <2>5, <2>6, <2>7
<1>10. ASSUME NEW c \in Rows!Claims, NEW st \in {"running", "waiting", "blocked"},
              Rows!EventRead(t, c, st)
       PROVE  RunInv'
    <2>1. PICK x : x = [op |-> "event", status |-> st]
        OBVIOUS
    <2>2. x \in Transaction /\ x.op # "recover"
        BY <2>1 DEF Transaction, TransactionOf
    <2>3. waitsFor' \in [Rows!Claim -> Txn \cup {"none"}]
        BY <1>1, <1>10 DEF Rows!EventRead
    <2>4. QED
        BY <1>1, <1>10, <2>1, <2>2, <2>3, ReadRuns DEF Rows!EventRead, Rows!Begin
<1>11. ASSUME NEW c \in Rows!Claims, NEW r \in Rows!Result, Rows!CompleteLock(t, c, r)
       PROVE  RunInv'
    <2>1. PICK x : x = [op |-> "complete", locked |-> {c}, claim |-> c, result |-> r,
                        seen |-> run, due |-> pending > 0]
        OBVIOUS
    <2>2. x \in Transaction /\ x.op # "recover"
        BY <1>1, <2>1 DEF Transaction, TransactionOf
    <2>3. QED
        BY <1>1, <1>11, <2>1, <2>2, ReadRuns DEF Rows!CompleteLock, Rows!Begin
<1>12. QED
    BY <1>2, <1>3, <1>4, <1>5, <1>6, <1>7, <1>8, <1>9, <1>10, <1>11 DEF Rows!WorkerStep

\* The two action properties of the run's rows.
LeaseStep ==
    (Rows!Unleased' /\ ~Rows!Unleased) =>
        \E t \in Txn :
           /\ txn'[t] = Rows!Idle
           /\ \/ txn[t].op = "event"
              \/ txn[t].op = "recover" /\ txn[t].seen # run.status
              \/ txn[t].op = "heartbeat" /\ ~claim[txn[t].claim].active

ReportStep ==
    (Rows!MissedReport' /\ ~Rows!MissedReport) =>
        \E t \in Txn : txn[t].op = "call" /\ txn'[t] = Rows!Idle

RunStepOK == RunInv' /\ LeaseStep /\ ReportStep

\* Neither property is concerned when a step leaves the run, its activations and
\* reports, and which claims are active.
LEMMA SameRows ==
    ASSUME UNCHANGED <<run, activation, pending>>, Rows!ActiveClaims' = Rows!ActiveClaims
    PROVE  LeaseStep /\ ReportStep
BY DEF LeaseStep, ReportStep, Rows!Unleased, Rows!MissedReport

LEMMA ReadsAreOK ==
    ASSUME RunInv, NEW t \in Txn,
           \/ Rows!RecoverLock(t) \/ Rows!ContinueRead(t) \/ Rows!CancelRead(t)
           \/ Rows!StopRead(t) \/ Rows!HeartbeatLock(t) \/ Rows!DeadlockAborts(t)
           \/ \E c \in Rows!Claims : Rows!WorkerStep(t, c)
    PROVE  RunStepOK
<1>1. UNCHANGED <<run, activation, claim, pending>>
    BY DEF Rows!RecoverLock, Rows!ContinueRead, Rows!CancelRead, Rows!StopRead,
       Rows!HeartbeatLock, Rows!DeadlockAborts, Rows!WorkerStep, Rows!HeartbeatRead,
       Rows!CallRead, Rows!EventRead, Rows!CompleteLock
<1>2. Rows!ActiveClaims' = Rows!ActiveClaims
    BY <1>1 DEF Rows!ActiveClaims, Rows!Claims
<1>3. QED
    BY <1>1, <1>2, SameRows, ReadsRuns DEF RunStepOK

\* The rows as RunInv has them.
LEMMA RunTyping ==
    ASSUME RunInv
    PROVE  /\ run \in RunRow /\ run.status \in Rows!RunStatus /\ run.seq \in Rows!Seq
           /\ activation \in [Rows!Seq -> ActivationStatus]
           /\ claim \in [Rows!Claims -> ClaimRow] /\ cancel \in 0..MaxSeq
           /\ pending \in Nat /\ calls \in Nat /\ calls + pending <= MaxCalls
           /\ txn \in [Txn -> Transaction] /\ inputs \in Nat
           /\ waitsFor \in [Rows!Claim -> Txn \cup {"none"}]
           /\ run.status \in Rows!Terminal => \A c \in Rows!Claims : ~claim[c].active
BY DEF RunInv, RunTypes, RunRow, Rows!ClosedRunReleased, Rows!ActiveClaims

LEMMA IdleTransaction ==
    Rows!Idle \in Transaction /\ Rows!Idle.op # "recover"
BY DEF Transaction, TransactionOf

\* A transaction answers the worker that waits for it.
LEMMA AnswersWorker ==
    ASSUME RunInv, NEW t \in Txn, Rows!Answered(t)
    PROVE  waitsFor' \in [Rows!Claim -> Txn \cup {"none"}]
BY RunTyping DEF Rows!Answered

\* Claims that are all released.
LEMMA Released ==
    ASSUME RunInv
    PROVE  /\ Rows!ReleasedClaims \in [Rows!Claims -> ClaimRow]
           /\ \A c \in Rows!Claims : ~Rows!ReleasedClaims[c].active
BY RunTyping DEF Rows!ReleasedClaims, ClaimRow

\* A recovery queues one activation at most, and changes no other.
LEMMA RecoveredAreTyped ==
    ASSUME RunInv, NEW C \in SUBSET Rows!Claims, NEW seen,
           NEW act \in Rows!RecoveredActivations(C, seen)
    PROVE  /\ act \in [Rows!Seq -> ActivationStatus]
           /\ \A s \in Rows!Seq : act[s] # "queued" => act[s] = activation[s]
<1>1. CASE act = activation
    BY <1>1, RunTyping
<1>2. CASE \E c \in C : act = [activation EXCEPT ![claim[c].seq] = "queued"]
    <2>1. PICK c \in C : act = [activation EXCEPT ![claim[c].seq] = "queued"]
        BY <1>2
    <2>2. PICK q : q = claim[c].seq
        OBVIOUS
    <2>3. act = [activation EXCEPT ![q] = "queued"]
        BY <2>1, <2>2
    <2>4. "queued" \in ActivationStatus
        BY DEF ActivationStatus
    <2>5. QED
        BY <2>3, <2>4, RunTyping
<1>3. QED
    BY <1>1, <1>2 DEF Rows!RecoveredActivations

LEMMA RecoverIsOK ==
    ASSUME RunInv, NEW t \in Txn, Rows!RecoverWrite(t)
    PROVE  RunStepOK
<1>1. PICK C, seen : C = txn[t].locked /\ seen = txn[t].seen
    OBVIOUS
<1>2. /\ txn[t].op = "recover" /\ run' = Rows!RecoveredRun(C, seen)
      /\ activation' \in Rows!RecoveredActivations(C, seen)
      /\ claim' = Rows!ExpiredClaims(C) /\ txn' = [txn EXCEPT ![t] = Rows!Idle]
      /\ UNCHANGED <<cancel, pending, calls, waitsFor, inputs, lapses, restarts>>
    BY <1>1 DEF Rows!RecoverWrite, Rows!Commit
<1>3. C \subseteq Rows!Claims /\ C # {} /\ seen \in Rows!RunStatus
    BY <1>1, <1>2, TransactionAt
<1>4. /\ claim' \in [Rows!Claims -> ClaimRow]
      /\ \A c \in Rows!Claims : claim'[c].active => claim[c].active
    BY <1>2, <1>3, RunTyping DEF Rows!ExpiredClaims, ClaimRow
<1>5. /\ \/ run' = run /\ seen \notin Rows!Recoverable
         \/ run'.status = "queued"
      /\ run' \in RunRow
    BY <1>2, <1>3, RunTyping DEF Rows!RecoveredRun, RunRow
<1>6. /\ activation' \in [Rows!Seq -> ActivationStatus]
      /\ \A s \in Rows!Seq : activation'[s] # "queued" => activation'[s] = activation[s]
    BY <1>2, <1>3, RecoveredAreTyped
<1>7. RunInv'
    BY <1>2, <1>4, <1>5, <1>6, RunTyping, IdleTransaction, RunStep1
<1>8. LeaseStep
    <2>1. CASE run'.status = "queued"
        BY <2>1 DEF LeaseStep, Rows!Unleased
    <2>2. CASE run' = run /\ seen \notin Rows!Recoverable
        BY <1>1, <1>2, <2>2, RunTyping DEF LeaseStep, Rows!Unleased
    <2>3. QED
        BY <1>5, <2>1, <2>2
<1>9. ReportStep
    BY <1>2, <1>5, <1>6, RunTyping DEF ReportStep, Rows!MissedReport
<1>10. QED
    BY <1>7, <1>8, <1>9 DEF RunStepOK

LEMMA HeartbeatIsOK ==
    ASSUME RunInv, NEW t \in Txn, Rows!HeartbeatWrite(t)
    PROVE  RunStepOK
<1>1. PICK k, q : k = txn[t].claim /\ q = txn[t].seq
    OBVIOUS
<1>2. /\ txn[t].op = "heartbeat" /\ "locked" \in DOMAIN txn[t]
      /\ run' = IF txn[t].seen = "dispatched" THEN [run EXCEPT !.status = "running"]
                ELSE run
      /\ activation' = [activation EXCEPT ![q] = "running"]
      /\ claim' = [claim EXCEPT ![k].lapsed = FALSE]
      /\ txn' = [txn EXCEPT ![t] = Rows!Idle]
      /\ UNCHANGED <<cancel, pending, calls, waitsFor, inputs, lapses, restarts>>
    BY <1>1 DEF Rows!HeartbeatWrite, Rows!Commit
<1>3. k \in Rows!Claims /\ q \in Rows!Seq
    BY <1>1, <1>2, TransactionAt
<1>4. /\ claim' \in [Rows!Claims -> ClaimRow]
      /\ \A c \in Rows!Claims : claim'[c].active = claim[c].active
    BY <1>2, <1>3, RunTyping DEF ClaimRow
<1>5. run' \in RunRow /\ (run' = run \/ run'.status = "running")
    BY <1>2, RunTyping DEF RunRow
<1>6. activation' \in [Rows!Seq -> ActivationStatus]
    BY <1>2, <1>3, RunTyping DEF ActivationStatus
<1>7. RunInv'
    BY <1>2, <1>4, <1>5, <1>6, RunTyping, IdleTransaction, RunStep1
<1>8. Rows!ActiveClaims' = Rows!ActiveClaims /\ txn'[t] = Rows!Idle
    BY <1>2, <1>4, RunTyping DEF Rows!ActiveClaims, Rows!Claims
<1>9. LeaseStep
    <2>1. Rows!Unleased' => ~claim[k].active
        BY <1>3, <1>8 DEF Rows!Unleased, Rows!ActiveClaims
    <2>2. QED
        BY <1>1, <1>2, <1>8, <2>1 DEF LeaseStep
<1>10. ReportStep
    <2>1. CASE run'.status = "running"
        BY <2>1 DEF ReportStep, Rows!MissedReport
    <2>2. CASE run' = run
        <3>1. Rows!MissedReport' => activation'[run.seq] # "running"
            BY <2>2 DEF Rows!MissedReport
        <3>2. activation'[run.seq] # "running" => activation'[run.seq] = activation[run.seq]
            BY <1>2, <1>3, RunTyping
        <3>3. QED
            BY <1>2, <2>2, <3>1, <3>2 DEF ReportStep, Rows!MissedReport
    <2>3. QED
        BY <1>5, <2>1, <2>2
<1>11. QED
    BY <1>7, <1>9, <1>10 DEF RunStepOK

LEMMA EventIsOK ==
    ASSUME RunInv, NEW t \in Txn, Rows!EventWrite(t)
    PROVE  RunStepOK
<1>1. PICK st : st = txn[t].status
    OBVIOUS
<1>2. /\ txn[t].op = "event"
      /\ run' = [run EXCEPT !.status = st,
                    !.reason = IF st = "waiting" THEN "user_approval" ELSE Rows!NoReason]
      /\ txn' = [txn EXCEPT ![t] = Rows!Idle] /\ Rows!Answered(t)
      /\ UNCHANGED <<activation, claim, cancel, pending, calls, inputs, lapses, restarts>>
    BY <1>1 DEF Rows!EventWrite, Rows!Commit
<1>3. st \in {"running", "waiting", "blocked"}
    BY <1>1, <1>2, TransactionAt
<1>4. run' \in RunRow /\ run'.status = st /\ run'.reason # "agent_call"
    BY <1>2, <1>3, RunTyping DEF RunRow
<1>5. RunInv'
    BY <1>2, <1>3, <1>4, RunTyping, IdleTransaction, AnswersWorker, RunStep1
<1>6. LeaseStep
    BY <1>2, RunTyping DEF LeaseStep
<1>7. ReportStep
    BY <1>4 DEF ReportStep, Rows!MissedReport
<1>8. QED
    BY <1>5, <1>6, <1>7 DEF RunStepOK

LEMMA CallIsOK ==
    ASSUME RunInv, NEW t \in Txn, Rows!CallWrite(t)
    PROVE  RunStepOK
<1>1. /\ txn[t].op = "call"
      /\ run' = [run EXCEPT !.status = "waiting", !.reason = "agent_call"]
      /\ txn' = [txn EXCEPT ![t] = Rows!Idle] /\ Rows!Answered(t)
      /\ UNCHANGED <<activation, claim, cancel, pending, calls, inputs, lapses, restarts>>
    BY DEF Rows!CallWrite, Rows!Commit
<1>2. run' \in RunRow /\ run'.status = "waiting"
    BY <1>1, RunTyping DEF RunRow
<1>3. RunInv'
    BY <1>1, <1>2, RunTyping, IdleTransaction, AnswersWorker, RunStep1
<1>4. LeaseStep
    BY <1>2 DEF LeaseStep, Rows!Unleased
<1>5. ReportStep
    BY <1>1, RunTyping DEF ReportStep
<1>6. QED
    BY <1>3, <1>4, <1>5 DEF RunStepOK

\* The rows once a transaction has written them and looked for reports: a caller
\* that is parked with a report is queued on its next activation.
LEMMA WriteAndResumeRows ==
    ASSUME RunInv, NEW r \in RunRow, NEW act \in [Rows!Seq -> ActivationStatus],
           NEW n \in Nat, Rows!WriteAndResume(r, act, n),
           Rows!CanResume(r, act, n) => Rows!NextSeq \in Rows!Seq
    PROVE  /\ run' \in RunRow /\ activation' \in [Rows!Seq -> ActivationStatus]
           /\ pending' \in Nat /\ pending' <= n
           /\ run' = r \/ run'.status = "queued"
           /\ ~Rows!MissedReport'
<1>1. CASE Rows!CanResume(r, act, n)
    <2>1. /\ run' = [status |-> "queued", reason |-> Rows!NoReason, seq |-> Rows!NextSeq]
          /\ activation' = [act EXCEPT ![Rows!NextSeq] = "queued"]
          /\ pending' = n - 1 /\ n > 0
        BY <1>1 DEF Rows!WriteAndResume, Rows!CanResume
    <2>2. run' \in RunRow /\ run'.status = "queued"
        BY <1>1, <2>1 DEF RunRow
    <2>3. activation' \in [Rows!Seq -> ActivationStatus]
        BY <2>1 DEF ActivationStatus
    <2>4. QED
        BY <2>1, <2>2, <2>3 DEF Rows!MissedReport
<1>2. CASE ~Rows!CanResume(r, act, n)
    <2>1. run' = r /\ activation' = act /\ pending' = n
        BY <1>2 DEF Rows!WriteAndResume
    <2>2. ~Rows!MissedReport'
        BY <1>2, <2>1 DEF Rows!MissedReport, Rows!CanResume
    <2>3. QED
        BY <2>1, <2>2
<1>3. QED
    BY <1>1, <1>2

LEMMA CompleteIsOK ==
    ASSUME RunInv, NEW t \in Txn, Rows!CompleteWrite(t)
    PROVE  RunStepOK
<1>1. PICK c, r, act :
          /\ c = txn[t].claim /\ r = Rows!CompletedRun(t)
          /\ act = [activation EXCEPT ![claim[c].seq] = txn[t].result]
    OBVIOUS
<1>2. /\ txn[t].op = "complete"
      /\ Rows!CanResume(r, act, pending) => Rows!NextSeq \in Rows!Seq
      /\ Rows!WriteAndResume(r, act, pending)
      /\ claim' = [Rows!ReleasedClaims EXCEPT ![c].working = FALSE]
      /\ cancel' = 0 /\ txn' = [txn EXCEPT ![t] = Rows!Idle]
      /\ UNCHANGED <<calls, waitsFor, inputs, lapses, restarts>>
    BY <1>1 DEF Rows!CompleteWrite, Rows!Commit
<1>3. /\ c \in Rows!Claims /\ txn[t].result \in Rows!Result /\ txn[t].seen \in RunRow
    BY <1>1, <1>2, TransactionAt
<1>4. claim[c].seq \in Rows!Seq
    BY <1>3, RunTyping DEF ClaimRow
<1>5. act \in [Rows!Seq -> ActivationStatus]
    BY <1>1, <1>3, <1>4, RunTyping DEF ActivationStatus
<1>6. r \in RunRow /\ r.status \notin Rows!Active
    <2>1. PICK seen : seen = txn[t].seen
        OBVIOUS
    <2>2. PICK reason \in {Rows!NoReason, "agent_call", "user_approval"},
               st \in Rows!Result \cup {"waiting"} :
             r = [run EXCEPT !.status = st, !.reason = reason]
        <3>1. seen.reason \in {Rows!NoReason, "agent_call", "user_approval"}
            BY <1>3, <2>1 DEF RunRow
        <3>2. \/ r = [run EXCEPT !.status = "waiting",
                         !.reason = IF seen.reason # Rows!NoReason THEN seen.reason
                                    ELSE "agent_call"]
              \/ r = [run EXCEPT !.status = txn[t].result, !.reason = Rows!NoReason]
            BY <1>1, <2>1 DEF Rows!CompletedRun
        <3>3. QED
            BY <1>3, <3>1, <3>2
    <2>3. QED
        BY <2>2, RunTyping DEF RunRow
<1>7. /\ run' \in RunRow /\ activation' \in [Rows!Seq -> ActivationStatus]
      /\ pending' \in Nat /\ pending' <= pending /\ ~Rows!MissedReport'
      /\ run'.status \notin Rows!Active
    BY <1>2, <1>5, <1>6, RunTyping, WriteAndResumeRows
<1>8. /\ claim' \in [Rows!Claims -> ClaimRow] /\ \A d \in Rows!Claims : ~claim'[d].active
    BY <1>2, <1>3, Released DEF ClaimRow
<1>9. RunInv'
    <2>1. calls' + pending' <= MaxCalls
        BY <1>2, <1>7, RunTyping, RunBounds
    <2>2. cancel' \in 0..MaxSeq
        BY <1>2, RunBounds
    <2>3. QED
        BY <1>2, <1>7, <1>8, <2>1, <2>2, RunTyping, IdleTransaction, RunStep1
<1>10. QED
    BY <1>7, <1>9 DEF RunStepOK, LeaseStep, ReportStep, Rows!Unleased

LEMMA ContinueIsOK ==
    ASSUME RunInv, NEW t \in Txn, Rows!ContinueWrite(t)
    PROVE  RunStepOK
<1>1. PICK n : n = txn[t].next
    OBVIOUS
<1>2. /\ txn[t].op = "continue"
      /\ run' = [status |-> "queued", reason |-> Rows!NoReason, seq |-> n]
      /\ activation' = [activation EXCEPT ![n] = "queued"]
      /\ inputs' = inputs + 1 /\ txn' = [txn EXCEPT ![t] = Rows!Idle]
      /\ UNCHANGED <<claim, cancel, pending, calls, waitsFor, lapses, restarts>>
    BY <1>1 DEF Rows!ContinueWrite, Rows!Commit
<1>3. n \in Rows!Seq
    BY <1>1, <1>2, TransactionAt
<1>4. run' \in RunRow /\ run'.status = "queued"
    BY <1>2, <1>3 DEF RunRow
<1>5. activation' \in [Rows!Seq -> ActivationStatus] /\ inputs' \in Nat
    BY <1>2, <1>3, RunTyping DEF ActivationStatus
<1>6. RunInv'
    BY <1>2, <1>4, <1>5, RunTyping, IdleTransaction, RunStep1
<1>7. QED
    BY <1>4, <1>6 DEF RunStepOK, LeaseStep, ReportStep, Rows!Unleased, Rows!MissedReport

LEMMA CancelIsOK ==
    ASSUME RunInv, NEW t \in Txn, Rows!CancelWrite(t)
    PROVE  RunStepOK
<1>1. /\ txn' = [txn EXCEPT ![t] = Rows!Idle]
      /\ UNCHANGED <<activation, pending, calls, waitsFor, inputs, lapses, restarts>>
    BY DEF Rows!CancelWrite, Rows!Commit
<1>2. CASE cancel' = run.seq /\ UNCHANGED <<run, claim>>
    <2>1. cancel' \in 0..MaxSeq
        BY <1>2, RunTyping, RunBounds
    <2>2. RunInv'
        BY <1>1, <1>2, <2>1, RunTyping, IdleTransaction, RunStep1
    <2>3. Rows!ActiveClaims' = Rows!ActiveClaims
        BY <1>2 DEF Rows!ActiveClaims, Rows!Claims
    <2>4. QED
        BY <1>1, <1>2, <2>2, <2>3, SameRows DEF RunStepOK
<1>3. CASE /\ run' = [run EXCEPT !.status = "cancelled"] /\ claim' = Rows!ReleasedClaims
           /\ UNCHANGED cancel
    <2>1. run' \in RunRow /\ run'.status = "cancelled"
        BY <1>3, RunTyping DEF RunRow
    <2>2. RunInv'
        BY <1>1, <1>3, <2>1, RunTyping, Released, IdleTransaction, RunStep1
    <2>3. QED
        BY <2>1, <2>2 DEF RunStepOK, LeaseStep, ReportStep, Rows!Unleased, Rows!MissedReport
<1>4. QED
    BY <1>2, <1>3 DEF Rows!CancelWrite

LEMMA StopIsOK ==
    ASSUME RunInv, NEW t \in Txn, Rows!StopWrite(t)
    PROVE  RunStepOK
<1>1. /\ run' = [run EXCEPT !.status = "completed", !.reason = Rows!NoReason]
      /\ activation' = [activation EXCEPT ![run.seq] = "cancelled"]
      /\ claim' = Rows!ReleasedClaims /\ cancel' = 0
      /\ txn' = [txn EXCEPT ![t] = Rows!Idle]
      /\ UNCHANGED <<pending, calls, waitsFor, inputs, lapses, restarts>>
    BY DEF Rows!StopWrite, Rows!Commit
<1>2. run' \in RunRow /\ run'.status = "completed"
    BY <1>1, RunTyping DEF RunRow
<1>3. activation' \in [Rows!Seq -> ActivationStatus] /\ cancel' \in 0..MaxSeq
    BY <1>1, RunTyping, RunBounds DEF ActivationStatus
<1>4. RunInv'
    BY <1>1, <1>2, <1>3, RunTyping, Released, IdleTransaction, RunStep1
<1>5. QED
    BY <1>2, <1>4 DEF RunStepOK, LeaseStep, ReportStep, Rows!Unleased, Rows!MissedReport

\* A step of the server or of workers, and of no transaction.
LEMMA RunStep2 ==
    ASSUME RunInv, UNCHANGED txn \/ txn' = [t \in Txn |-> Rows!Idle],
           run' \in RunRow, activation' \in [Rows!Seq -> ActivationStatus],
           claim' \in [Rows!Claims -> ClaimRow], UNCHANGED <<cancel, inputs>>,
           pending' \in Nat, calls' \in Nat, calls' + pending' <= MaxCalls,
           waitsFor' \in [Rows!Claim -> Txn \cup {"none"}],
           lapses' \in 0..MaxLapses, restarts' \in 0..MaxRestarts,
           run'.status \in Rows!Terminal => \A c \in Rows!Claims : ~claim'[c].active
    PROVE  RunInv'
<1>1. Rows!Claims' = Rows!Claims
    BY DEF Rows!Claims
<1>2. Transaction' = Transaction
    BY <1>1 DEF Transaction, TransactionOf
<1>3. /\ txn' \in [Txn -> Transaction]
      /\ \A u \in Txn : txn'[u].op = "recover" => txn'[u].locked # {}
    BY IdleTransaction DEF RunInv, RunTypes
<1>4. RunTypes'
    BY <1>1, <1>2, <1>3 DEF RunInv, RunTypes
<1>5. Rows!ClosedRunReleased'
    BY <1>1 DEF Rows!ClosedRunReleased, Rows!ActiveClaims
<1>6. QED
    BY <1>3, <1>4, <1>5 DEF RunInv

LEMMA ReportIsOK ==
    ASSUME RunInv, Rows!Report
    PROVE  RunStepOK
<1>1. PICK n : n = pending + 1
    OBVIOUS
<1>2. /\ calls > 0 /\ calls' = calls - 1
      /\ Rows!WriteAndResume(run, activation, n)
      /\ Rows!CanResume(run, activation, 1) => Rows!NextSeq \in Rows!Seq
      /\ UNCHANGED <<claim, cancel, txn, waitsFor, inputs, lapses, restarts>>
    BY <1>1 DEF Rows!Report
<1>3. Rows!CanResume(run, activation, n) => Rows!CanResume(run, activation, 1)
    BY DEF Rows!CanResume
<1>4. n \in Nat /\ n = pending + 1
    BY <1>1, RunTyping
<1>5. /\ run' \in RunRow /\ activation' \in [Rows!Seq -> ActivationStatus]
      /\ pending' \in Nat /\ pending' <= n
      /\ run' = run \/ run'.status = "queued"
      /\ ~Rows!MissedReport'
    BY <1>2, <1>3, <1>4, RunTyping, WriteAndResumeRows
<1>6. calls' \in Nat /\ calls' + pending' <= MaxCalls
    BY <1>2, <1>4, <1>5, RunTyping, RunBounds
<1>7. lapses \in 0..MaxLapses /\ restarts \in 0..MaxRestarts
    BY DEF RunInv, RunTypes
<1>8. RunInv'
    BY <1>2, <1>5, <1>6, <1>7, RunTyping, RunStep2
<1>9. Rows!ActiveClaims' = Rows!ActiveClaims
    BY <1>2 DEF Rows!ActiveClaims, Rows!Claims
<1>10. QED
    BY <1>5, <1>8, <1>9 DEF RunStepOK, LeaseStep, ReportStep, Rows!Unleased

LEMMA WorkersAreOK ==
    ASSUME RunInv, NEW c \in Rows!Claims,
           Rows!LeaseLapses(c) \/ Rows!WorkerStops(c) \/ Rows!WorkerGivesUp(c)
    PROVE  RunStepOK
<1>1. UNCHANGED <<run, activation, cancel, pending, calls, txn, inputs, restarts>>
    BY DEF Rows!LeaseLapses, Rows!WorkerStops, Rows!WorkerGivesUp
<1>2. /\ claim' \in [Rows!Claims -> ClaimRow]
      /\ \A d \in Rows!Claims : claim'[d].active = claim[d].active
    <2>1. \/ claim' = [claim EXCEPT ![c].lapsed = TRUE]
          \/ claim' = [claim EXCEPT ![c].working = FALSE]
          \/ claim' = claim
        BY Zenon DEF Rows!LeaseLapses, Rows!WorkerStops, Rows!WorkerGivesUp
    <2>2. claim \in [Rows!Claims -> ClaimRow]
        BY RunTyping
    <2>3. CASE claim' = [claim EXCEPT ![c].lapsed = TRUE]
        BY <2>2, <2>3 DEF ClaimRow
    <2>4. CASE claim' = [claim EXCEPT ![c].working = FALSE]
        BY <2>2, <2>4 DEF ClaimRow
    <2>5. QED
        BY <2>1, <2>2, <2>3, <2>4, Zenon
<1>3. waitsFor' \in [Rows!Claim -> Txn \cup {"none"}]
    BY RunTyping DEF Rows!LeaseLapses, Rows!WorkerStops, Rows!WorkerGivesUp
<1>4. lapses' \in 0..MaxLapses /\ restarts \in 0..MaxRestarts
    BY RunBounds
       DEF Rows!LeaseLapses, Rows!WorkerStops, Rows!WorkerGivesUp, RunInv, RunTypes
<1>5. RunInv'
    BY <1>1, <1>2, <1>3, <1>4, RunTyping, RunStep2
<1>6. Rows!ActiveClaims' = Rows!ActiveClaims
    BY <1>2, RunTyping DEF Rows!ActiveClaims, Rows!Claims
<1>7. QED
    BY <1>1, <1>5, <1>6, SameRows DEF RunStepOK

LEMMA HostRestartIsOK ==
    ASSUME RunInv, Rows!HostRestart
    PROVE  RunStepOK
<1>1. /\ restarts < MaxRestarts /\ restarts' = restarts + 1
      /\ txn' = [t \in Txn |-> Rows!Idle] /\ waitsFor' = [c \in Rows!Claim |-> "none"]
      /\ calls' \in 0..calls /\ UNCHANGED <<activation, cancel, pending, inputs, lapses>>
      /\ \/ run' = [run EXCEPT !.status = "failed"] /\ claim' = Rows!ReleasedClaims
         \/ UNCHANGED <<run, claim>>
    BY DEF Rows!HostRestart
<1>2. /\ calls' \in Nat /\ calls' + pending <= MaxCalls
      /\ lapses \in 0..MaxLapses /\ restarts' \in 0..MaxRestarts
    BY <1>1, RunTyping, RunBounds DEF RunInv, RunTypes
<1>3. /\ run' \in RunRow /\ claim' \in [Rows!Claims -> ClaimRow]
      /\ \/ run'.status = "failed" /\ \A c \in Rows!Claims : ~claim'[c].active
         \/ UNCHANGED <<run, claim>>
    BY <1>1, RunTyping, Released DEF RunRow
<1>4. RunInv'
    BY <1>1, <1>2, <1>3, RunTyping, RunStep2
<1>5. QED
    BY <1>1, <1>3, <1>4
       DEF RunStepOK, LeaseStep, ReportStep, Rows!Unleased, Rows!MissedReport,
           Rows!ActiveClaims, Rows!Claims

LEMMA MoreTransactions ==
    ASSUME NEW D, Rows!Claims \subseteq D
    PROVE  Transaction \subseteq TransactionOf(D)
<1>1. [op : {"recover"}, locked : SUBSET Rows!Claims, seen : Rows!RunStatus]
         \subseteq [op : {"recover"}, locked : SUBSET D, seen : Rows!RunStatus]
    OBVIOUS
<1>2. [op : {"heartbeat"}, claim : Rows!Claims] \subseteq [op : {"heartbeat"}, claim : D]
    OBVIOUS
<1>3. [op : {"heartbeat"}, claim : Rows!Claims, locked : SUBSET Rows!Claims,
       seen : Rows!RunStatus, seq : Rows!Seq]
         \subseteq [op : {"heartbeat"}, claim : D, locked : SUBSET D,
                    seen : Rows!RunStatus, seq : Rows!Seq]
    OBVIOUS
<1>4. [op : {"complete"}, locked : SUBSET Rows!Claims, claim : Rows!Claims,
       result : Rows!Result, seen : RunRow, due : BOOLEAN]
         \subseteq [op : {"complete"}, locked : SUBSET D, claim : D,
                    result : Rows!Result, seen : RunRow, due : BOOLEAN]
    OBVIOUS
<1>5. QED
    BY <1>1, <1>2, <1>3, <1>4, ZenonT(40) DEF Transaction, TransactionOf

\* The instance counts as the module it instantiates does.
LEMMA SameCardinality ==
    ASSUME NEW S
    PROVE  Rows!Cardinality(S) = Cardinality(S)
BY DEF Rows!Cardinality, Cardinality

\* A claim is added at the end of the claims there are.
LEMMA ClaimIsOK ==
    ASSUME RunInv, Rows!ClaimActivation
    PROVE  RunStepOK
<1>1. PICK n \in 0..MaxClaims : Rows!Claims = 1..n
    BY DEF RunInv, RunTypes
<1>2. Rows!Cardinality(Rows!Claims) = n
    BY <1>1, FS_Interval, SameCardinality
<1>3. PICK r, act, E :
          /\ r = Rows!RecoveredRun(Rows!StaleClaims, run.status)
          /\ act \in Rows!RecoveredActivations(Rows!StaleClaims, run.status)
          /\ activation' = [act EXCEPT ![run.seq] = "dispatched"]
          /\ E = Rows!ExpiredClaims(Rows!StaleClaims)
    BY DEF Rows!ClaimActivation
<1>4. /\ r.status = "queued" /\ n + 1 \in Rows!Claim
      /\ run' = [r EXCEPT !.status = "dispatched"]
      /\ activation' = [act EXCEPT ![run.seq] = "dispatched"]
      /\ claim' = [d \in Rows!Claims \cup {n + 1} |->
            IF d = n + 1 THEN [seq |-> run.seq, active |-> TRUE,
                               lapsed |-> FALSE, working |-> TRUE]
            ELSE E[d]]
      /\ UNCHANGED <<cancel, pending, calls, txn, waitsFor, inputs, lapses, restarts>>
    <2>1. PICK m : m = Rows!Cardinality(Rows!Claims) + 1
        OBVIOUS
    <2>2. /\ r.status = "queued" /\ m \in Rows!Claim
          /\ run' = [r EXCEPT !.status = "dispatched"]
          /\ activation' = [act EXCEPT ![run.seq] = "dispatched"]
          /\ claim' = [d \in Rows!Claims \cup {m} |->
                IF d = m THEN [seq |-> run.seq, active |-> TRUE,
                               lapsed |-> FALSE, working |-> TRUE]
                ELSE E[d]]
          /\ UNCHANGED <<cancel, pending, calls, txn, waitsFor, inputs, lapses, restarts>>
        BY <1>3, <2>1 DEF Rows!ClaimActivation
    <2>3. m = n + 1
        BY <1>2, <2>1
    <2>4. QED
        BY <2>2, <2>3
<1>5. E \in [Rows!Claims -> ClaimRow]
    <2>1. claim \in [Rows!Claims -> ClaimRow]
        BY RunTyping
    <2>2. E = Rows!ExpiredClaims(Rows!StaleClaims)
        BY <1>3
    <2>3. QED
        BY <2>1, <2>2 DEF Rows!ExpiredClaims, ClaimRow
<1>6. /\ n + 1 \in 1..MaxClaims /\ Rows!Claims \cup {n + 1} = 1..(n + 1)
      /\ n + 1 \in 0..MaxClaims
    BY <1>1, <1>4, RunBounds DEF Rows!Claim
<1>7. /\ Rows!Claims' = 1..(n + 1) /\ Rows!Claims \subseteq Rows!Claims'
      /\ n + 1 \in Rows!Claims'
    BY <1>4, <1>6 DEF Rows!Claims
<1>8. claim' \in [Rows!Claims' -> ClaimRow] /\ claim'[n + 1].active
    BY <1>4, <1>5, <1>6, <1>7, RunTyping DEF ClaimRow
<1>9. r \in RunRow /\ act \in [Rows!Seq -> ActivationStatus]
    <2>1. Rows!StaleClaims \in SUBSET Rows!Claims
        BY DEF Rows!StaleClaims, Rows!ActiveClaims
    <2>2. act \in [Rows!Seq -> ActivationStatus]
        BY <1>3, <2>1, RecoveredAreTyped
    <2>3. QED
        BY <1>3, <2>2, RunTyping DEF Rows!RecoveredRun, RunRow
<1>10. /\ run' \in RunRow /\ run'.status = "dispatched"
       /\ activation' \in [Rows!Seq -> ActivationStatus]
    BY <1>4, <1>9, RunTyping DEF RunRow, ActivationStatus
<1>11. txn' \in [Txn -> Transaction']
    <2>1. PICK D : D = Rows!Claims'
        OBVIOUS
    <2>2. Transaction' = TransactionOf(D)
        BY <2>1, Zenon DEF Transaction, TransactionOf
    <2>3. Transaction \subseteq TransactionOf(D)
        BY <1>7, <2>1, MoreTransactions
    <2>4. QED
        BY <1>4, <2>2, <2>3, RunTyping
<1>12. RunTypes'
    BY <1>4, <1>6, <1>7, <1>8, <1>10, <1>11 DEF RunInv, RunTypes
<1>13. RunInv'
    BY <1>4, <1>10, <1>12 DEF RunInv, Rows!ClosedRunReleased
<1>14. LeaseStep
    BY <1>7, <1>8 DEF LeaseStep, Rows!Unleased, Rows!ActiveClaims
<1>15. QED
    BY <1>10, <1>13, <1>14 DEF RunStepOK, ReportStep, Rows!MissedReport

LEMMA RunNext ==
    ASSUME RunInv, Rows!Next
    PROVE  RunStepOK
<1>1. ASSUME NEW c \in Rows!Claims,
             \/ Rows!LeaseLapses(c) \/ Rows!WorkerStops(c) \/ Rows!WorkerGivesUp(c)
             \/ \E t \in Txn : Rows!WorkerStep(t, c)
      PROVE  RunStepOK
    BY <1>1, WorkersAreOK, ReadsAreOK
<1>2. ASSUME NEW t \in Txn,
             \/ Rows!RecoverLock(t) \/ Rows!ContinueRead(t) \/ Rows!CancelRead(t)
             \/ Rows!StopRead(t) \/ Rows!Write(t)
      PROVE  RunStepOK
    BY <1>2, ReadsAreOK, RecoverIsOK, HeartbeatIsOK, EventIsOK, CallIsOK, CompleteIsOK,
       ContinueIsOK, CancelIsOK, StopIsOK DEF Rows!Write
<1>3. QED
    BY <1>1, <1>2, ClaimIsOK, ReportIsOK, HostRestartIsOK DEF Rows!Next

LEMMA RunStays ==
    ASSUME RunInv, UNCHANGED runVars
    PROVE  RunStepOK
<1>1. RunInv'
    BY DEF runVars, RunInv, RunTypes, Transaction, TransactionOf, Rows!Claims,
       Rows!ClosedRunReleased, Rows!ActiveClaims
<1>2. Rows!ActiveClaims' = Rows!ActiveClaims
    BY DEF runVars, Rows!ActiveClaims, Rows!Claims
<1>3. QED
    BY <1>1, <1>2, SameRows DEF RunStepOK, runVars

LEMMA RunInit ==
    ASSUME Rows!Init
    PROVE  RunInv
<1> USE DEF Rows!Init
<1>1. run \in RunRow /\ activation \in [Rows!Seq -> ActivationStatus]
    BY RunBounds DEF RunRow, ActivationStatus, Rows!RunStatus, Rows!NoReason, Rows!Seq
<1>2. Rows!Claims = {}
    BY DEF Rows!Claims
<1>3. claim \in [Rows!Claims -> ClaimRow] /\ Rows!Claims = 1..0 /\ 0 \in 0..MaxClaims
    BY <1>2, RunBounds DEF Rows!Claims
<1>4. txn \in [Txn -> Transaction] /\ \A t \in Txn : txn[t].op # "recover"
    BY IdleTransaction
<1>5. /\ cancel \in 0..MaxSeq /\ lapses \in 0..MaxLapses /\ restarts \in 0..MaxRestarts
      /\ pending \in Nat /\ calls \in Nat /\ calls + pending <= MaxCalls
    BY RunBounds
<1>6. waitsFor \in [Rows!Claim -> Txn \cup {"none"}] /\ inputs \in Nat
    OBVIOUS
<1>7. RunTypes
    BY <1>1, <1>3, <1>4, <1>5, <1>6 DEF RunTypes
<1>8. QED
    BY <1>4, <1>7 DEF RunInv, Rows!ClosedRunReleased

-----------------------------------------------------------------------------
(* The parts together.                                                     *)

LEMMA StoresInit ==
    ASSUME Init
    PROVE  StoresInv
BY RunInit, TaskflowInit, AssignmentInit, OneByOneInit DEF Init, StoresInv

LEMMA StoresNext ==
    ASSUME StoresInv, [Next]_vars
    PROVE  StoresInv' /\ LeaseStep /\ ReportStep
<1>1. RunInv /\ TaskflowInv /\ AssignmentInv
    BY DEF StoresInv
<1>2. CASE part = "run" /\ RunStep
    <2>1. RunStepOK
        BY <1>1, <1>2, RunNext DEF RunStep
    <2>2. TaskflowInv' /\ AssignmentInv' /\ UNCHANGED part
        BY <1>1, <1>2, TaskflowStays, AssignmentStays DEF RunStep
    <2>3. QED
        BY <1>2, <2>1, <2>2 DEF StoresInv, RunStepOK
<1>3. CASE part \in {"requests", "one by one"} /\ TaskflowStep
                /\ (part = "one by one" => OneByOne')
    <2>1. RunStepOK
        BY <1>1, <1>3, RunStays DEF TaskflowStep
    <2>2. TaskflowInv' /\ AssignmentInv' /\ UNCHANGED part
        BY <1>1, <1>3, TaskflowNext, AssignmentStays DEF TaskflowStep
    <2>3. part = "one by one" => OneByOneInv'
        BY <1>1, <1>3, OneByOneNext DEF StoresInv, TaskflowStep
    <2>4. QED
        BY <1>3, <2>1, <2>2, <2>3 DEF StoresInv, RunStepOK
<1>4. CASE part = "assignments" /\ AssignmentStep
    <2>1. RunStepOK
        BY <1>1, <1>4, RunStays DEF AssignmentStep
    <2>2. TaskflowInv' /\ AssignmentInv' /\ UNCHANGED part
        BY <1>1, <1>4, TaskflowStays, AssignmentNext DEF AssignmentStep
    <2>3. QED
        BY <1>4, <2>1, <2>2 DEF StoresInv, RunStepOK
<1>5. CASE UNCHANGED vars
    <2>1. RunStepOK
        BY <1>1, <1>5, RunStays DEF vars
    <2>2. TaskflowInv' /\ AssignmentInv' /\ UNCHANGED part
        BY <1>1, <1>5, TaskflowStays, AssignmentStays DEF vars
    <2>3. part = "one by one" => OneByOneInv'
        BY <1>5, OneByOneStays DEF StoresInv, vars
    <2>4. QED
        BY <2>1, <2>2, <2>3 DEF StoresInv, RunStepOK
<1>6. QED
    BY <1>2, <1>3, <1>4, <1>5 DEF Next

LEMMA StoresAlways == Spec => []StoresInv
<1>1. Init => StoresInv
    BY StoresInit
<1>2. StoresInv /\ [Next]_vars => StoresInv'
    BY StoresNext
<1>3. QED
    BY <1>1, <1>2, PTL DEF Spec

LEMMA StoresTypes ==
    ASSUME StoresInv
    PROVE  TypeOK
<1>1. RunInv /\ TaskflowInv /\ AssignmentInv
    BY DEF StoresInv
<1>2. PICK n \in 0..MaxClaims : Rows!Claims = 1..n
    BY <1>1 DEF RunInv, RunTypes
<1>3. claim \in [1..n -> [seq : Rows!Seq, active : BOOLEAN, lapsed : BOOLEAN,
                          working : BOOLEAN]]
    BY <1>1, <1>2, RunTyping DEF ClaimRow
<1>4. pending \in 0..MaxCalls /\ calls \in 0..MaxCalls /\ DOMAIN txn = Txn
    BY <1>1, RunTyping, RunBounds
<1>5. Rows!TypeOK
    BY <1>1, <1>3, <1>4, RunTyping
       DEF RunInv, RunTypes, RunRow, ActivationStatus, Rows!TypeOK
<1>6. Taskflows!TypeOK
    BY <1>1 DEF TaskflowInv, TaskflowTypes, Honest, Truthful, Taskflows!TypeOK
<1>7. Assignments!TypeOK
    BY <1>1 DEF AssignmentInv, AssignmentTypes, AssignmentRecord, RecordOf,
       Assignments!TypeOK
<1>8. QED
    BY <1>5, <1>6, <1>7 DEF TypeOK

\* Whatever transactions, requests and restarts overlap, rows, snapshots and
\* records keep the form the code gives them; a confirmed brief is never newer
\* than the current one, and a dispatched assignment has a run.
THEOREM StoresAreTyped == Spec => []TypeOK
BY StoresAlways, StoresTypes, PTL

\* A run that completed, failed or was cancelled in one transaction has no live
\* claim, whatever other transactions had read before it.
THEOREM EndReleasesRows == Spec => []ClosedRunReleased
<1>1. StoresInv => ClosedRunReleased
    BY DEF StoresInv, RunInv, ClosedRunReleased
<1>2. QED
    BY <1>1, StoresAlways, PTL

\* Every dispatched AgentRun comes from a decision a user agreed to and from a
\* draft a user confirmed; with requests one after another, also from a plan
\* compiled after the last override or memory patch.
THEOREM DispatchIsConfirmed == Spec => []OnlyConfirmedRuns
<1>1. StoresInv => OnlyConfirmedRuns
    BY DEF StoresInv, TaskflowInv, OneByOneInv, OnlyConfirmedRuns
<1>2. QED
    BY <1>1, StoresAlways, PTL

\* A cancelled assignment stays cancelled and undispatched, unless a request
\* held a copy of it when it was cancelled.
THEOREM CancelIsKept == Spec => []CancelHolds
<1>1. StoresInv => CancelHolds
    BY DEF StoresInv, AssignmentInv, CancelIsSafe, CancelHolds, Assignments!CancelHolds
<1>2. QED
    BY <1>1, StoresAlways, PTL

\* A run in execution is left without a claim by no step but the three overlaps:
\* a late event, a recovery by an outdated status, a heartbeat for a released
\* claim.
THEOREM LeaseIsLostByOverlap == Spec => LeaseLostOnlyToOverlap
<1>1. StoresInv /\ [Next]_vars =>
        [(Rows!Unleased' /\ ~Rows!Unleased) =>
            \E t \in Txn :
               /\ txn'[t] = Rows!Idle
               /\ \/ txn[t].op = "event"
                  \/ txn[t].op = "recover" /\ txn[t].seen # run.status
                  \/ txn[t].op = "heartbeat" /\ ~claim[txn[t].claim].active]_Rows!vars
    BY StoresNext DEF LeaseStep
<1>2. QED
    BY <1>1, StoresAlways, PTL DEF Spec, LeaseLostOnlyToOverlap, Rows!LeaseLostOnlyToOverlap

\* The end of a called run and the completion of its caller never overlook each
\* other: only a late mark of an agent call parks a caller with a report there.
THEOREM ReportIsSeen == Spec => ReportMissedOnlyByLateMark
<1>1. StoresInv /\ [Next]_vars =>
        [(Rows!MissedReport' /\ ~Rows!MissedReport) =>
            \E t \in Txn : txn[t].op = "call" /\ txn'[t] = Rows!Idle]_Rows!vars
    BY StoresNext DEF ReportStep
<1>2. QED
    BY <1>1, StoresAlways, PTL
       DEF Spec, ReportMissedOnlyByLateMark, Rows!ReportMissedOnlyByLateMark
=============================================================================
