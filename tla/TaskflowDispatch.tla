-------------------------- MODULE TaskflowDispatch --------------------------
(***************************************************************************)
(* A taskflow on its way from a brief to an AgentRun: drafts of the brief, *)
(* its confirmation, the plan compiled from it, the dispatch decision and  *)
(* the dispatch. Every operation loads a copy of the whole state, works on *)
(* the copy and saves it whole; nothing serialises two requests, and       *)
(* nothing compares versions when a copy is saved.                         *)
(***************************************************************************)
EXTENDS Naturals, FiniteSets

CONSTANTS
    Taskflow,      \* taskflows of one project
    Handler,       \* handler threads
    MaxDrafts,     \* bound: drafts of briefs made
    MaxDecisions,  \* bound: dispatch decisions requested
    MaxRuns,       \* bound: TaskRuns created
    MaxMarks,      \* bound: overrides and memory patches
    MaxRestarts    \* bound: restarts of the server

TaskflowDispatchAssumption ==
    {MaxDrafts, MaxDecisions, MaxRuns, MaxMarks, MaxRestarts} \subseteq Nat

VARIABLES
    store,      \* [Taskflow -> saved snapshot]
    taskRuns,   \* TaskRuns in the saved project state
    cache,      \* _compiled_plans: [Taskflow -> draft the plan is of, 0 if none]
    agentRuns,  \* [TaskRun -> [decision, plan, unaccounted] of its AgentRun]
    handler,    \* [Handler -> the request in progress]
    count,      \* drafts, decisions, TaskRuns, marks and restarts so far
    agreed,     \* history: decisions a user confirmed
    confirmed,  \* history: drafts a user confirmed
    unaccounted \* history: [Taskflow -> an override or a patch was
                \* acknowledged and the taskflow was not compiled since]

vars == <<store, taskRuns, cache, agentRuns, handler, count, agreed, confirmed, unaccounted>>

Draft == 1..MaxDrafts
Decision == 1..MaxDecisions
TaskRun == 1..MaxRuns
Op == {"redraft", "reopen", "ready", "confirm", "compile", "request", "agree",
       "reject", "dispatch", "override", "patch", "resave"}

NoDecision == [status |-> "absent", brief |-> 0, stale |-> FALSE]
\* TaskflowState.new: no brief, no plan, no decision.
New == [status |-> "clarifying", current |-> 0, confirmed |-> 0, brief |-> "none",
        content |-> 0, plan |-> 0, stale |-> FALSE,
        decisions |-> [d \in Decision |-> NoDecision]]
Free == [at |-> "idle"]

Snapshot ==
    [status : {"clarifying", "confirmed", "compiled", "dispatched"},
     current : 0..MaxDrafts, confirmed : 0..MaxDrafts,
     brief : {"none", "draft", "ready", "confirmed"},
     content : 0..MaxDrafts, plan : 0..MaxDrafts, stale : BOOLEAN,
     decisions : [Decision -> [status : {"absent", "requested", "confirmed", "rejected"},
                               brief : 0..MaxDrafts, stale : BOOLEAN]]]

TypeOK ==
    /\ store \in [Taskflow -> Snapshot]
    /\ \A t \in Taskflow : store[t].confirmed <= store[t].current
    /\ taskRuns \subseteq 1..count.runs
    /\ cache \in [Taskflow -> 0..MaxDrafts]
    /\ \A r \in DOMAIN agentRuns : r \in 1..count.runs

Init ==
    /\ store = [t \in Taskflow |-> New]
    /\ taskRuns = {}
    /\ cache = [t \in Taskflow |-> 0]
    /\ agentRuns = <<>>
    /\ handler = [h \in Handler |-> Free]
    /\ count = [drafts |-> 0, decisions |-> 0, runs |-> 0, marks |-> 0, restarts |-> 0]
    /\ agreed = {} /\ confirmed = {}
    /\ unaccounted = [t \in Taskflow |-> FALSE]

-----------------------------------------------------------------------------
(* What the operations do to a copy *)

\* The current version of the brief is the confirmed one, and still confirmed.
Fresh(s) == s.current > 0 /\ s.current = s.confirmed /\ s.brief = "confirmed"

MarkStale(s) ==
    [s EXCEPT !.stale = TRUE, !.status = "confirmed",
              !.decisions = [d \in Decision |-> [@[d] EXCEPT !.stale = TRUE]]]

NewDraft(s, content) ==
    [s EXCEPT !.current = @ + 1, !.brief = "draft", !.content = content]

\* A recompiled plan: the marks are cleared, those of old decisions are kept.
Compiled(s) == [s EXCEPT !.plan = s.content, !.stale = FALSE, !.status = "compiled"]

Confirmed(s) ==
    [s EXCEPT !.brief = "confirmed", !.confirmed = s.current, !.status = "confirmed"]

\* The plan of a dispatch: the cached one, or the one compiled anew.
PlanOf(t, s) == IF cache[t] # 0 THEN cache[t]
                ELSE IF s.plan # 0 THEN s.content ELSE 0

\* Mutant: a requested decision is enough.
DispatchableEarly(s, d) ==
    /\ ~s.stale
    /\ s.decisions[d].status # "absent" /\ ~s.decisions[d].stale
    /\ s.decisions[d].brief = s.confirmed
    /\ Fresh(s)

Dispatchable(s, d) ==
    /\ ~s.stale
    /\ s.decisions[d].status = "confirmed" /\ ~s.decisions[d].stale
    /\ s.decisions[d].brief = s.confirmed
    /\ Fresh(s)

-----------------------------------------------------------------------------
(* Requests *)

\* A request loads the snapshot and the project state it works on.
Begin(h, op, t, d) ==
    /\ handler[h] = Free
    /\ op \in {"agree", "reject", "dispatch"} => d <= count.decisions
    /\ op \notin {"agree", "reject", "dispatch"} => d = 1
    /\ handler' = [handler EXCEPT ![h] =
           [at |-> op, taskflow |-> t, decision |-> d, run |-> 0, copy |-> store[t],
            taskRuns |-> taskRuns, unaccounted |-> unaccounted[t], others |-> <<>>]]
    /\ UNCHANGED <<store, taskRuns, cache, agentRuns, count, agreed, confirmed, unaccounted>>

At(h, op) == handler[h].at = op

\* save_taskflow_state: the whole copy, whatever was saved meanwhile.
Save(h, s) ==
    /\ store' = [store EXCEPT ![handler[h].taskflow] = s]
    /\ handler' = [handler EXCEPT ![h] = Free]

\* A request that raises has saved nothing.
Raise(h, precondition) ==
    /\ ~precondition
    /\ handler' = [handler EXCEPT ![h] = Free]
    /\ UNCHANGED <<store, taskRuns, cache, agentRuns, count, agreed, confirmed, unaccounted>>

Counted(field) == count' = [count EXCEPT ![field] = @ + 1]

\* record_discovery_turn makes the taskflow clarifying; complexity evidence, a
\* repository scan, a draft and an answered card leave its status. The scan saves
\* its copy of the project too.
Redraft(h) ==
    LET s == handler[h].copy
    IN /\ At(h, "redraft") /\ count.drafts < MaxDrafts
       /\ \E status \in {"clarifying", s.status} :
            Save(h, [NewDraft(s, count.drafts + 1) EXCEPT !.status = status])
       /\ taskRuns' \in {taskRuns, handler[h].taskRuns}
       /\ Counted("drafts")
       /\ UNCHANGED <<cache, agentRuns, agreed, confirmed, unaccounted>>

\* A reopened card marks the taskflow stale and makes a draft.
Reopen(h) ==
    /\ At(h, "reopen") /\ count.drafts < MaxDrafts
    /\ Save(h, NewDraft(MarkStale(handler[h].copy), count.drafts + 1))
    /\ Counted("drafts")
    /\ UNCHANGED <<taskRuns, cache, agentRuns, agreed, confirmed, unaccounted>>

\* A refreshed assessment, an accepted compiler decision, a discussed card and a
\* previewed patch (with the project) change nothing the model has, and save the
\* copy.
Resave(h) ==
    /\ At(h, "resave")
    /\ Save(h, handler[h].copy)
    /\ taskRuns' \in {taskRuns, handler[h].taskRuns}
    /\ UNCHANGED <<cache, agentRuns, count, agreed, confirmed, unaccounted>>

MarkReady(h) ==
    LET s == handler[h].copy
    IN /\ At(h, "ready")
       /\ \/ /\ s.current > 0
             /\ Save(h, [s EXCEPT !.brief = "ready"])
             /\ UNCHANGED <<taskRuns, cache, agentRuns, count, agreed, confirmed, unaccounted>>
          \/ Raise(h, s.current > 0)

Confirm(h) ==
    LET s == handler[h].copy
    IN /\ At(h, "confirm")
       /\ \/ /\ s.current > 0
             /\ Save(h, Confirmed(s))
             /\ confirmed' = confirmed \cup {s.content}
             /\ UNCHANGED <<taskRuns, cache, agentRuns, count, agreed, unaccounted>>
          \/ Raise(h, s.current > 0)

Compile(h) ==
    LET s == handler[h].copy
        t == handler[h].taskflow
        ok == Fresh(s) /\ s.status = "confirmed"
    IN /\ At(h, "compile")
       /\ \/ /\ ok
             /\ taskRuns' = handler[h].taskRuns
             /\ Save(h, Compiled(s))
             /\ cache' = [cache EXCEPT ![t] = s.content]
             /\ unaccounted' = [unaccounted EXCEPT ![t] = @ /\ ~handler[h].unaccounted]
             /\ UNCHANGED <<agentRuns, count, agreed, confirmed>>
          \/ Raise(h, ok)

RequestDecision(h) ==
    LET s == handler[h].copy
        d == count.decisions + 1
        ok == Fresh(s) /\ ~s.stale /\ s.plan # 0
    IN /\ At(h, "request")
       /\ \/ /\ ok /\ count.decisions < MaxDecisions
             /\ Save(h, [s EXCEPT !.decisions[d] =
                            [status |-> "requested", brief |-> s.confirmed, stale |-> FALSE]])
             /\ Counted("decisions")
             /\ UNCHANGED <<taskRuns, cache, agentRuns, agreed, confirmed, unaccounted>>
          \/ Raise(h, ok)

\* confirm_dispatch_decision looks at the brief only: a rejected decision can be
\* confirmed, and a stale one.
Agree(h) ==
    LET s == handler[h].copy
        d == handler[h].decision
        ok == s.decisions[d].status # "absent" /\ s.decisions[d].brief = s.confirmed
    IN /\ At(h, "agree")
       /\ \/ /\ ok
             /\ \E status \in {s.status, "compiled"} :
                  /\ status = "compiled" => Fresh(s) /\ s.plan # 0
                  /\ Save(h, [s EXCEPT !.decisions[d].status = "confirmed", !.status = status])
             /\ agreed' = agreed \cup {d}
             /\ UNCHANGED <<taskRuns, cache, agentRuns, count, confirmed, unaccounted>>
          \/ Raise(h, ok)

Reject(h) ==
    LET s == handler[h].copy
        d == handler[h].decision
    IN /\ At(h, "reject")
       /\ \/ /\ s.decisions[d].status # "absent"
             /\ Save(h, [s EXCEPT !.decisions[d].status = "rejected"])
             /\ UNCHANGED <<taskRuns, cache, agentRuns, count, agreed, confirmed, unaccounted>>
          \/ Raise(h, s.decisions[d].status # "absent")

\* A compiler decision other than accept; there is one only after a compile.
Override(h) ==
    LET s == handler[h].copy
    IN /\ At(h, "override")
       /\ \/ /\ s.plan # 0 /\ count.marks < MaxMarks
             /\ Save(h, MarkStale(s))
             /\ Counted("marks")
             /\ unaccounted' = [unaccounted EXCEPT ![handler[h].taskflow] = TRUE]
             /\ UNCHANGED <<taskRuns, cache, agentRuns, agreed, confirmed>>
          \/ Raise(h, s.plan # 0)

-----------------------------------------------------------------------------
(* Dispatch: the AgentRun is submitted before the TaskRun is saved *)

Submit(h) ==
    LET s == handler[h].copy
        t == handler[h].taskflow
        d == handler[h].decision
        ok == Dispatchable(s, d) /\ PlanOf(t, s) # 0
        r == count.runs + 1
    IN /\ At(h, "dispatch")
       /\ \/ /\ ok /\ count.runs < MaxRuns
             /\ cache' = [cache EXCEPT ![t] = PlanOf(t, s)]
             /\ agentRuns' = [x \in DOMAIN agentRuns \cup {r} |->
                    IF x = r THEN [decision |-> d, plan |-> PlanOf(t, s),
                                   unaccounted |-> handler[h].unaccounted]
                    ELSE agentRuns[x]]
             /\ handler' = [handler EXCEPT ![h].at = "submitted", ![h].run = r]
             /\ Counted("runs")
             /\ UNCHANGED <<store, taskRuns, agreed, confirmed, unaccounted>>
          \/ Raise(h, ok)

\* No agent can run it: the TaskRun stays PENDING, and is saved all the same.
SubmitNowhere(h) ==
    LET s == handler[h].copy
        t == handler[h].taskflow
    IN /\ At(h, "dispatch") /\ count.runs < MaxRuns
       /\ Dispatchable(s, handler[h].decision) /\ PlanOf(t, s) # 0
       /\ cache' = [cache EXCEPT ![t] = PlanOf(t, s)]
       /\ handler' = [handler EXCEPT ![h].at = "submitted", ![h].run = count.runs + 1]
       /\ Counted("runs")
       /\ UNCHANGED <<store, taskRuns, agentRuns, agreed, confirmed, unaccounted>>

SaveProject(h) ==
    /\ At(h, "submitted")
    /\ taskRuns' = handler[h].taskRuns \cup {handler[h].run}
    /\ handler' = [handler EXCEPT ![h].at = "linked"]
    /\ UNCHANGED <<store, cache, agentRuns, count, agreed, confirmed, unaccounted>>

SaveDispatched(h) ==
    LET s == handler[h].copy
    IN /\ At(h, "linked")
       /\ Save(h, IF handler[h].run \in DOMAIN agentRuns
                  THEN [s EXCEPT !.status = "dispatched"] ELSE s)
       /\ UNCHANGED <<taskRuns, cache, agentRuns, count, agreed, confirmed, unaccounted>>

-----------------------------------------------------------------------------
(* A project memory patch: the project, the other taskflows one by one as they
   were listed, and last the taskflow it was made in *)

PatchProject(h) ==
    /\ At(h, "patch") /\ count.marks < MaxMarks
    /\ taskRuns' = handler[h].taskRuns
    /\ handler' = [handler EXCEPT ![h].at = "patched",
           ![h].others = [t \in Taskflow \ {handler[h].taskflow} |-> store[t]]]
    /\ Counted("marks")
    /\ UNCHANGED <<store, cache, agentRuns, agreed, confirmed, unaccounted>>

PatchOther(h) ==
    /\ At(h, "patched")
    /\ \E t \in DOMAIN handler[h].others :
         /\ store' = [store EXCEPT ![t] = MarkStale(handler[h].others[t])]
         /\ handler' = [handler EXCEPT ![h].others =
                [u \in DOMAIN @ \ {t} |-> @[u]]]
    /\ UNCHANGED <<taskRuns, cache, agentRuns, count, agreed, confirmed, unaccounted>>

PatchOwn(h) ==
    /\ At(h, "patched") /\ DOMAIN handler[h].others = {}
    /\ Save(h, MarkStale(handler[h].copy))
    /\ unaccounted' = [t \in Taskflow |-> TRUE]
    /\ UNCHANGED <<taskRuns, cache, agentRuns, count, agreed, confirmed>>

\* A restart of the server: the requests and the compiled plans are gone.
Restart ==
    /\ count.restarts < MaxRestarts
    /\ handler' = [h \in Handler |-> Free]
    /\ cache' = [t \in Taskflow |-> 0]
    /\ Counted("restarts")
    /\ UNCHANGED <<store, taskRuns, agentRuns, agreed, confirmed, unaccounted>>

Next ==
    \/ \E h \in Handler :
         \/ \E op \in Op, t \in Taskflow, d \in Decision : Begin(h, op, t, d)
         \/ Redraft(h) \/ Reopen(h) \/ Resave(h) \/ MarkReady(h) \/ Confirm(h)
         \/ Compile(h) \/ RequestDecision(h) \/ Agree(h) \/ Reject(h) \/ Override(h)
         \/ Submit(h) \/ SubmitNowhere(h) \/ SaveProject(h) \/ SaveDispatched(h)
         \/ PatchProject(h) \/ PatchOther(h) \/ PatchOwn(h)
    \/ Restart

Spec == Init /\ [][Next]_vars

-----------------------------------------------------------------------------
(* Properties *)

\* What is dispatched was confirmed twice, however requests interleave: the
\* decision by a user, and the draft its plan was compiled from by a user.
\* (_confirmed_dispatch_decision, _assert_current_brief_confirmed)
OnlyConfirmedRuns ==
    \A r \in DOMAIN agentRuns :
        agentRuns[r].decision \in agreed /\ agentRuns[r].plan \in confirmed

\* After an acknowledged override or memory patch nothing is dispatched before
\* the taskflow is compiled again. (mark_taskflow_stale, assert_current)
RecompiledFirst == \A r \in DOMAIN agentRuns : ~agentRuns[r].unaccounted

-----------------------------------------------------------------------------
(* These were checked with this module alone; no standing run lists them. *)

\* With requests one after another, a version of the brief keeps its content.
\* (compile_draft: version + 1)
SnapshotIsImmutable ==
    [][\A t \in Taskflow :
          store'[t].current = store[t].current => store'[t].content = store[t].content]_vars

-----------------------------------------------------------------------------
(* What a document, a comment or a test says and the code does not keep:   *)
(* README.md tells what happens instead.                                   *)

\* Once its request has ended, an AgentRun of the taskflow is in a TaskRun of the
\* project. (dispatch_task_run: project.add_task_run)
AgentRunIsLinked ==
    \A r \in DOMAIN agentRuns :
        (\A h \in Handler : handler[h] = Free \/ handler[h].run # r) => r \in taskRuns
=============================================================================
