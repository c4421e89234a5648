--------------------------- MODULE SessionBranches ---------------------------
(***************************************************************************)
(* The branches of one SessionRun: the bindings the control plane keeps in *)
(* memory, one per branch, the AgentRuns they stand for, the projection    *)
(* the windows see, and the requests (select, status, continue) which      *)
(* copy a binding, call the control plane and write the copy back.         *)
(***************************************************************************)
EXTENDS Naturals, FiniteSetsExt

CONSTANTS
    Branches,   \* bound: branches, numbered in the order of their creation
    Request,    \* requests of the windows
    MaxRetries  \* bound: retries by an administrator

SessionBranchesAssumption == Branches \in Nat \ {0} /\ MaxRetries \in Nat

VARIABLES
    run,      \* [Branch -> status of its AgentRun]
    binding,  \* _session_run_bindings: [Branch -> [status, selected]]
    shown,    \* the projection's selected_branch_binding_id
    marks,    \* branches whose entry in the projection says selected
    req,      \* [Request -> [op, at, branch, copy, list]]
    late,     \* history: branches that were bound after their run had failed
    retries

vars == <<run, binding, shown, marks, req, late, retries>>

Branch == 1..Branches
Main == 1
RunStatus == {"absent", "open", "completed", "failed"}
Binding == [status : {"none", "active", "closed"}, selected : BOOLEAN]
Unbound == [status |-> "none", selected |-> FALSE]
NoList == [b \in Branch |-> Unbound]
Idle == [op |-> "none", at |-> "idle", branch |-> Main,
         copy |-> Unbound, list |-> NoList]

TypeOK ==
    /\ run \in [Branch -> RunStatus]
    /\ binding \in [Branch -> Binding]
    /\ shown \in Branch
    /\ marks \subseteq {shown}
    /\ late \subseteq Branch
    /\ retries \in 0..MaxRetries
    /\ \A r \in Request :
         /\ req[r].at \in {"idle", "found", "resolved", "copied", "changed",
                           "listed", "answer", "seen"}
         /\ req[r].copy \in Binding

Init ==
    /\ run = [b \in Branch |-> IF b = Main THEN "open" ELSE "absent"]
    /\ binding = [b \in Branch |-> IF b = Main
                                   THEN [status |-> "active", selected |-> TRUE]
                                   ELSE Unbound]
    /\ shown = Main /\ marks = {Main}
    /\ req = [r \in Request |-> Idle]
    /\ late = {} /\ retries = 0

-----------------------------------------------------------------------------
(* The control plane *)

Closes(b) == run[b] = "failed"

\* upsert_session_run_binding: an active selected binding takes the selection
\* from the other active ones.
Upsert(b, new) ==
    binding' = [x \in Branch |->
        IF x = b THEN new
        ELSE IF new.selected /\ new.status = "active" /\ binding[x].status = "active"
             THEN [binding[x] EXCEPT !.selected = FALSE]
             ELSE binding[x]]

\* branch_agent_run: the derived run is submitted ...
SubmitBranch(b) ==
    /\ run[b] = "absent"
    /\ \E source \in Branch : binding[source].status = "active" /\ ~Closes(source)
    /\ run' = [run EXCEPT ![b] = "open"]
    /\ UNCHANGED <<binding, shown, marks, req, late, retries>>

\* ... and bound afterwards, if its source still is; it may be selected.
BindBranch(b) ==
    /\ run[b] # "absent" /\ binding[b].status = "none"
    /\ \E source \in Branch : binding[source].status = "active" /\ ~Closes(source)
    /\ \E selected \in BOOLEAN :
         Upsert(b, [status |-> "active", selected |-> selected])
    /\ late' = IF Closes(b) THEN late \cup {b} ELSE late
    /\ UNCHANGED <<run, shown, marks, req, retries>>

Finish(b) ==
    /\ run[b] = "open"
    /\ run' = [run EXCEPT ![b] = "completed"]
    /\ UNCHANGED <<binding, shown, marks, req, late, retries>>

\* A failed or cancelled run closes its active bindings.
Fail(b) ==
    /\ run[b] = "open"
    /\ run' = [run EXCEPT ![b] = "failed"]
    /\ binding' = IF binding[b].status = "active"
                  THEN [binding EXCEPT ![b].status = "closed"] ELSE binding
    /\ UNCHANGED <<shown, marks, req, late, retries>>

\* retry_agent_run does not touch the binding.
AdminRetry(b) ==
    /\ run[b] \in {"failed", "completed"}
    /\ retries < MaxRetries
    /\ retries' = retries + 1
    /\ run' = [run EXCEPT ![b] = "open"]
    /\ UNCHANGED <<binding, shown, marks, req, late>>
-----------------------------------------------------------------------------
(* Requests *)

\* sync_branch_bindings, the bindings in the order of the list: the entry of
\* each branch is replaced, and the last selected one is the selected branch.
Pointer(list) ==
    LET selected == {b \in Branch : list[b].selected}
    IN IF selected = {} THEN shown ELSE Max(selected)

Marks(list) ==
    LET listed == {b \in Branch : list[b].status # "none"}
    IN IF \A b \in Branch : ~list[b].selected THEN marks \ listed ELSE {Pointer(list)}

Begin(r, op, b) ==
    /\ req[r].at = "idle"
    /\ binding[b].status # "none"
    /\ req' = [req EXCEPT ![r] = [Idle EXCEPT !.op = op, !.at = "found",
                 !.branch = b, !.copy = binding[b], !.list = binding]]
    /\ UNCHANGED <<run, binding, shown, marks, late, retries>>

\* The list that was read is written to the projection.
Sync(r) ==
    /\ req[r].at \in {"found", "listed"}
    /\ shown' = Pointer(req[r].list)
    /\ marks' = Marks(req[r].list)
    /\ req' = [req EXCEPT ![r].at = IF @ = "found" THEN "resolved" ELSE "answer",
                          ![r].list = NoList]
    /\ UNCHANGED <<run, binding, late, retries>>

\* select_session_run_branch: the binding is found again and copied ...
SelectFind(r) ==
    /\ req[r].op = "select" /\ req[r].at = "resolved"
    /\ req' = [req EXCEPT ![r].at = "copied",
                          ![r].copy = [binding[req[r].branch] EXCEPT !.selected = TRUE]]
    /\ UNCHANGED <<run, binding, shown, marks, late, retries>>

\* ... and the copy is written.
SelectWrite(r) ==
    /\ req[r].op = "select" /\ req[r].at = "copied"
    /\ Upsert(req[r].branch, req[r].copy)
    /\ req' = [req EXCEPT ![r].at = "changed"]
    /\ UNCHANGED <<run, shown, marks, late, retries>>

\* It is read once more for the answer, and the bindings are listed.
SelectList(r) ==
    /\ req[r].at = "changed"
    /\ req' = [req EXCEPT ![r].at = "listed", ![r].copy = binding[req[r].branch],
                          ![r].list = binding]
    /\ UNCHANGED <<run, binding, shown, marks, late, retries>>

\* Mutant: a select request answers without a look at the run.
ReadRunOfStatus(r) ==
    /\ \/ req[r].op = "status" /\ req[r].at = "resolved"
       \/ req[r].op = "select" /\ req[r].at = "answer"
    /\ req' = [req EXCEPT ![r] =
                 IF req[r].op = "status" /\ Closes(req[r].branch)
                    /\ req[r].copy.status = "active"
                 THEN [@ EXCEPT !.at = "seen"] ELSE Idle]
    /\ UNCHANGED <<run, binding, shown, marks, late, retries>>

\* _send_session_run_status_response, of a status and of a select request:
\* the status of the run is read ...
ReadRun(r) ==
    /\ \/ req[r].op = "status" /\ req[r].at = "resolved"
       \/ req[r].op = "select" /\ req[r].at = "answer"
    /\ req' = [req EXCEPT ![r] =
                 IF Closes(req[r].branch) /\ req[r].copy.status = "active"
                 THEN [@ EXCEPT !.at = "seen"] ELSE Idle]
    /\ UNCHANGED <<run, binding, shown, marks, late, retries>>

\* ... and the binding of a failed run is closed, and recorded.
CloseSeen(r) ==
    /\ req[r].at = "seen"
    /\ binding' = [binding EXCEPT ![req[r].branch].status = "closed"]
    /\ IF binding[req[r].branch].selected
       THEN shown' = req[r].branch /\ marks' = {req[r].branch}
       ELSE marks' = marks \ {req[r].branch} /\ UNCHANGED shown
    /\ req' = [req EXCEPT ![r] = Idle]
    /\ UNCHANGED <<run, late, retries>>

\* continue_agent_run refuses a run that is not continuable; otherwise the
\* binding becomes active again, and keeps its selected flag.
Continue(r) ==
    LET b == req[r].branch IN
    /\ req[r].op = "continue" /\ req[r].at = "resolved"
    /\ IF run[b] = "completed"
       THEN /\ run' = [run EXCEPT ![b] = "open"]
            /\ binding' = [binding EXCEPT ![b].status = "active"]
       ELSE UNCHANGED <<run, binding>>
    /\ req' = [req EXCEPT ![r] = Idle]
    /\ UNCHANGED <<shown, marks, late, retries>>

Next ==
    \/ \E b \in Branch :
         \/ SubmitBranch(b) \/ BindBranch(b) \/ Finish(b) \/ Fail(b) \/ AdminRetry(b)
         \/ \E r \in Request, op \in {"select", "status", "continue"} : Begin(r, op, b)
    \/ \E r \in Request :
         \/ Sync(r) \/ SelectFind(r) \/ SelectWrite(r) \/ SelectList(r)
         \/ ReadRun(r) \/ CloseSeen(r) \/ Continue(r)

Spec == Init /\ [][Next]_vars
-----------------------------------------------------------------------------
(* Properties *)

Quiet == \A r \in Request : req[r].at = "idle"

\* Whatever requests interleave, the SessionRun always has a selected binding:
\* no upsert of a copy takes the selection away without giving it to another.
SomeSelected == \E b \in Branch : binding[b].selected

\* The binding of a failed run does not stay active: a select request that
\* writes a copy taken before the failure closes it again before it answers.
\* (A branch whose run fails before it is bound keeps an active binding until
\* the status of that branch is asked for.)
FailedIsClosed ==
    Quiet => \A b \in Branch \ late : Closes(b) => binding[b].status # "active"

-----------------------------------------------------------------------------
(* What a document, a comment or a test says and the code does not keep:   *)
(* README.md tells what happens instead.                                   *)

\* The index of the stored table: at most one active binding is selected
\* (0001_postgres_control_plane.py:229). A continued branch whose binding was
\* closed while it was selected comes back selected.
OneSelected ==
    \A b, c \in Branch :
        (binding[b].selected /\ binding[c].selected
         /\ binding[b].status = "active" /\ binding[c].status = "active") => b = c

\* A select request whose branch is active and still selected when it answers
\* leaves that branch selected in the projection: "branch select switches an
\* existing SessionRun branch binding". The closed binding of a failed branch
\* keeps its selected flag and is listed after it.
SelectIsShown ==
    [][\A r \in Request :
         (/\ req[r].op = "select" /\ req[r].at = "answer" /\ req'[r].at = "idle"
          /\ binding[req[r].branch] = [status |-> "active", selected |-> TRUE]
          /\ \A q \in Request \ {r} : req[q].at = "idle")
         => shown = req[r].branch]_vars
=============================================================================
