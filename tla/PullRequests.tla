---------------------------- MODULE PullRequests ----------------------------
(***************************************************************************)
(* The pull request of a completed AgentRun and its record: the record is  *)
(* kept by webhooks of GitHub, which are lost, repeated and reordered, and *)
(* by a thread that reconciles the open records from time to time. A       *)
(* review comment becomes a follow-up assignment, whoever sees it first.   *)
(***************************************************************************)
EXTENDS Naturals, FiniteSets

CONSTANTS
    Task,        \* completed AgentRuns with a pushed branch
    Comment,     \* review comments on the pull request of a task
    Handler,     \* threads of HTTP handlers
    NoTask,      \* not a task
    PageSize,    \* review comments that GitHub lists in an answer
    MaxChanges,  \* bound: changes of a pull request's state
    MaxDeliveries, \* bound: webhook deliveries
    MaxFailures, \* bound: calls that fail
    MaxRestarts  \* bound: restarts of the server

CONSTANT Reconciler  \* the reconcile thread

PullRequestsAssumption ==
    /\ {PageSize, MaxChanges, MaxDeliveries, MaxFailures, MaxRestarts} \subseteq Nat
    /\ IsFiniteSet(Handler)
    /\ Reconciler \notin Handler /\ NoTask \notin Task

VARIABLES
    pull,      \* GitHub's pull request of the task's branch
    posted,    \* [Comment -> task it was posted on, NoTask if it was not]
    sent,      \* webhook deliveries GitHub has made
    delivery,  \* [number of delivery -> status recorded for it]
    record,    \* [Task -> status of the saved record]
    linked,    \* comments whose saved record has an assignment
    followups, \* [Comment -> follow-up assignments created for it]
    thread,    \* [Handler and Reconciler -> what it is doing]
    failures, restarts

vars == <<pull, posted, sent, delivery, record, linked, followups, thread, failures, restarts>>

Thread == Handler \cup {Reconciler}
Deliveries == 1..MaxDeliveries
Free == [at |-> "idle"]

TypeOK ==
    /\ pull \in [Task -> {"none", "open", "closed", "merged"}]
    /\ record \in [Task -> {"none", "open", "closed", "merged"}]
    /\ \A t \in Task : record[t] # "none" => pull[t] # "none"
    /\ linked \subseteq {c \in Comment : posted[c] # NoTask}
    /\ \A d \in sent : d.number \in Deliveries
    /\ delivery \in [Deliveries -> {"unseen", "processing", "processed", "failed"}]

Init ==
    /\ pull = [t \in Task |-> "none"]
    /\ posted = [c \in Comment |-> NoTask]
    /\ sent = {}
    /\ delivery = [n \in Deliveries |-> "unseen"]
    /\ record = [t \in Task |-> "none"]
    /\ linked = {}
    /\ followups = [c \in Comment |-> 0]
    /\ thread = [w \in Thread |-> Free]
    /\ failures = 0 /\ restarts = 0

Becomes(w, s) == thread' = [thread EXCEPT ![w] = s]
github == <<pull, posted, sent>>
saved == <<delivery, record, linked, followups>>
faults == <<failures, restarts>>

-----------------------------------------------------------------------------
(* GitHub (external) *)

Deliver(d) == Cardinality(sent) < MaxDeliveries /\ sent' = sent \cup {d}
Number == Cardinality(sent) + 1

\* A user closes, reopens or merges the pull request; merged is for good.
Change(t, state) ==
    /\ Cardinality({d \in sent : d.kind = "pull"}) < MaxChanges
    /\ \/ pull[t] = "open" /\ state \in {"closed", "merged"}
       \/ pull[t] = "closed" /\ state = "open"
    /\ pull' = [pull EXCEPT ![t] = state]
    /\ Deliver([number |-> Number, kind |-> "pull", task |-> t, state |-> state])
    /\ UNCHANGED <<posted, delivery, record, linked, followups, thread, faults>>

Post(c, t) ==
    /\ posted[c] = NoTask /\ pull[t] = "open"
    /\ posted' = [posted EXCEPT ![c] = t]
    /\ Deliver([number |-> Number, kind |-> "comment", task |-> t, comment |-> c])
    /\ UNCHANGED <<pull, delivery, record, linked, followups, thread, faults>>

\* The comment is edited: a delivery of its own, and the same comment.
Edit(c) ==
    /\ posted[c] # NoTask
    /\ Cardinality({d \in sent : d.kind = "comment" /\ d.comment = c}) < 2
    /\ Deliver([number |-> Number, kind |-> "comment", task |-> posted[c], comment |-> c])
    /\ UNCHANGED <<pull, posted, delivery, record, linked, followups, thread, faults>>

\* A user reviews the pull request.
Review(t) ==
    /\ pull[t] # "none"
    /\ Deliver([number |-> Number, kind |-> "review", task |-> t])
    /\ UNCHANGED <<pull, posted, delivery, record, linked, followups, thread, faults>>

\* The first delivery for b is older than those for c.
PostedBefore(b, c) ==
    \E d \in sent : /\ d.kind = "comment" /\ d.comment = b
                    /\ \A e \in sent : e.kind = "comment" /\ e.comment = c
                                         => d.number < e.number

-----------------------------------------------------------------------------
(* ensure_pr_for_task: when the AgentRun completed, or an administrator retries *)

EnsureStart(w, t) ==
    /\ thread[w] = Free /\ w # Reconciler /\ record[t] = "none"
    /\ Becomes(w, [at |-> "ensure", task |-> t])
    /\ UNCHANGED <<github, saved, faults>>

\* The open pull request of the branch is reused; otherwise one is created, which
\* GitHub refuses where the branch is merged: that one is found then, in a list
\* that says closed of it and not whether it is merged.
EnsurePull(w) ==
    LET t == thread[w].task
    IN /\ thread[w].at = "ensure"
       /\ pull' = [pull EXCEPT ![t] = IF @ = "merged" THEN @ ELSE "open"]
       /\ Becomes(w, [at |-> "created", task |-> t,
                      state |-> IF pull[t] = "merged" THEN "closed" ELSE "open"])
       /\ UNCHANGED <<posted, sent, saved, faults>>

\* The record has the status the pull request had when it was found.
EnsureSave(w) ==
    /\ thread[w].at = "created"
    /\ record' = [record EXCEPT ![thread[w].task] = thread[w].state]
    /\ Becomes(w, Free)
    /\ UNCHANGED <<github, delivery, linked, followups, faults>>

\* A call to GitHub or the artifact fails: the answer says so, nothing is kept.
EnsureFail(w) ==
    /\ thread[w].at \in {"ensure", "created"} /\ failures < MaxFailures
    /\ failures' = failures + 1
    /\ Becomes(w, Free)
    /\ UNCHANGED <<github, saved, restarts>>

-----------------------------------------------------------------------------
(* Webhooks *)

\* A delivery GitHub repeats is known by its id, whatever became of it.
Receive(w, d) ==
    /\ thread[w] = Free /\ w # Reconciler
    /\ delivery[d.number] = "unseen"
    /\ delivery' = [delivery EXCEPT ![d.number] = "processing"]
    /\ Becomes(w, [at |-> "webhook", delivery |-> d])
    /\ UNCHANGED <<github, record, linked, followups, faults>>

Marked(d, status) == delivery' = [delivery EXCEPT ![d.number] = status]

\* The status of the payload replaces that of the record, whatever was written
\* since the record was read.
SyncPull(w) ==
    LET d == thread[w].delivery
    IN /\ thread[w].at = "webhook" /\ d.kind = "pull"
       /\ record' = [record EXCEPT ![d.task] = IF @ = "none" THEN @ ELSE d.state]
       /\ Marked(d, "processed")
       /\ Becomes(w, Free)
       /\ UNCHANGED <<github, linked, followups, faults>>

\* A review brings no status: the record is read ...
ReviewRead(w) ==
    LET d == thread[w].delivery
    IN /\ thread[w].at = "webhook" /\ d.kind = "review"
       /\ IF record[d.task] = "none"
          THEN Marked(d, "processed") /\ Becomes(w, Free)
          ELSE /\ Becomes(w, [at |-> "review", delivery |-> d, state |-> record[d.task]])
               /\ UNCHANGED delivery
       /\ UNCHANGED <<github, record, linked, followups, faults>>

\* ... and written back whole, with the status it had.
ReviewSave(w) ==
    LET d == thread[w].delivery
    IN /\ thread[w].at = "review"
       /\ record' = [record EXCEPT ![d.task] = thread[w].state]
       /\ Marked(d, "processed")
       /\ Becomes(w, Free)
       /\ UNCHANGED <<github, linked, followups, faults>>

\* The comment is saved, with the assignment it already has.
SyncComment(w) ==
    LET d == thread[w].delivery
    IN /\ thread[w].at = "webhook" /\ d.kind = "comment"
       /\ IF record[d.task] = "none" \/ d.comment \in linked
          THEN Marked(d, "processed") /\ Becomes(w, Free)
          ELSE /\ Becomes(w, [at |-> "followup", delivery |-> d, comment |-> d.comment,
                              task |-> d.task, left |-> {}])
               /\ UNCHANGED delivery
       /\ UNCHANGED <<github, record, linked, followups, faults>>

\* The delivery fails: its status is kept, and a repetition is a duplicate.
WebhookFail(w) ==
    /\ thread[w].at \in {"webhook", "review"} /\ failures < MaxFailures
    /\ failures' = failures + 1
    /\ Marked(thread[w].delivery, "failed")
    /\ Becomes(w, Free)
    /\ UNCHANGED <<github, record, linked, followups, restarts>>

-----------------------------------------------------------------------------
(* Reconciling *)

\* Mutant: the records that are not open are listed.
ReconcileReadClosed(t) ==
    /\ thread[Reconciler] = Free /\ record[t] \in {"closed", "merged"}
    /\ Becomes(Reconciler, [at |-> "read", task |-> t, state |-> pull[t]])
    /\ UNCHANGED <<github, saved, faults>>

\* The open records one by one: the pull request is read first.
ReconcileRead(t) ==
    /\ thread[Reconciler] = Free /\ record[t] = "open"
    /\ Becomes(Reconciler, [at |-> "read", task |-> t, state |-> pull[t]])
    /\ UNCHANGED <<github, saved, faults>>

\* The comments the client asks for are those of the first page, the oldest.
OnTask(t) ==
    LET on == {c \in Comment : posted[c] = t}
    IN  {c \in on : Cardinality({b \in on : PostedBefore(b, c)}) < PageSize}

\* Its reviews and comments are read too before the record is updated with the
\* state that was read.
ReconcileUpdate ==
    LET s == thread[Reconciler]
    IN /\ s.at = "read"
       /\ record' = [record EXCEPT ![s.task] = s.state]
       /\ Becomes(Reconciler, [at |-> "comments", task |-> s.task, left |-> OnTask(s.task)])
       /\ UNCHANGED <<github, delivery, linked, followups, faults>>

ReconcileComment ==
    LET s == thread[Reconciler]
    IN /\ s.at = "comments"
       /\ IF s.left = {} THEN Becomes(Reconciler, Free)
          ELSE \E c \in s.left :
                 Becomes(Reconciler,
                    IF c \in linked THEN [s EXCEPT !.left = @ \ {c}]
                    ELSE [at |-> "followup", comment |-> c, task |-> s.task,
                          left |-> s.left \ {c}])
       /\ UNCHANGED <<github, saved, faults>>

\* Any call of it fails: the next round reads the pull request again.
ReconcileFail ==
    /\ thread[Reconciler].at \in {"read", "comments"} /\ failures < MaxFailures
    /\ failures' = failures + 1
    /\ Becomes(Reconciler, Free)
    /\ UNCHANGED <<github, saved, restarts>>

-----------------------------------------------------------------------------
(* A follow-up, by either *)

\* What a thread goes on with when a comment is done.
AfterComment(w) ==
    IF w = Reconciler
    THEN /\ Becomes(w, [at |-> "comments", task |-> thread[w].task, left |-> thread[w].left])
         /\ UNCHANGED delivery
    ELSE /\ Becomes(w, Free)
         /\ Marked(thread[w].delivery, "processed")

CreateFollowup(w) ==
    /\ thread[w].at = "followup"
    /\ followups' = [followups EXCEPT ![thread[w].comment] = @ + 1]
    /\ Becomes(w, [thread[w] EXCEPT !.at = "assigned"])
    /\ UNCHANGED <<github, delivery, record, linked, faults>>

LinkFollowup(w) ==
    /\ thread[w].at = "assigned"
    /\ linked' = linked \cup {thread[w].comment}
    /\ AfterComment(w)
    /\ UNCHANGED <<github, record, followups, faults>>

\* The assignment of the comment is cleared, whoever had set it.
FailFollowup(w) ==
    /\ thread[w].at \in {"followup", "assigned"} /\ failures < MaxFailures
    /\ failures' = failures + 1
    /\ linked' = linked \ {thread[w].comment}
    /\ AfterComment(w)
    /\ UNCHANGED <<github, record, followups, restarts>>

Restart ==
    /\ restarts < MaxRestarts
    /\ restarts' = restarts + 1
    /\ thread' = [w \in Thread |-> Free]
    /\ UNCHANGED <<github, saved, failures>>

FollowupStep(w) == CreateFollowup(w) \/ LinkFollowup(w)
ReconcileStep ==
    \/ \E t \in Task : ReconcileRead(t)
    \/ ReconcileUpdate \/ ReconcileComment \/ FollowupStep(Reconciler)

Next ==
    \/ \E t \in Task : \/ Review(t)
                      \/ \E state \in {"open", "closed", "merged"} : Change(t, state)
    \/ \E c \in Comment : Edit(c) \/ \E t \in Task : Post(c, t)
    \/ \E w \in Handler : \/ \E t \in Task : EnsureStart(w, t)
                          \/ EnsurePull(w) \/ EnsureSave(w) \/ EnsureFail(w)
                          \/ \E d \in sent : Receive(w, d)
                          \/ SyncPull(w) \/ ReviewRead(w) \/ ReviewSave(w)
                          \/ SyncComment(w) \/ WebhookFail(w) \/ FollowupStep(w)
    \/ \E w \in Thread : FailFollowup(w)
    \/ ReconcileStep \/ ReconcileFail
    \/ Restart

Spec == Init /\ [][Next]_vars

\* The reconcile loop waits its interval and runs again; no handler need go on,
\* and no webhook need arrive.
FairSpec == Spec /\ WF_vars(ReconcileStep)

-----------------------------------------------------------------------------
(* Properties *)

\* A merged pull request whose record says open is found, also when the webhook
\* was lost, failed, or was overtaken by an older one. (reconcile_open)
MergedIsSeen ==
    \A t \in Task : [](pull[t] = "merged") ~> (record[t] # "open")

\* A review comment on the first page of its pull request is followed up as long
\* as its record is open, whatever became of its webhook and of earlier attempts.
\* (reconcile_pr; of the comments behind the first page nobody but their webhook
\* tells the server.)
CommentIsFollowed ==
    \A c \in Comment :
        posted[c] # NoTask
            ~> \/ followups[c] > 0
               \/ posted[c] # NoTask /\ record[posted[c]] # "open"
               \/ \E t \in Task : posted[c] = t /\ c \notin OnTask(t)

-----------------------------------------------------------------------------
(* Follow-ups.                                                             *)

\* More than one follow-up of a comment is created only by threads that were at
\* the comment together, by a failure that cleared the assignment, or by a restart.
FollowupsBounded ==
    \A c \in Comment : followups[c] <= Cardinality(Thread) * (1 + failures + restarts)

-----------------------------------------------------------------------------
(* What a document, a comment or a test says and the code does not keep:   *)
(* README.md tells what happens instead.                                   *)

\* A comment gets one follow-up assignment: repeated deliveries and reconciling
\* find the one it has. (record_review_comment)
FollowupOnce == \A c \in Comment : followups[c] <= 1
=============================================================================
