-------------------------- MODULE SessionRunTerminal --------------------------
(***************************************************************************)
(* How the end of an AgentRun becomes visible in its SessionRun: the       *)
(* projection of the AgentRun's event log by every request that polls, the *)
(* continue, stop and cancel handlers, and the event stream of a client.   *)
(*                                                                         *)
(* One selected branch.  The AgentRun is reduced to its activations and to *)
(* the events of its log that the projection treats as an end: the         *)
(* executor's session_run_end and the control plane's terminal events.     *)
(* Each handler runs in a thread of its own; its calls to the control      *)
(* plane and to the SessionRun take different locks, so other handlers run *)
(* between them.                                                           *)
(***************************************************************************)
EXTENDS Naturals, Sequences, FiniteSetsExt

CONSTANTS
    Caller,  \* handler threads of continue, stop and cancel requests
    Reader,  \* threads that project: status and events requests
    MaxAct,  \* bound: activations of the run
    Silent   \* activations whose executor reports no session_run_end

SessionRunTerminalAssumption ==
    MaxAct \in Nat \ {0} /\ Silent \subseteq 1..MaxAct

VARIABLES
    run,      \* status of the AgentRun
    act,      \* its current activation
    said,     \* the executor has reported session_run_end for act
    log,      \* the ending events of its log: [type, act]
    cursor,   \* _agent_run_projection_cursors_by_branch
    listed,   \* [Reader -> a listed range of the log, 0 when none]
    buf,      \* the events shown: [type, act, src], src the log entry or 0
    gone,     \* how many of them the bounded buffer has dropped
    binding,  \* status of the branch binding
    cancelled,\* cancel_requests_by_branch: the branch was asked to cancel
    op        \* [Caller -> where its handler is]

vars == <<run, act, said, log, cursor, listed, buf, gone, binding, cancelled, op>>

EndTypes == {"end", "failed", "cancelled"}
RunStatus == {"queued", "running", "cancelling", "completed", "failed", "cancelled"}
Idle == [at |-> "idle", first |-> FALSE, act |-> 0]

TypeOK ==
    /\ run \in RunStatus /\ act \in 1..MaxAct /\ said \in BOOLEAN
    /\ \A i \in DOMAIN log :
         log[i].type \in {"end", "completed", "failed", "cancelled"} /\ log[i].act \in 1..act
    /\ cursor \in 0..Len(log)
    /\ listed \in [Reader -> 0..Len(log)]
    /\ \A i \in DOMAIN buf :
         /\ buf[i].type \in EndTypes \cup {"continue", "stopped"}
         /\ buf[i].act \in 1..act /\ buf[i].src \in 0..Len(log)
    /\ gone \in 0..Len(buf)
    /\ binding \in {"running", "settled", "error", "cancelled", "done"}
    /\ cancelled \in BOOLEAN
    /\ \A c \in Caller : op[c].at \in {"idle", "cancel", "asked", "stopped", "continued"}

Init ==
    /\ run = "queued" /\ act = 1 /\ said = FALSE
    /\ log = <<>> /\ cursor = 0 /\ listed = [r \in Reader |-> 0]
    /\ buf = <<>> /\ gone = 0 /\ binding = "running" /\ cancelled = FALSE
    /\ op = [c \in Caller |-> Idle]

runVars == <<run, act, said, log>>
viewVars == <<cursor, buf, gone, binding>>

-----------------------------------------------------------------------------
(* The AgentRun *)

Claim ==
    /\ run = "queued" /\ run' = "running"
    /\ UNCHANGED <<act, said, log, viewVars, listed, cancelled, op>>

\* The executor streams its session_run_end before the result is completed.
SayEnd ==
    /\ run \in {"running", "cancelling"} /\ ~said /\ act \notin Silent
    /\ said' = TRUE
    /\ log' = Append(log, [type |-> "end", act |-> act])
    /\ UNCHANGED <<run, act, viewVars, listed, cancelled, op>>

\* The worker completes the activation; a cancel it has not seen in time does
\* not change its result.
Complete(status) ==
    /\ \/ run = "running" /\ status \in {"completed", "failed"}
       \/ run = "cancelling" /\ status \in {"completed", "failed", "cancelled"}
    /\ said \/ act \in Silent \/ status # "completed"
    /\ run' = status
    /\ log' = Append(log, [type |-> status, act |-> act])
    /\ UNCHANGED <<act, said, viewVars, listed, cancelled, op>>

-----------------------------------------------------------------------------
(* The projection *)

\* list_events after the cursor, up to 100 at a time.
List(r) ==
    /\ listed[r] = 0 /\ cursor < Len(log)
    /\ \E n \in cursor + 1 .. Len(log) : listed' = [listed EXCEPT ![r] = n]
    /\ UNCHANGED <<runVars, viewVars, cancelled, op>>

\* Mutant: what was listed is projected although the cursor has passed it.
FreshAll(n) == 1..n

\* Events at or before the cursor were projected by another request.
Fresh(n) == cursor + 1 .. n

\* _prune, for any event that is appended: the oldest of what is shown go.
Prune ==
    /\ \E n \in gone + 1 .. Len(buf) : gone' = n
    /\ UNCHANGED <<runVars, cursor, buf, binding, listed, cancelled, op>>

\* _has_event_type_locked: what was dropped is not found.
Has(type) == \E i \in gone + 1 .. Len(buf) : buf[i].type = type

\* Mutant: the type of the control plane is kept.
ShownRaw(type) == type

\* The session event a terminal event becomes.
Shown(type) == IF type = "completed" THEN "end" ELSE type

\* The event written for a terminal AgentRun event when the batch shows no
\* session_run_end and the buffer has no event of that type.
Fallback(batch) ==
    LET terminal == {i \in batch : log[i].type # "end"}
        t == Max(terminal)
    IN IF \/ terminal = {} \/ \E i \in batch : log[i].type = "end"
          \/ Has(Shown(log[t].type))
       THEN <<>>
       ELSE <<[type |-> Shown(log[t].type), act |-> log[t].act, src |-> t]>>

\* _update_status_for_event, for the last event appended.
StatusAfter(events) ==
    IF events = <<>> THEN binding
    ELSE CASE events[Len(events)].type = "end" -> "settled"
           [] events[Len(events)].type = "failed" -> "error"
           [] events[Len(events)].type = "cancelled" -> "cancelled"
           [] OTHER -> binding

\* Mutant: the cursor goes to the end of the log.
ReachedNewest(r, batch) == Len(log)

\* The cursor goes to the last event of the batch.
Reached(r, batch) == IF batch = {} THEN cursor ELSE listed[r]

\* The entries of the log at some positions, listed upwards.
Ends(positions) ==
    {[k \in DOMAIN s |-> [type |-> "end", act |-> log[s[k]].act, src |-> s[k]]] :
        s \in {t \in [1..Cardinality(positions) -> positions] :
                 \A j, k \in DOMAIN t : j < k => t[j] < t[k]}}

\* project_agent_run_events, under the lock of the SessionRun.
Project(r) ==
    /\ listed[r] > 0
    /\ LET batch == Fresh(listed[r]) IN
       /\ \E ends \in Ends({i \in batch : log[i].type = "end"}) :
            LET events == ends \o Fallback(batch) IN
            buf' = buf \o events /\ binding' = StatusAfter(events)
       /\ cursor' = Reached(r, batch)
    /\ listed' = [listed EXCEPT ![r] = 0]
    /\ UNCHANGED <<runVars, gone, cancelled, op>>

-----------------------------------------------------------------------------
(* The handlers *)

To(c, at, first, a) == op' = [op EXCEPT ![c] = [at |-> at, first |-> first, act |-> a]]

\* request_branch_cancel: the flag is set and never reset.
CancelBegin(c) ==
    /\ op[c].at = "idle"
    /\ To(c, "cancel", ~cancelled, act)
    /\ cancelled' = TRUE
    /\ UNCHANGED <<runVars, viewVars, listed>>

\* cancel_agent_run: a queued run is cancelled, a claimed one is asked to, an
\* ended one is left; the handler goes on whatever it answers.
CancelRun(c) ==
    /\ op[c].at = "cancel"
    /\ To(c, "asked", op[c].first, act)
    /\ CASE run = "queued" ->
              /\ run' = "cancelled"
              /\ log' = Append(log, [type |-> "cancelled", act |-> act])
         [] run = "running" -> run' = "cancelling" /\ UNCHANGED log
         [] OTHER -> UNCHANGED <<run, log>>
    /\ UNCHANGED <<act, said, viewVars, listed, cancelled>>

\* The first request writes session_run_cancelled and marks the branch done.
CancelShow(c) ==
    /\ op[c].at = "asked"
    /\ op' = [op EXCEPT ![c] = Idle]
    /\ IF op[c].first
       THEN /\ buf' = Append(buf, [type |-> "cancelled", act |-> op[c].act, src |-> 0])
            /\ binding' = "cancelled"
       ELSE UNCHANGED <<buf, binding>>
    /\ UNCHANGED <<runVars, cursor, gone, listed, cancelled>>

\* stop_agent_run_activation: the run is completed, without a terminal event.
StopRun(c) ==
    /\ op[c].at = "idle" /\ run \in {"queued", "running", "cancelling"}
    /\ run' = "completed"
    /\ To(c, "stopped", FALSE, act)
    /\ UNCHANGED <<act, said, log, viewVars, listed, cancelled>>

\* session_run_stopped, and mark_done of the selected branch.
StopShow(c) ==
    /\ op[c].at = "stopped"
    /\ op' = [op EXCEPT ![c] = Idle]
    /\ buf' = Append(buf, [type |-> "stopped", act |-> op[c].act, src |-> 0])
    /\ binding' = IF binding \in {"error", "cancelled"} THEN binding ELSE "done"
    /\ UNCHANGED <<runVars, cursor, gone, listed, cancelled>>

\* continue_agent_run: a completed run gets its next activation.
ContinueRun(c) ==
    /\ op[c].at = "idle" /\ run = "completed" /\ act < MaxAct
    /\ run' = "queued" /\ act' = act + 1 /\ said' = FALSE
    /\ To(c, "continued", FALSE, act + 1)
    /\ UNCHANGED <<log, viewVars, listed, cancelled>>

\* mark_running and session_run_continue.
ContinueShow(c) ==
    /\ op[c].at = "continued"
    /\ op' = [op EXCEPT ![c] = Idle]
    /\ buf' = Append(buf, [type |-> "continue", act |-> op[c].act, src |-> 0])
    /\ binding' = "running"
    /\ UNCHANGED <<runVars, cursor, gone, listed, cancelled>>

Next ==
    \/ Claim \/ SayEnd \/ Prune
    \/ \E s \in {"completed", "failed", "cancelled"} : Complete(s)
    \/ \E r \in Reader : List(r) \/ Project(r)
    \/ \E c \in Caller :
         \/ CancelBegin(c) \/ CancelRun(c) \/ CancelShow(c)
         \/ StopRun(c) \/ StopShow(c)
         \/ ContinueRun(c) \/ ContinueShow(c)

\* A client keeps polling, and handlers that began go on.
Fairness ==
    /\ \A r \in Reader : WF_vars(List(r)) /\ WF_vars(Project(r))
    /\ \A c \in Caller :
         /\ WF_vars(CancelRun(c)) /\ WF_vars(CancelShow(c))
         /\ WF_vars(StopShow(c)) /\ WF_vars(ContinueShow(c))

Spec == Init /\ [][Next]_vars /\ Fairness

-----------------------------------------------------------------------------
(* Properties *)

EndsOf(a) == {i \in DOMAIN buf : buf[i].type \in EndTypes /\ buf[i].act = a}

\* However many clients poll at once, and whatever ranges of the log their
\* requests have listed, an event of the AgentRun is shown at most once, and
\* the shown ones keep the order of the log.
ShownOnceInOrder ==
    \A i, j \in DOMAIN buf :
        i < j /\ buf[i].src > 0 /\ buf[j].src > 0 => buf[i].src < buf[j].src

\* An activation whose executor reported its end is shown to have ended, even
\* if it was the second one or was cancelled while it ended.
ReportedEndIsShown ==
    \A a \in 1..MaxAct :
        (\E i \in DOMAIN log : log[i] = [type |-> "end", act |-> a]) ~> EndsOf(a) # {}

\* One activation is not shown to have ended by itself again while its end is in
\* the buffer: what a result adds to the executor's own end is a failure or a cancel.
OneEndPerActivation ==
    \A i, j \in DOMAIN buf :
        gone < i /\ i < j /\ buf[i].type = "end" /\ buf[j].type = "end" =>
            buf[i].act < buf[j].act

\* What the events handler answers to a client at event n: done when a
\* terminal event of the branch in the buffer is at or before its position.
StreamDone(n) == \E i \in DOMAIN buf : gone < i /\ i <= n /\ buf[i].type \in EndTypes

-----------------------------------------------------------------------------
(* What a document, a comment or a test says and the code does not keep:   *)
(* README.md tells what happens instead.                                   *)

\* The contract: a cancel writes a single terminal state that the user sees.
OneTerminalState ==
    \A i, j \in DOMAIN buf :
        i # j /\ buf[i].type \in EndTypes /\ buf[j].type \in EndTypes => buf[i].act # buf[j].act

\* The contract: a cancelled AgentRun gets that terminal state.
CancelIsShown == run = "cancelled" ~> EndsOf(act) # {}

\* The contract: a reopened window goes on observing the task; the stream of
\* a client that has seen everything is not closed while the run is active.
ReopenedStreamStays ==
    run = "running" /\ binding = "running" /\ EndsOf(act) = {} => ~StreamDone(Len(buf))
=============================================================================
