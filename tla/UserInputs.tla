------------------------------ MODULE UserInputs ------------------------------
(***************************************************************************)
(* A question of an MCP server to the user of a SessionRun: the handler    *)
(* thread registers it, shows it and waits with a timeout; replies come as *)
(* requests whose response may be lost, so that they are sent again; the   *)
(* branch may be cancelled or closed at any time.                          *)
(***************************************************************************)
EXTENDS Naturals, Sequences, FiniteSets

CONSTANTS
    Input,    \* questions of MCP servers
    Client,   \* windows of the user; each replies to one question
    MaxSends  \* bound: how often a window sends its reply

UserInputsAssumption == MaxSends \in Nat /\ IsFiniteSet(Input)

VARIABLES
    pc,       \* [Input -> where its handler thread is]
    waiter,   \* user_input_waiters: [Input -> [state, action]]
    recorded, \* user_input_resolutions: [Input -> action, "none"]
    result,   \* [Input -> what the MCP server was given]
    reply,    \* [Client -> [input, action], or NoReply]
    sends,    \* [Client -> how often it was sent]
    heard,    \* [Client -> set of the responses of the handler]
    owed,     \* questions a cancel has answered and is to show
    events    \* user_input_request and user_input_resolved: [type, input, action]

vars == <<pc, waiter, recorded, result, reply, sends, heard, owed, events>>
clientVars == <<reply, sends, heard>>

UserAction == {"accept", "decline"}
Action == UserAction \cup {"cancel"}
Gone == [state |-> "none", action |-> "none"]
NoReply == [input |-> "none", action |-> "none"]
Response == {"resolved", "already_resolved", "not_found"}

TypeOK ==
    /\ pc \in [Input -> {"new", "registered", "waiting", "returned", "ended"}]
    /\ \A i \in Input :
         /\ waiter[i].state \in {"none", "requested", "resolved", "cancelled"}
         /\ waiter[i].action \in Action \cup {"none"}
         /\ pc[i] \in {"registered", "waiting"} <=> waiter[i].state # "none"
    /\ recorded \in [Input -> Action \cup {"none"}]
    /\ result \in [Input -> Action \cup {"none"}]
    /\ sends \in [Client -> 0..MaxSends]
    /\ heard \in [Client -> SUBSET Response] /\ owed \subseteq Input
    /\ \A n \in DOMAIN events : events[n].type \in {"request", "resolved"}

Init ==
    /\ pc = [i \in Input |-> "new"]
    /\ waiter = [i \in Input |-> Gone]
    /\ recorded = [i \in Input |-> "none"]
    /\ result = [i \in Input |-> "none"]
    /\ reply = [c \in Client |-> NoReply]
    /\ sends = [c \in Client |-> 0]
    /\ heard = [c \in Client |-> {}]
    /\ owed = {} /\ events = <<>>

-----------------------------------------------------------------------------
(* The handler thread of a question *)

RequestEvent(i) == [type |-> "request", input |-> i, action |-> "none"]
Resolved(i, action) == [type |-> "resolved", input |-> i, action |-> action]

\* _append_user_input_resolved_event_locked: at most one event per question.
ShowResolved(evs, i, action) ==
    IF \E n \in DOMAIN evs : evs[n].type = "resolved" /\ evs[n].input = i
    THEN evs ELSE Append(evs, Resolved(i, action))

\* register_user_input
Register(i) ==
    /\ pc[i] = "new"
    /\ pc' = [pc EXCEPT ![i] = "registered"]
    /\ waiter' = [waiter EXCEPT ![i] = [state |-> "requested", action |-> "none"]]
    /\ recorded' = [recorded EXCEPT ![i] = "none"]
    /\ UNCHANGED <<result, clientVars, owed, events>>

\* user_input_request
Show(i) ==
    /\ pc[i] = "registered"
    /\ pc' = [pc EXCEPT ![i] = "waiting"]
    /\ events' = Append(events, RequestEvent(i))
    /\ UNCHANGED <<waiter, recorded, result, clientVars, owed>>

\* Mutant: the timeout is taken even when a reply has just come.
TimedOutLate(i) == "decline"

\* What the waiting thread finds when it has the lock again: the action of a
\* waiter that is done, else the timeout has declined the question.
Outcome(i) == IF waiter[i].state = "requested" THEN "decline" ELSE waiter[i].action

\* wait_user_input returns; the question leaves the waiters.
Wait(i) ==
    /\ pc[i] = "waiting"
    /\ pc' = [pc EXCEPT ![i] = "returned"]
    /\ result' = [result EXCEPT ![i] = Outcome(i)]
    /\ recorded' = [recorded EXCEPT ![i] = Outcome(i)]
    /\ waiter' = [waiter EXCEPT ![i] = Gone]
    /\ UNCHANGED <<clientVars, owed, events>>

\* user_input_resolved
ShowResult(i) ==
    /\ pc[i] = "returned"
    /\ pc' = [pc EXCEPT ![i] = "ended"]
    /\ events' = ShowResolved(events, i, result[i])
    /\ UNCHANGED <<waiter, recorded, result, clientVars, owed>>

-----------------------------------------------------------------------------
(* The user *)

Decide(c, i, action) ==
    /\ reply[c] = NoReply /\ RequestEvent(i) \in {events[n] : n \in DOMAIN events}
    /\ reply' = [reply EXCEPT ![c] = [input |-> i, action |-> action]]
    /\ UNCHANGED <<pc, waiter, recorded, result, sends, heard, owed, events>>

\* The same answer as the one recorded.
Known(i, action) == recorded[i] = action

\* resolve_user_input
ResponseTo(i, action) ==
    CASE waiter[i].state = "requested" -> "resolved"
      [] waiter[i].state = "none" ->
           IF Known(i, action) THEN "already_resolved" ELSE "not_found"
      [] OTHER ->
           IF waiter[i].action = action THEN "already_resolved" ELSE "not_found"

\* A request of a window is handled; it may be the repetition of one whose
\* response was lost.
Reply(c) ==
    /\ reply[c] # NoReply /\ sends[c] < MaxSends
    /\ sends' = [sends EXCEPT ![c] = @ + 1]
    /\ LET i == reply[c].input
           a == reply[c].action
       IN /\ heard' = [heard EXCEPT ![c] = @ \cup {ResponseTo(i, a)}]
          /\ IF ResponseTo(i, a) = "resolved"
             THEN /\ waiter' = [waiter EXCEPT ![i] = [state |-> "resolved", action |-> a]]
                  /\ recorded' = [recorded EXCEPT ![i] = a]
             ELSE UNCHANGED <<waiter, recorded>>
    /\ UNCHANGED <<pc, result, reply, owed, events>>

\* _cancel_pending_user_inputs_locked: what is asked for is answered with cancel.
Open == {i \in Input : waiter[i].state = "requested"}
AnswerOpen ==
    /\ Open # {}
    /\ waiter' = [i \in Input |->
         IF i \in Open THEN [state |-> "cancelled", action |-> "cancel"] ELSE waiter[i]]
    /\ recorded' = [i \in Input |-> IF i \in Open THEN "cancel" ELSE recorded[i]]
    /\ UNCHANGED <<pc, result, clientVars>>

\* mark_done answers and shows under one lock.
Close ==
    /\ AnswerOpen
    /\ LET unshown == {i \in Open : ShowResolved(events, i, "cancel") # events} IN
       \E order \in [1..Cardinality(unshown) -> unshown] :
         /\ \A m, n \in DOMAIN order : m # n => order[m] # order[n]
         /\ events' = events \o [n \in DOMAIN order |-> Resolved(order[n], "cancel")]
    /\ UNCHANGED owed

\* A cancel request or the disconnect of the peer answers, and shows each answer later;
\* a request that is not the branch's first shows none.
Cancel ==
    /\ AnswerOpen
    /\ owed' \in {owed, owed \cup Open}
    /\ UNCHANGED events

ShowCancelled(i) ==
    /\ i \in owed /\ owed' = owed \ {i}
    /\ events' = ShowResolved(events, i, "cancel")
    /\ UNCHANGED <<pc, waiter, recorded, result, clientVars>>

Next ==
    \/ \E i \in Input : Register(i) \/ Show(i) \/ Wait(i) \/ ShowResult(i)
    \/ \E c \in Client, i \in Input, a \in UserAction : Decide(c, i, a)
    \/ \E c \in Client : Reply(c)
    \/ Close \/ Cancel
    \/ \E i \in Input : ShowCancelled(i)

Spec == Init /\ [][Next]_vars

-----------------------------------------------------------------------------
(* Properties *)

\* A user who was told that the reply resolved the question, at the first or
\* at a repeated request, gave the answer the MCP server got, whatever other
\* windows, the timeout and a cancel did at the same time.
ToldIsTrue ==
    \A c \in Client :
        heard[c] \cap {"resolved", "already_resolved"} # {}
        /\ result[reply[c].input] # "none"
            => result[reply[c].input] = reply[c].action

\* A reply that was taken once is confirmed at every repetition, also after
\* the question is no longer waited for.
RetryIsConfirmed ==
    \A c \in Client : "resolved" \in heard[c] => "not_found" \notin heard[c]

\* The resolution of a question is shown once, and tells what the server got.
ShownResultIsTrue ==
    \A m, n \in DOMAIN events :
        events[m].type = "resolved" =>
            /\ result[events[m].input] \in {"none", events[m].action}
            /\ m # n => ~(events[n].type = "resolved" /\ events[n].input = events[m].input)

-----------------------------------------------------------------------------
(* What a document, a comment or a test says and the code does not keep:   *)
(* README.md tells what happens instead.                                   *)

\* The conformance matrix: a window clears the question by its resolution; the
\* last thing shown of a question that has ended is not that it was asked.
EndedIsShown ==
    \A i \in Input :
        pc[i] = "ended" =>
            \A m \in DOMAIN events : events[m] = RequestEvent(i) =>
                \E n \in m + 1 .. Len(events) :
                    events[n].type = "resolved" /\ events[n].input = i
=============================================================================
