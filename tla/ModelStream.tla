----------------------------- MODULE ModelStream -----------------------------
(***************************************************************************)
(* A model request that a worker makes through the server.  In the server  *)
(* a bridge thread calls the provider and puts what it streams on a        *)
(* bounded queue, and the thread of the HTTP request writes the queue to   *)
(* the worker, with heartbeats while it is empty.  In the worker LLM.chat  *)
(* decodes the stream, shows each token at once and, when the stream is    *)
(* interrupted, makes further requests: one that continues the text it has *)
(* (or one that starts over if there is none), then its fallback models.   *)
(*                                                                         *)
(* Limits on wall time and idle time of a stream do not appear: heartbeats *)
(* (every 5 seconds) are events of the stream, so that neither limit (600  *)
(* and 120 seconds by default) is reached while the writer writes.         *)
(***************************************************************************)
EXTENDS Naturals, Sequences, FiniteSets

CONSTANTS
    Continue,     \* max_continue_attempts > 0
    RetryEmpty,   \* retry_empty_once
    Fallbacks,    \* number of fallback models
    Capacity,     \* of the queue between bridge and writer
    MaxTokens,    \* bound: tokens of one reply
    MaxBroken     \* bound: connections that break

PolicyAssumption ==
    /\ Continue \in BOOLEAN /\ RetryEmpty \in BOOLEAN /\ Fallbacks \in Nat
    /\ Capacity \in Nat \ {0} /\ MaxTokens \in Nat /\ MaxBroken \in Nat

\* The first request, one recovery by the same model, the fallbacks.
Attempt == 1..(2 + Fallbacks)

Terminal == {"done", "error", "interrupted"}
Frame == [kind : {"token"}, n : 1..MaxTokens] \cup [kind : Terminal, n : {0}]

VARIABLES
    attempt,  \* the newest request
    made,     \* per request: tokens that the provider has produced
    bridge,   \* per request: none, streaming, ended
    queue,    \* per request: frames between bridge and writer
    stop,     \* per request: stop_event
    writer,   \* per request: none, writing, closed
    wire,     \* per request: frames written and not read, at most one
    broken,   \* requests whose connection broke
    worker,   \* reading, completed, interrupted or raised
    heard,    \* tokens that the worker has decoded from the newest request
    partial,  \* tokens of the first request when it was interrupted
    action,   \* none, continue, retry
    shown,    \* per request: its tokens that were passed to on_token
    content   \* what the returned response holds

vars == <<attempt, made, bridge, queue, stop, writer, wire, broken, worker,
          heard, partial, action, shown, content>>

server == <<made, bridge, queue, stop, writer, wire, broken>>
client == <<attempt, worker, heard, partial, action, shown, content>>

Token == [attempt : Attempt, n : 1..MaxTokens]

TypeOK ==
    /\ attempt \in Attempt /\ made \in [Attempt -> 0..MaxTokens]
    /\ bridge \in [Attempt -> {"none", "streaming", "ended"}]
    /\ \A a \in Attempt : /\ queue[a] \in Seq(Frame) /\ Len(queue[a]) <= Capacity
                          /\ wire[a] \in Seq(Frame) /\ Len(wire[a]) <= 1
    /\ stop \in [Attempt -> BOOLEAN]
    /\ writer \in [Attempt -> {"none", "writing", "closed"}]
    /\ broken \subseteq Attempt /\ worker \in {"reading", "completed", "interrupted", "raised"}
    /\ action \in {"none", "continue", "retry"}
    /\ \A s \in {heard, partial, content} : s \in Seq(Token)
    /\ shown \in [Attempt -> Seq(Token)]

Only(a, x, y) == [b \in Attempt |-> IF b = a THEN x ELSE y]

Init ==
    /\ attempt = 1 /\ made = [a \in Attempt |-> 0]
    /\ bridge = Only(1, "streaming", "none")
    /\ queue = [a \in Attempt |-> << >>] /\ wire = [a \in Attempt |-> << >>]
    /\ stop = [a \in Attempt |-> FALSE] /\ broken = {}
    /\ writer = Only(1, "writing", "none")
    /\ worker = "reading" /\ action = "none"
    /\ heard = << >> /\ partial = << >> /\ content = << >>
    /\ shown = [a \in Attempt |-> << >>]

-----------------------------------------------------------------------------
(* The bridge thread.  Whatever it cannot enqueue ends it: BrokenPipeError *)
(* comes out of the provider's decoder as an interruption, for which       *)
(* enqueue_terminal_event does nothing once stop_event is set.             *)

Room(a) == Len(queue[a]) < Capacity

\* Mutant: a token that finds no room is dropped.
SkipToken(a) ==
    /\ IF Room(a) THEN queue' = [queue EXCEPT ![a] = Append(@,
                                     [kind |-> "token", n |-> made'[a]])]
                  ELSE UNCHANGED queue
    /\ UNCHANGED <<bridge, stop>>

\* enqueue_event for a token.
EnqueueToken(a) ==
    \/ /\ ~stop[a] /\ Room(a)
       /\ queue' = [queue EXCEPT ![a] = Append(@, [kind |-> "token",
                                                   n |-> made'[a]])]
       /\ UNCHANGED <<bridge, stop>>
    \/ /\ stop[a] \/ ~Room(a)
       /\ stop' = [stop EXCEPT ![a] = TRUE]
       /\ bridge' = [bridge EXCEPT ![a] = "ended"]
       /\ UNCHANGED queue

ProviderStreams(a) ==
    /\ bridge[a] = "streaming" /\ made[a] < MaxTokens
    /\ made' = [made EXCEPT ![a] = @ + 1]
    /\ EnqueueToken(a)
    /\ UNCHANGED <<writer, wire, broken>> /\ UNCHANGED client

\* Mutant: an interruption is treated like a client that has gone.
ProviderEndsMute(a, kind) ==
    /\ bridge[a] = "streaming"
    /\ bridge' = [bridge EXCEPT ![a] = "ended"]
    /\ IF kind = "done"
       THEN queue' = [queue EXCEPT ![a] = Append(@, [kind |-> kind, n |-> 0])]
       ELSE UNCHANGED queue
    /\ UNCHANGED <<made, writer, wire, broken, stop>> /\ UNCHANGED client

\* bridge.execute returns or raises; enqueue_terminal_event.
ProviderEnds(a, kind) ==
    /\ bridge[a] = "streaming"
    /\ bridge' = [bridge EXCEPT ![a] = "ended"]
    /\ IF ~stop[a] /\ Room(a)
       THEN /\ queue' = [queue EXCEPT ![a] = Append(@, [kind |-> kind, n |-> 0])]
            /\ UNCHANGED stop
       ELSE stop' = [stop EXCEPT ![a] = TRUE] /\ UNCHANGED queue
    /\ UNCHANGED <<made, writer, wire, broken>> /\ UNCHANGED client

-----------------------------------------------------------------------------
(* The thread of the HTTP request.                                         *)

\* The connection broke, or the worker has left it.
Gone(a) == a \in broken \/ a # attempt \/ worker # "reading"

Close(a) ==
    /\ writer' = [writer EXCEPT ![a] = "closed"]
    /\ stop' = [stop EXCEPT ![a] = TRUE]

Write(a) ==
    /\ writer[a] = "writing" /\ ~Gone(a)
    /\ queue[a] # << >> /\ wire[a] = << >>
    /\ queue' = [queue EXCEPT ![a] = Tail(@)]
    /\ wire' = [wire EXCEPT ![a] = <<Head(queue[a])>>]
    /\ IF Head(queue[a]).kind \in Terminal THEN Close(a)
                                           ELSE UNCHANGED <<writer, stop>>
    /\ UNCHANGED <<made, bridge, broken>> /\ UNCHANGED client

\* A frame or a heartbeat cannot be written.  A heartbeat that can be
\* written changes nothing.
WriteFails(a) ==
    /\ writer[a] = "writing" /\ Gone(a)
    /\ Close(a)
    /\ UNCHANGED <<made, bridge, queue, wire, broken>> /\ UNCHANGED client

\* The connection breaks; what is on it is lost.
Break(a) ==
    /\ writer[a] # "none" /\ ~Gone(a)
    /\ Cardinality(broken) < MaxBroken
    /\ broken' = broken \cup {a} /\ wire' = [wire EXCEPT ![a] = << >>]
    /\ UNCHANGED <<made, bridge, queue, stop, writer>> /\ UNCHANGED client

-----------------------------------------------------------------------------
(* The worker.                                                             *)

\* _recovery_attempts and the switches of the policy: how many requests an
\* interrupted one with this partial text may be followed by.
Recoveries(text) ==
    IF text # << >> THEN IF Continue THEN 1 + Fallbacks ELSE 0
                    ELSE IF RetryEmpty THEN 1 + Fallbacks ELSE 0

ReadToken ==
    /\ worker = "reading" /\ wire[attempt] # << >>
    /\ Head(wire[attempt]).kind = "token"
    /\ LET token == [attempt |-> attempt, n |-> Head(wire[attempt]).n] IN
          /\ heard' = Append(heard, token)
          /\ shown' = [shown EXCEPT ![attempt] = Append(@, token)]
    /\ wire' = [wire EXCEPT ![attempt] = << >>]
    /\ UNCHANGED <<attempt, worker, partial, action, content>>
    /\ UNCHANGED <<made, bridge, queue, stop, writer, broken>>

\* What the provider has produced for the newest request.
Reply == [n \in 1..made[attempt] |-> [attempt |-> attempt, n |-> n]]

\* _merge_recovered_response.
Merged(reply) == IF action = "continue" THEN partial \o reply ELSE reply

ReadDone ==
    /\ worker = "reading" /\ wire[attempt] # << >>
    /\ Head(wire[attempt]).kind = "done"
    /\ worker' = "completed" /\ content' = Merged(Reply)
    /\ wire' = [wire EXCEPT ![attempt] = << >>]
    /\ UNCHANGED <<attempt, heard, partial, action, shown>>
    /\ UNCHANGED <<made, bridge, queue, stop, writer, broken>>

\* The stream says that it is interrupted, or just ends.
StreamBreaks ==
    \/ wire[attempt] # << >> /\ Head(wire[attempt]).kind = "interrupted"
    \/ attempt \in broken
    \/ wire[attempt] = << >> /\ writer[attempt] = "closed"

StreamFails == wire[attempt] # << >> /\ Head(wire[attempt]).kind = "error"

\* The next request of the loop in _recover_interrupted_response; all of them
\* go on from the partial text of the first.
Request(text) ==
    /\ attempt' = attempt + 1 /\ heard' = << >>
    /\ partial' = text
    /\ action' = IF text # << >> THEN "continue" ELSE "retry"
    /\ bridge' = [bridge EXCEPT ![attempt + 1] = "streaming"]
    /\ writer' = [writer EXCEPT ![attempt + 1] = "writing"]
    /\ wire' = [wire EXCEPT ![attempt] = << >>]
    /\ UNCHANGED <<worker, shown, content, made, queue, stop, broken>>

\* The loop is over: the response is the partial one.
GiveUp(text) ==
    /\ worker' = "interrupted" /\ content' = text /\ partial' = text
    /\ wire' = [wire EXCEPT ![attempt] = << >>]
    /\ UNCHANGED <<attempt, heard, action, shown>>
    /\ UNCHANGED <<made, bridge, queue, stop, writer, broken>>

\* An interruption of the first request is recovered from, an error is raised.
FirstInterrupted ==
    /\ worker = "reading" /\ attempt = 1 /\ StreamBreaks
    /\ IF Recoveries(heard) > 0 THEN Request(heard) ELSE GiveUp(heard)

FirstFails ==
    /\ worker = "reading" /\ attempt = 1 /\ StreamFails
    /\ worker' = "raised" /\ wire' = [wire EXCEPT ![1] = << >>]
    /\ UNCHANGED <<attempt, heard, partial, action, shown, content>>
    /\ UNCHANGED <<made, bridge, queue, stop, writer, broken>>

RecoveryFails ==
    /\ worker = "reading" /\ attempt > 1 /\ (StreamBreaks \/ StreamFails)
    /\ IF attempt <= Recoveries(partial) THEN Request(partial)
                                         ELSE GiveUp(partial)

Client == \/ ReadToken \/ ReadDone \/ FirstInterrupted \/ FirstFails
          \/ RecoveryFails

Bridge(a) == \/ ProviderStreams(a)
             \/ \E kind \in Terminal : ProviderEnds(a, kind)

Writer(a) == Write(a) \/ WriteFails(a)

Next == \/ \E a \in Attempt : Bridge(a) \/ Writer(a) \/ Break(a)
        \/ Client

Spec == Init /\ [][Next]_vars

\* Threads run; a provider's stream ends (its own supervisor sees to it).
FairSpec == /\ Spec /\ WF_vars(Client)
            /\ \A a \in Attempt : WF_vars(Bridge(a)) /\ WF_vars(Writer(a))

-----------------------------------------------------------------------------
(* Properties.                                                             *)

\* What a returned response holds is what the user was shown of the requests
\* that it is made of: nothing is lost between provider and response.
ContentWasShown ==
    /\ worker = "completed" =>
          content = IF action = "continue" THEN shown[1] \o shown[attempt]
                                           ELSE shown[attempt]
    /\ worker = "interrupted" => content = shown[1]

\* The stream ended for the server without an event that says so, while the
\* worker reads: the writer only writes heartbeats.
Muted(a) == /\ bridge[a] = "ended" /\ stop[a] /\ writer[a] = "writing"
            /\ queue[a] = << >> /\ wire[a] = << >> /\ ~Gone(a)

\* A worker gets its response or an error, unless the queue overflowed.
RequestEnds == <>(worker # "reading" \/ \E a \in Attempt : Muted(a))

-----------------------------------------------------------------------------
(* These were checked with this module alone; no standing run lists them. *)

\* When the worker has left a stream, its bridge does not go on for ever, and
\* no thread stays behind.
ThreadsEnd == \A a \in Attempt :
    Gone(a) ~> (bridge[a] # "streaming" /\ writer[a] # "writing")

-----------------------------------------------------------------------------
(* What a document, a comment or a test says and the code does not keep:   *)
(* README.md tells what happens instead.                                   *)

\* docs/agent-run-session-run-contract.md:55: every streaming request ends
\* with done, error or interrupted.
EveryStreamEnds == <>(worker # "reading")

\* client.py:602: a request to continue names what was delivered already, as
\* "Already delivered assistant text"; no request in between showed any.
ContinuesWhatWasShown ==
    action = "continue" /\ worker = "reading" =>
        /\ shown[1] = partial /\ shown[attempt] = heard
        /\ \A a \in Attempt \ {1, attempt} : shown[a] = << >>
=============================================================================
