---------------------------- MODULE RuntimeEvents ----------------------------
(***************************************************************************)
(* How the events of an executor reach the server.  The executor puts them *)
(* into a bounded channel; the worker (Go: runner.runAgentRunLoop) sends   *)
(* them one by one, keeps those whose request failed, and hands these in   *)
(* with the completion of the activation.  The server appends an event if  *)
(* the worker's claim is live, and all events of a completion it accepts.  *)
(*                                                                         *)
(* A request fails because it is refused, because it is lost, or because   *)
(* its worker gave it up: then the server may still execute it, later.     *)
(***************************************************************************)
EXTENDS Naturals, Sequences

CONSTANTS
    NEvents,    \* bound: events of the executor
    Capacity    \* of the channel between executor and worker

BoundAssumption == NEvents \in Nat /\ Capacity \in Nat \ {0}

Event == 1..NEvents

VARIABLES
    produced,   \* number of events that the executor came to
    executor,   \* "running" or "ended"
    channel,    \* events between executor and worker
    sending,    \* event of the request that the worker waits for, or 0
    replay,     \* events kept for the completion
    abandoned,  \* events in requests that were given up and may be executed
    givenUp,    \* events whose request was ever given up
    dropped,    \* events that a cancelled executor did not put on the channel
    worker,     \* "sending", "completing", "completed" or "failed"
    cancelled,  \* the worker was told to stop
    claim,      \* the server has a live claim of this worker
    log         \* how often the server has appended each event

vars == <<produced, executor, channel, sending, replay, abandoned, givenUp,
          dropped, worker, cancelled, claim, log>>

TypeOK ==
    /\ produced \in 0..NEvents /\ executor \in {"running", "ended"}
    /\ channel \in Seq(Event) /\ Len(channel) <= Capacity
    /\ sending \in 0..NEvents /\ replay \subseteq Event
    /\ abandoned \subseteq givenUp /\ givenUp \subseteq Event
    /\ dropped \subseteq Event
    /\ worker \in {"sending", "completing", "completed", "failed"}
    /\ cancelled \in BOOLEAN /\ claim \in BOOLEAN
    /\ log \in [Event -> 0..2]

Init ==
    /\ produced = 0 /\ executor = "running" /\ channel = << >>
    /\ sending = 0 /\ replay = {} /\ abandoned = {} /\ givenUp = {}
    /\ dropped = {}
    /\ worker = "sending" /\ cancelled = FALSE /\ claim = TRUE
    /\ log = [e \in Event |-> 0]

Written(events) == [e \in Event |-> log[e] + IF e \in events THEN 1 ELSE 0]

-----------------------------------------------------------------------------
(* The executor.                                                           *)

\* The sink waits for room in the channel; when cancelled it may give up.
Emit ==
    /\ executor = "running" /\ produced < NEvents
    /\ produced' = produced + 1
    /\ \/ /\ Len(channel) < Capacity
          /\ channel' = Append(channel, produced + 1)
          /\ UNCHANGED dropped
       \/ /\ cancelled
          /\ dropped' = dropped \cup {produced + 1}
          /\ UNCHANGED channel
    /\ UNCHANGED <<executor, sending, replay, abandoned, worker, cancelled,
                   claim, log, givenUp>>

ExecutorEnds ==
    /\ executor = "running"
    /\ executor' = "ended"
    /\ UNCHANGED <<produced, channel, sending, replay, abandoned, dropped,
                   worker, cancelled, claim, log, givenUp>>

-----------------------------------------------------------------------------
(* sendLiveRuntimeEvent.                                                   *)

Send ==
    /\ worker = "sending" /\ sending = 0 /\ channel # << >>
    /\ sending' = Head(channel) /\ channel' = Tail(channel)
    /\ UNCHANGED <<produced, executor, replay, abandoned, dropped, worker,
                   cancelled, claim, log, givenUp>>

SendAnswered ==
    /\ sending # 0 /\ claim
    /\ log' = Written({sending})
    /\ sending' = 0
    /\ UNCHANGED <<produced, executor, channel, replay, abandoned, dropped,
                   worker, cancelled, claim, givenUp>>

\* Mutant: a refused event is not kept.
KeepNothing == replay

\* The event is appended to eventsForComplete.
Keep == replay \cup {sending}

SendFails ==
    /\ sending # 0
    /\ replay' = Keep
    /\ \/ UNCHANGED <<abandoned, givenUp>>
       \/ /\ claim
          /\ abandoned' = abandoned \cup {sending}
          /\ givenUp' = givenUp \cup {sending}
    /\ sending' = 0
    /\ UNCHANGED <<produced, executor, channel, dropped, worker, cancelled,
                   claim, log>>

\* The executor's channel is closed and empty.
LoopEnds ==
    /\ worker = "sending" /\ sending = 0 /\ channel = << >>
    /\ executor = "ended"
    /\ worker' = "completing"
    /\ UNCHANGED <<produced, executor, channel, sending, replay, abandoned,
                   dropped, cancelled, claim, log, givenUp>>

\* CompleteAgentRunActivation: accepted with its events under a live claim.
CompleteAnswered ==
    /\ worker = "completing" /\ claim
    /\ log' = Written(replay)
    /\ claim' = FALSE /\ worker' = "completed"
    /\ UNCHANGED <<produced, executor, channel, sending, replay, abandoned,
                   dropped, cancelled, givenUp>>

\* It is refused, lost or given up; the worker's loop ends with an error, and
\* the server may still execute the request.
CompleteFails ==
    /\ worker = "completing"
    /\ worker' = "failed"
    /\ \/ UNCHANGED <<claim, log>>
       \/ claim /\ claim' = FALSE /\ log' = Written(replay)
    /\ UNCHANGED <<produced, executor, channel, sending, replay, abandoned,
                   dropped, cancelled, givenUp>>

-----------------------------------------------------------------------------
(* The server and the heartbeat loop beside the worker.                    *)

\* A request that was given up is executed after all.
LateWrite(e) ==
    /\ e \in abandoned
    /\ abandoned' = abandoned \ {e}
    /\ log' = IF claim THEN Written({e}) ELSE log
    /\ UNCHANGED <<produced, executor, channel, sending, replay, dropped,
                   worker, cancelled, claim, givenUp>>

CancelRequested ==
    /\ worker = "sending" /\ ~cancelled
    /\ cancelled' = TRUE
    /\ UNCHANGED <<produced, executor, channel, sending, replay, abandoned,
                   dropped, worker, claim, log, givenUp>>

\* The lease lapses and is recovered.
ClaimExpires ==
    /\ claim
    /\ claim' = FALSE
    /\ UNCHANGED <<produced, executor, channel, sending, replay, abandoned,
                   dropped, worker, cancelled, log, givenUp>>

Next ==
    \/ Emit \/ ExecutorEnds \/ Send \/ SendAnswered \/ SendFails \/ LoopEnds
    \/ CompleteAnswered \/ CompleteFails \/ CancelRequested \/ ClaimExpires
    \/ \E e \in Event : LateWrite(e)

Spec == Init /\ [][Next]_vars

-----------------------------------------------------------------------------
(* Properties.                                                             *)

\* When a completion is accepted the server has every event of the executor,
\* unless it was cancelled and dropped some.
NothingLost ==
    worker = "completed" => \A e \in 1..produced : log[e] > 0 \/ e \in dropped

\* An event is appended twice only if its live request was given up, and then
\* by that request and by the completion.
TwiceOnlyIfGivenUp == \A e \in Event : log[e] > 1 => e \in givenUp \cap replay

-----------------------------------------------------------------------------
(* What a document, a comment or a test says and the code does not keep:   *)
(* README.md tells what happens instead.                                   *)

\* Every event is appended once.
AppendedOnce == \A e \in Event : log[e] <= 1
=============================================================================
