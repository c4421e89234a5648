------------------------------ MODULE Workers ------------------------------
(***************************************************************************)
(* The parts of an execution that meet the control plane or a model only   *)
(* through calls of their own, side by side: each behaviour is one of a    *)
(* single part, that Init chooses, and leaves the others as they begin.    *)
(***************************************************************************)
EXTENDS Naturals, Sequences, FiniteSets

CONSTANTS
    Steer, MaxClaims, MaxLost,
    NEvents, ChannelSize,
    Continue, RetryEmpty, Fallbacks, QueueSize, MaxTokens, MaxBroken,
    Run, OnPeer, NoRun, MissingStops, Faults, MaxEvents, MaxCancels,
    Draft, NoDraft, MaxRounds, MaxCalls, MaxChats, Renewed,
    File, Call, Patches, FirstFiles, MaxFaults

VARIABLES
    part,                                        \* the one that moves
    activation, holder, steer, steerWorker, pending, named, buffer, used, lost,
    produced, executor, channel, sending, replay, abandoned, givenUp, dropped,
    eventWorker, cancelled, claim, log,
    attempt, made, bridge, queue, stopEvent, writer, wire, broken, streamWorker,
    heard, partial, action, shown, content,
    status, cancelRequests, chatWorker, cancels,
    at, stop, round, calls, todo, dangling, active, checkpoint, drafts, writes,
    outcome, last, asked, compressed, chats, interactive,
    disk, patch, phase, step, plan, saved, snap, before, met, faults, goesOn

Steers == INSTANCE ActivationSteers WITH worker <- steerWorker
Events == INSTANCE RuntimeEvents WITH worker <- eventWorker, Capacity <- ChannelSize
Stream == INSTANCE ModelStream
    WITH worker <- streamWorker, stop <- stopEvent, Capacity <- QueueSize
Chats == INSTANCE SessionRunWorker WITH worker <- chatWorker
Turn == INSTANCE AgentTurn
Files == INSTANCE FileMutations

ASSUME WorkersAssumption ==
    /\ Steers!BoundAssumption /\ Events!BoundAssumption /\ Stream!PolicyAssumption
    /\ Chats!SessionRunWorkerAssumption /\ Turn!AgentTurnAssumption
    /\ Files!FileMutationsAssumption

steersVars == <<activation, holder, steer, steerWorker, pending, named, buffer,
                used, lost>>
eventsVars == <<produced, executor, channel, sending, replay, abandoned, givenUp,
                dropped, eventWorker, cancelled, claim, log>>
streamVars == <<attempt, made, bridge, queue, stopEvent, writer, wire, broken,
                streamWorker, heard, partial, action, shown, content>>
chatsVars == <<status, cancelRequests, chatWorker, cancels>>
turnVars == <<at, stop, round, calls, todo, dangling, active, checkpoint, drafts,
              writes, outcome, last, asked, compressed, chats, interactive>>
filesVars == <<disk, patch, phase, step, plan, saved, snap, before, met, faults,
               goesOn>>
vars == <<part, steersVars, eventsVars, streamVars, chatsVars, turnVars, filesVars>>

Init ==
    /\ part \in {"steers", "events", "stream", "chats", "turn", "files"}
    /\ Steers!Init /\ Events!Init /\ Stream!Init /\ Chats!Init /\ Turn!Init
    /\ Files!Init

\* A step of one part, and of none of the others.
SteersStep(A) ==
    A /\ UNCHANGED <<part, eventsVars, streamVars, chatsVars, turnVars, filesVars>>
EventsStep ==
    /\ Events!Next
    /\ UNCHANGED <<part, steersVars, streamVars, chatsVars, turnVars, filesVars>>
StreamStep(A) ==
    A /\ UNCHANGED <<part, steersVars, eventsVars, chatsVars, turnVars, filesVars>>
ChatsStep ==
    /\ Chats!Next
    /\ UNCHANGED <<part, steersVars, eventsVars, streamVars, turnVars, filesVars>>
TurnStep ==
    /\ Turn!Next
    /\ UNCHANGED <<part, steersVars, eventsVars, streamVars, chatsVars, filesVars>>
FilesStep ==
    /\ Files!Next
    /\ UNCHANGED <<part, steersVars, eventsVars, streamVars, chatsVars, turnVars>>

Next ==
    \/ part = "steers" /\ SteersStep(Steers!Next)
    \/ part = "events" /\ EventsStep
    \/ part = "stream" /\ StreamStep(Stream!Next)
    \/ part = "chats" /\ ChatsStep
    \/ part = "turn" /\ TurnStep
    \/ part = "files" /\ FilesStep

Spec == Init /\ [][Next]_vars

-----------------------------------------------------------------------------
(* Properties.                                                             *)

TypeOK ==
    /\ Steers!TypeOK /\ Events!TypeOK /\ Stream!TypeOK /\ Chats!TypeOK
    /\ Turn!TypeOK /\ Files!TypeOK

\* A steer that is being delivered is delivered by the worker that has the
\* lease: requeue_stale_steers leaves none behind with a worker that lost it.
\* It counts as delivered only if an executor took it, however responses are
\* lost and leases change hands.
SteersAreKept == Steers!DeliveredByHolder /\ Steers!DeliveredWasTaken

\* When the server accepts a completion it has every event of the executor,
\* unless a cancelled executor dropped some: what the timeouts of live reports
\* leave open, the completion's replay brings.  It has an event twice only if
\* the live request for it was given up; the worker inside the server, which
\* gives no request up, has it stored exactly once.
EventsAreKept ==
    Events!NothingLost /\ Events!TwiceOnlyIfGivenUp /\ Chats!EventsOnce

\* A response of the model holds what the user was shown of the requests that
\* it is made of, however streams break, continue and are retried.
ContentWasShown == Stream!ContentWasShown

\* A chat's run that looks busy is held by exactly one worker's lease, so that
\* the recovery can find it.
BusyIsHeld == Chats!BusyIsHeld

\* Every tool call of the history has its answer whenever the model is asked,
\* however the chats before were stopped, interrupted or broken off.  After a
\* stop no round is begun: the model is asked at most to compress the history,
\* once, and for the summary after the last round, once.
CallsAnswered == Turn!CallsAnswered /\ Turn!StopIsSeen

\* A patch changes all of its files as it was approved or, failing, none of
\* them, unless another call wrote to one of them meanwhile.
PatchIsWhole == Files!PatchIsWhole
=============================================================================
