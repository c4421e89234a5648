------------------------------ MODULE Sessions ------------------------------
(***************************************************************************)
(* The parts of a SessionRun that its windows meet, side by side: each     *)
(* behaviour is one of a single part, that Init chooses, and leaves the    *)
(* others as they begin.                                                   *)
(***************************************************************************)
EXTENDS Naturals, FiniteSets

CONSTANTS
    RequestId, Handler, MaxRuns, MaxRestarts,
    Caller, Poller, MaxAct, Silent,
    Clients, BranchOf, MaxEvents, MaxLog, MaxPieces,
    Input, Window, MaxSends,
    Branches, Request, MaxRetries

VARIABLES
    part,                                        \* the one that moves
    created, projection, runOf, bindingOf, handler, told, origin, disturbed,
    restarts,
    run, act, said, runLog, runCursor, listed, buf, gone, binding, cancelled, op,
    log, big, durable, live, pending, pieces, base, cursor, seen, lost,
    pc, waiter, recorded, result, reply, sends, heard, owed, events,
    branchRun, branchBinding, shown, marks, req, late, retries

Start == INSTANCE SessionRunStart WITH run <- runOf, binding <- bindingOf
Terminal == INSTANCE SessionRunTerminal WITH log <- runLog, cursor <- runCursor,
                                             Reader <- Poller
Buffers == INSTANCE SessionEvents WITH Reader <- BranchOf
Inputs == INSTANCE UserInputs WITH Client <- Window
Branching == INSTANCE SessionBranches WITH run <- branchRun, binding <- branchBinding

ASSUME SessionsAssumption ==
    /\ Start!SessionRunStartAssumption /\ Terminal!SessionRunTerminalAssumption
    /\ Buffers!SessionEventsAssumption /\ Inputs!UserInputsAssumption
    /\ Branching!SessionBranchesAssumption

startVars == <<created, projection, runOf, bindingOf, handler, told, origin,
               disturbed, restarts>>
terminalVars == <<run, act, said, runLog, runCursor, listed, buf, gone, binding,
                  cancelled, op>>
eventsVars == <<log, big, durable, live, pending, pieces, base, cursor, seen, lost>>
inputsVars == <<pc, waiter, recorded, result, reply, sends, heard, owed, events>>
branchVars == <<branchRun, branchBinding, shown, marks, req, late, retries>>
vars == <<part, startVars, terminalVars, eventsVars, inputsVars, branchVars>>

Init ==
    /\ part \in {"start", "terminal", "buffers", "inputs", "branching"}
    /\ Start!Init /\ Terminal!Init /\ Buffers!Init /\ Inputs!Init /\ Branching!Init

\* A step of one part, and of none of the others.
StartStep == Start!Next /\ UNCHANGED <<part, terminalVars, eventsVars, inputsVars, branchVars>>
TerminalStep(A) == A /\ UNCHANGED <<part, startVars, eventsVars, inputsVars, branchVars>>
EventsStep == Buffers!Next /\ UNCHANGED <<part, startVars, terminalVars, inputsVars, branchVars>>
InputsStep == Inputs!Next /\ UNCHANGED <<part, startVars, terminalVars, eventsVars, branchVars>>
BranchStep == Branching!Next /\ UNCHANGED <<part, startVars, terminalVars, eventsVars, inputsVars>>

Next ==
    \/ part = "start" /\ StartStep
    \/ part = "terminal" /\ TerminalStep(Terminal!Next)
    \/ part = "buffers" /\ EventsStep
    \/ part = "inputs" /\ InputsStep
    \/ part = "branching" /\ BranchStep

Spec == Init /\ [][Next]_vars

-----------------------------------------------------------------------------
(* Properties.                                                             *)

TypeOK ==
    /\ Start!TypeOK /\ Terminal!TypeOK /\ Buffers!TypeOK /\ Inputs!TypeOK
    /\ Branching!TypeOK

\* A start request is answered only with a SessionRun made for it that has a
\* stored AgentRun and binding.  One whose repetitions do not overlap, and whose
\* projection was neither collected nor lost, starts at most one SessionRun.
RepeatedStartsOnce == Start!ToldIsOwn /\ Start!RepeatedStartsOnce

\* However many clients poll at once, and whatever ranges of the log their
\* requests have listed, an event of the AgentRun is shown at most once, the
\* shown ones keep the order of the log, and an activation is not shown to have
\* ended by itself again while its end is in the buffer.
ShownOnceInOrder == Terminal!ShownOnceInOrder /\ Terminal!OneEndPerActivation

\* An event is lost silently only where one above the bound of bytes emptied its
\* buffer, or that of the base that shows it to a branch: up to its cursor a client
\* was given every other event of its branch, or told of a loss that covers it,
\* however the two buffers drop events and the pending deltas get their numbers
\* between its reads.  It is given no event of another branch, and a reply's pieces
\* in their order.
LossIsAnnounced ==
    Buffers!LossIsAnnounced /\ Buffers!BranchesStayApart /\ Buffers!PiecesInOrder

\* A user who was told that the reply resolved the question, at the first or
\* at a repeated request, gave the answer the MCP server got, whatever other
\* windows, the timeout and a cancel did at the same time; every repetition of
\* that reply is confirmed, and the resolution is shown once.
ToldIsTrue == Inputs!ToldIsTrue /\ Inputs!RetryIsConfirmed /\ Inputs!ShownResultIsTrue

\* The binding of a failed run does not stay active: a select request that
\* writes a copy taken before the failure closes it again before it answers.
\* And whatever copies are written, some binding stays selected.
FailedIsClosed == Branching!FailedIsClosed /\ Branching!SomeSelected
=============================================================================
