------------------------------ MODULE Services ------------------------------
(***************************************************************************)
(* The parts of the server that serve peers, packages and GitHub, side by  *)
(* side: each behaviour is one of a single part, that Init chooses, and    *)
(* leaves the others as they begin.                                        *)
(***************************************************************************)
EXTENDS Naturals, Sequences, FiniteSets

CONSTANTS
    Peer, Key, Request, MaxActions, MaxTimeouts, MaxLapses, MaxJobFailures,
    Session, PackageSession,
    Ticket, Canceller, MaxRepair,
    Task, Comment, Handler, Reconciler, NoTask, PageSize, MaxChanges, MaxDeliveries,
    MaxFailures, MaxRestarts

VARIABLES
    part,                                        \* the one that moves
    action, lapsed, request, awaited, job, result, gone, timeouts, lapses,
    jobFailures,
    agent, status, quiet, token, wire, aborting, left, owner, open, late,
    run, act, pc, repairs, callback, cancelled, waiter, active, queue, ticket,
    cancel, decision, allowed, installed, shown,
    pull, posted, sent, delivery, record, linked, followups, thread, failures,
    restarts

Local == INSTANCE LocalActions WITH failures <- jobFailures, MaxFailures <- MaxJobFailures
Relay == INSTANCE PeerRelay
Ingest == INSTANCE CapabilityIngest
Pulls == INSTANCE PullRequests

ASSUME ServicesAssumption ==
    /\ Local!BoundAssumption /\ Relay!PeerRelayAssumption
    /\ Ingest!CapabilityIngestAssumption /\ Pulls!PullRequestsAssumption

localVars == <<action, lapsed, request, awaited, job, result, gone, timeouts, lapses,
               jobFailures>>
relayVars == <<agent, status, quiet, token, wire, aborting, left, owner, open, late>>
ingestVars == <<run, act, pc, repairs, callback, cancelled, waiter, active, queue,
                ticket, cancel, decision, allowed, installed, shown>>
pullVars == <<pull, posted, sent, delivery, record, linked, followups, thread,
              failures, restarts>>
vars == <<part, localVars, relayVars, ingestVars, pullVars>>

Init ==
    /\ part \in {"local", "relay", "ingest", "pulls"}
    /\ Local!Init /\ Relay!Init /\ Ingest!Init /\ Pulls!Init

\* A step of one part, and of none of the others.
LocalStep(A) == A /\ UNCHANGED <<part, relayVars, ingestVars, pullVars>>
RelayStep == Relay!Next /\ UNCHANGED <<part, localVars, ingestVars, pullVars>>
IngestStep == Ingest!Next /\ UNCHANGED <<part, localVars, relayVars, pullVars>>
PullStep(A) == A /\ UNCHANGED <<part, localVars, relayVars, ingestVars>>

Next ==
    \/ part = "local" /\ LocalStep(Local!Next)
    \/ part = "relay" /\ RelayStep
    \/ part = "ingest" /\ IngestStep
    \/ part = "pulls" /\ PullStep(Pulls!Next)

Spec == Init /\ [][Next]_vars

-----------------------------------------------------------------------------
(* Properties.                                                             *)

TypeOK == Local!TypeOK /\ Relay!TypeOK /\ Ingest!TypeOK /\ Pulls!TypeOK

\* What a peer that waits for every answer has installed is not installed again,
\* although the result is recorded in a later step than the end of its action.
\* While any peer executes an action under a lease that holds, no claim takes
\* the action over, and no late claim or report revives an ended one.
InstalledOnce ==
    [][/\ timeouts = 0 => Local!InstallsAnew
       /\ Local!JobKeepsLease /\ Local!EndedStays]_vars

\* When a peer is marked offline by its disconnect, every session run that was
\* open when the handler began has ended: what is still open of the peer is a
\* package run or was started during the handler.  It ends no run of another
\* peer, and none of a package.
DisconnectEndsSessions == [][Relay!SessionsEndFirst /\ Relay!OnlyOwnEnd]_vars

\* What the steps of several threads could do twice is done once.  Of all the
\* candidates of the revisions of a package at most one is installed, and only
\* one the user allowed.  A peer that waits for its answers has one unfinished
\* install of a key.  And a comment has no more follow-ups than threads that
\* were at it together, anew after a failure or a restart.
DoneOnce ==
    /\ Ingest!InstalledWasAllowed
    /\ timeouts = 0 => Local!OneInstallAtATime
    /\ Pulls!FollowupsBounded
=============================================================================
