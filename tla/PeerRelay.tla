------------------------------ MODULE PeerRelay ------------------------------
(***************************************************************************)
(* The peer registry and the peer tokens of the relay server, the Go       *)
(* agent's life around them, and what a disconnect does to the session     *)
(* runs of a peer.                                                         *)
(*                                                                         *)
(* Requests are handled by one thread each: a request that was sent is in  *)
(* "wire" until its handler runs, in any order and also after its sender   *)
(* has ended.  The disconnect handler aborts the session runs it saw, one  *)
(* by one, before it marks the peer offline.  Time is two facts: a peer    *)
(* was heard of less than heartbeat_timeout_sec ago or not (quiet), and a  *)
(* token is within its lifetime or not.                                    *)
(***************************************************************************)
EXTENDS Naturals, FiniteSets

CONSTANTS
    Peer,           \* registrations, one for each start of an agent
    Session,        \* session runs
    PackageSession  \* those of the capability package workflow

NoPeer == "none"

PeerRelayAssumption == PackageSession \subseteq Session /\ NoPeer \notin Peer

VARIABLES
    agent,    \* [Peer -> {"new", "up", "leaving", "gone"}]: the worker process
    status,   \* [Peer -> {"absent", "online", "offline"}]: PeerInfo.status
    quiet,    \* peers whose last_seen_at is older than the timeout
    token,    \* [Peer -> {"none", "valid", "expired"}]
    wire,     \* requests sent and not handled: <<kind, peer>>
    aborting, \* [Peer -> sessions the disconnect handler still has to abort]
    left,     \* peers whose disconnect was handled
    owner,    \* [Session -> Peer \cup {NoPeer}]: the peer of the binding
    open,     \* session runs that are not done
    late      \* sessions started while the disconnect of their peer was handled

vars == <<agent, status, quiet, token, wire, aborting, left, owner, open, late>>

Kind == {"heartbeat", "disconnect", "disconnecting"}

TypeOK ==
    /\ agent \in [Peer -> {"new", "up", "leaving", "gone"}]
    /\ status \in [Peer -> {"absent", "online", "offline"}]
    /\ quiet \subseteq Peer
    /\ token \in [Peer -> {"none", "valid", "expired"}]
    /\ wire \subseteq Kind \X Peer
    /\ aborting \in [Peer -> SUBSET Session]
    /\ left \subseteq Peer
    /\ owner \in [Session -> Peer \cup {NoPeer}]
    /\ open \subseteq Session
    /\ late \subseteq Session

Init ==
    /\ agent = [p \in Peer |-> "new"]
    /\ status = [p \in Peer |-> "absent"]
    /\ quiet = {}
    /\ token = [p \in Peer |-> "none"]
    /\ wire = {}
    /\ aborting = [p \in Peer |-> {}]
    /\ left = {}
    /\ owner = [s \in Session |-> NoPeer]
    /\ open = {}
    /\ late = {}

-----------------------------------------------------------------------------
(* The agent process *)

\* Run registers once: the bootstrap token is spent, a registration and a
\* peer token are made.
Register(p) ==
    /\ agent[p] = "new"
    /\ agent' = [agent EXCEPT ![p] = "up"]
    /\ status' = [status EXCEPT ![p] = "online"]
    /\ token' = [token EXCEPT ![p] = "valid"]
    /\ UNCHANGED <<quiet, wire, aborting, left, owner, open, late>>

\* The heartbeat loop ends with the context, which Run cancels after the
\* disconnect request: a leaving agent still sends heartbeats.
SendHeartbeat(p) ==
    /\ agent[p] \in {"up", "leaving"}
    /\ wire' = wire \cup {<<"heartbeat", p>>}
    /\ UNCHANGED <<agent, status, quiet, token, aborting, left, owner, open, late>>

\* Run returns: the deferred function sends the disconnect notice.
Leave(p) ==
    /\ agent[p] = "up"
    /\ agent' = [agent EXCEPT ![p] = "leaving"]
    /\ wire' = wire \cup {<<"disconnect", p>>}
    /\ UNCHANGED <<status, quiet, token, aborting, left, owner, open, late>>

\* The process ends: after its disconnect was answered or timed out, or killed.
Exit(p) ==
    /\ agent[p] \in {"up", "leaving"}
    /\ agent' = [agent EXCEPT ![p] = "gone"]
    /\ UNCHANGED <<status, quiet, token, wire, aborting, left, owner, open, late>>

-----------------------------------------------------------------------------
(* The server *)

\* PeerRegistry.update_heartbeat: heard of now, and online again.
Seen(p) ==
    /\ quiet' = quiet \ {p}
    /\ status' = [status EXCEPT ![p] = "online"]

\* refresh_peer_token, then update_heartbeat; 401 when the token has expired.
\* The other peer routes note the peer in the same way.
HandleHeartbeat(p) ==
    /\ <<"heartbeat", p>> \in wire
    /\ wire' = wire \ {<<"heartbeat", p>>}
    /\ IF token[p] = "valid" THEN Seen(p) ELSE UNCHANGED <<quiet, status>>
    /\ UNCHANGED <<agent, token, aborting, left, owner, open, late>>

\* A chat start by the front end that holds the token of the peer, online or
\* not: a session run bound to that peer.
Start(p, s) ==
    /\ token[p] = "valid" /\ owner[s] = NoPeer
    /\ owner' = [owner EXCEPT ![s] = p]
    /\ open' = open \cup {s}
    /\ late' = IF <<"disconnecting", p>> \in wire THEN late \cup {s} ELSE late
    /\ UNCHANGED <<agent, status, quiet, token, wire, aborting, left>>

\* The run of the session ends.
Finish(s) ==
    /\ s \in open
    /\ open' = open \ {s}
    /\ UNCHANGED <<agent, status, quiet, token, wire, aborting, left, owner, late>>

\* The open session runs of a peer, as _abort_peer_session_runs collects them.
OpenOf(p) == {s \in open : owner[s] = p}

\* The disconnect handler verifies the token and collects the session runs.
BeginDisconnect(p) ==
    /\ <<"disconnect", p>> \in wire
    /\ IF token[p] = "valid"
       THEN /\ wire' = (wire \ {<<"disconnect", p>>}) \cup {<<"disconnecting", p>>}
            /\ aborting' = [aborting EXCEPT ![p] = OpenOf(p)]
       ELSE /\ wire' = wire \ {<<"disconnect", p>>}
            /\ UNCHANGED aborting
    /\ UNCHANGED <<agent, status, quiet, token, left, owner, open, late>>

\* One collected session: marked done, but a capability package run goes on.
Abort(p, s) ==
    /\ s \in aborting[p]
    /\ aborting' = [aborting EXCEPT ![p] = @ \ {s}]
    /\ open' = IF s \in PackageSession THEN open ELSE open \ {s}
    /\ UNCHANGED <<agent, status, quiet, token, wire, left, owner, late>>

\* Mutant: the peer is marked offline before its sessions are aborted.
MarkedAtOnce(p) == TRUE

\* disconnect_peer comes after the abort of the collected sessions.
AllAborted(p) == aborting[p] = {}

\* The peer is marked offline; its token stays valid.
MarkDisconnected(p) ==
    /\ <<"disconnecting", p>> \in wire /\ AllAborted(p)
    /\ wire' = wire \ {<<"disconnecting", p>>}
    /\ status' = [status EXCEPT ![p] = "offline"]
    /\ left' = left \cup {p}
    /\ UNCHANGED <<agent, quiet, token, aborting, owner, open, late>>

\* heartbeat_timeout_sec passes without a request of an agent that is down or
\* stalled.
Silence(p) ==
    /\ status[p] # "absent" /\ p \notin quiet
    /\ quiet' = quiet \cup {p}
    /\ UNCHANGED <<agent, status, token, wire, aborting, left, owner, open, late>>

\* PeerRegistry.prune_stale.
Timedout(p) == status[p] = "online" /\ p \in quiet

Prune(p) ==
    /\ Timedout(p)
    /\ status' = [status EXCEPT ![p] = "offline"]
    /\ UNCHANGED <<agent, quiet, token, wire, aborting, left, owner, open, late>>

\* A token expires when its lifetime passes without a heartbeat, which is
\* longer than the heartbeat timeout.
Expire(p) ==
    /\ token[p] = "valid" /\ p \in quiet
    /\ token' = [token EXCEPT ![p] = "expired"]
    /\ UNCHANGED <<agent, status, quiet, wire, aborting, left, owner, open, late>>

-----------------------------------------------------------------------------
Next ==
    \/ \E p \in Peer :
         \/ Register(p) \/ SendHeartbeat(p) \/ Leave(p) \/ Exit(p)
         \/ HandleHeartbeat(p)
         \/ BeginDisconnect(p) \/ MarkDisconnected(p)
         \/ Silence(p) \/ Prune(p) \/ Expire(p)
         \/ \E s \in Session : Start(p, s) \/ Abort(p, s)
    \/ \E s \in Session : Finish(s)

\* Handlers run; the prune loop runs every interval; time passes for an agent
\* that is gone.
Fairness ==
    /\ \A p \in Peer :
         /\ WF_vars(HandleHeartbeat(p))
         /\ WF_vars(BeginDisconnect(p)) /\ WF_vars(MarkDisconnected(p))
         /\ WF_vars(agent[p] = "gone" /\ Silence(p)) /\ WF_vars(Prune(p))
    /\ \A p \in Peer, s \in Session : WF_vars(Abort(p, s))

Spec == Init /\ [][Next]_vars /\ Fairness

-----------------------------------------------------------------------------
(* Properties *)

\* When a peer is marked offline by its disconnect, every session run that
\* was open when the handler began has ended: what is still open of the peer
\* is a package run or was started during the handler.
SessionsEndFirst ==
    \A p \in Peer :
        <<"disconnecting", p>> \in wire \ wire' => OpenOf(p) \subseteq PackageSession \cup late
DisconnectEndsSessions == [][SessionsEndFirst]_vars

\* A disconnect ends session runs of its own peer only, and never the run of
\* a capability package, which goes on without its front end.
OnlyOwnEnd ==
    \A p \in Peer, s \in Session :
        s \in aborting[p] /\ s \notin aborting'[p] /\ s \in open /\ s \notin open'
            => owner[s] = p /\ s \notin PackageSession
OthersGoOn == [][OnlyOwnEnd]_vars

-----------------------------------------------------------------------------
(* These were checked with this module alone; no standing run lists them. *)

\* A worker that has ended is in the end offline for good, whatever requests
\* of it are still handled late, and whether it said goodbye or not.
DeadPeerGoesOffline ==
    \A p \in Peer : agent[p] = "gone" ~> [](status[p] # "online")

-----------------------------------------------------------------------------
(* What a document, a comment or a test says and the code does not keep:   *)
(* README.md tells what happens instead.                                   *)

\* relay/auth.py describes the peer token as revoked on disconnect: a peer
\* whose disconnect was handled is not online again.
DisconnectIsFinal == [][\A p \in Peer : p \in left => status'[p] # "online"]_vars
=============================================================================
