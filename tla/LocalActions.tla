---------------------------- MODULE LocalActions ----------------------------
(***************************************************************************)
(* Local actions: work the server hands to a peer.  LocalActionService     *)
(* (services/agent_runtime/local_actions.py) keeps them in memory under    *)
(* one lock; the only code that creates them is the synchronisation of     *)
(* capability package install plans, which every claim request runs first  *)
(* (routes/capability_packages.py), outside that lock and in several       *)
(* steps.  The Go peer (runner.go) has one claim loop: it executes one     *)
(* action at a time, and gives up a claim request that takes too long      *)
(* while the server is still working on it.                                *)
(*                                                                         *)
(* An install action names its peer when it is created.  Left out: peer    *)
(* features and workspaces, which every peer has as its actions ask, the   *)
(* event sink, which no install action uses, and tool output.              *)
(***************************************************************************)
EXTENDS Naturals, FiniteSets

CONSTANTS
    Peer,         \* registered peers, a peer that registers anew being another
    Key,          \* keys of the install plan's actions
    Request,      \* server threads that work on claim and complete requests
    MaxActions,   \* bound: local actions
    MaxTimeouts,  \* bound: claim requests given up by their peer
    MaxLapses,    \* bound: leases that lapse under an executing peer
    MaxFailures   \* bound: executions that do not install

BoundAssumption ==
    /\ {MaxActions, MaxTimeouts, MaxLapses, MaxFailures} \subseteq Nat
    /\ "none" \notin Request

Action == 1..MaxActions
NoRequest == [pc |-> "idle"]
NoJob == [action |-> 0, lease |-> 0]

VARIABLES
    action,    \* LocalActionService._actions, in order of creation
    lapsed,    \* actions whose lease_expires_at has passed
    request,   \* what each server thread is doing
    awaited,   \* the thread a peer's claim request waits for, if any
    job,       \* the action a peer executes, and the lease it was given
    result,    \* _capability_package_peer_results
    gone,      \* peers whose loop ended
    timeouts, lapses, failures    \* counters for the bounds

vars == <<action, lapsed, request, awaited, job, result, gone, timeouts,
          lapses, failures>>

Terminal == {"completed", "failed", "cancelled"}
Verdict == {"none", "passed", "failed", "stale"}

TypeOK ==
    /\ \E n \in 0..MaxActions :
          action \in [1..n -> [peer : Peer, key : Key, lease : Nat,
                               leased : BOOLEAN,
                               status : Terminal \cup
                                   {"waiting_peer", "started", "progress"}]]
    /\ lapsed \subseteq DOMAIN action
    /\ awaited \in [Peer -> Request \cup {"none"}]
    /\ DOMAIN request = Request
    /\ \A p \in Peer : job[p].action \in {0} \cup DOMAIN action
    /\ result \in [Peer -> [Key -> Verdict]]
    /\ gone \subseteq Peer

Init ==
    /\ action = << >>
    /\ lapsed = {}
    /\ request = [r \in Request |-> NoRequest]
    /\ awaited = [p \in Peer |-> "none"]
    /\ job = [p \in Peer |-> NoJob]
    /\ result = [p \in Peer |-> [k \in Key |-> "none"]]
    /\ gone = {}
    /\ timeouts = 0 /\ lapses = 0 /\ failures = 0

Actions == DOMAIN action
ActiveInstalls(p, k) ==
    {a \in Actions : /\ action[a].peer = p /\ action[a].key = k
                     /\ action[a].status \notin Terminal}
HasActiveAction(p, k) == ActiveInstalls(p, k) # {}
\* Mutant: only a stale install is looked for.
NothingInstalled(p) == {k \in Key : result[p][k] = "stale"}

Installed(p) == {k \in Key : result[p][k] = "passed"}

-----------------------------------------------------------------------------
(* A claim request.                                                        *)

\* The peer's loop asks for work; the server reads what the peer has
\* installed once, before it looks at the actions of the plan.
SendClaim(p, r) ==
    /\ p \notin gone /\ awaited[p] = "none" /\ job[p] = NoJob
    /\ request[r] = NoRequest
    /\ request' = [request EXCEPT ![r] =
            [pc |-> "sync", peer |-> p, todo |-> Key \ Installed(p)]]
    /\ awaited' = [awaited EXCEPT ![p] = r]
    /\ UNCHANGED <<action, lapsed, job, result, gone, timeouts, lapses,
                   failures>>

\* An action of the plan has an active local action, or needs a new one.
CheckInstall(r, k) ==
    /\ request[r].pc = "sync" /\ k \in request[r].todo
    /\ request' = [request EXCEPT ![r] =
            IF HasActiveAction(@.peer, k)
            THEN [pc |-> "sync", peer |-> @.peer, todo |-> @.todo \ {k}]
            ELSE [pc |-> "create", peer |-> @.peer, todo |-> @.todo,
                  key |-> k]]
    /\ UNCHANGED <<action, lapsed, awaited, job, result, gone, timeouts,
                   lapses, failures>>

\* The new action is stored, in a critical section of its own.
CreateInstall(r) ==
    /\ request[r].pc = "create" /\ Cardinality(Actions) < MaxActions
    /\ action' = [a \in Actions \cup {Cardinality(Actions) + 1} |->
            IF a \in Actions THEN action[a]
            ELSE [peer |-> request[r].peer, key |-> request[r].key,
                  lease |-> 0, leased |-> FALSE, status |-> "waiting_peer"]]
    /\ request' = [request EXCEPT ![r] =
            [pc |-> "sync", peer |-> @.peer, todo |-> @.todo \ {@.key}]]
    /\ UNCHANGED <<lapsed, awaited, job, result, gone, timeouts, lapses,
                   failures>>

\* Mutant: the lapse of a lease is not looked at.
ClaimableUnleased(p) ==
    {a \in Actions : /\ action[a].peer = p /\ ~action[a].leased
                     /\ action[a].status \notin Terminal}

\* An action can be claimed by its peer unless another lease holds.
Claimable(p) ==
    {a \in Actions : /\ action[a].peer = p
                     /\ action[a].status \notin Terminal
                     /\ ~action[a].leased \/ a \in lapsed}

\* The first claimable action is leased to the peer.  A peer that no longer
\* waits for the answer never learns of it.
ClaimAction(r) ==
    /\ request[r].pc = "sync" /\ request[r].todo = {}
    /\ LET p == request[r].peer
           heard == awaited[p] = r
       IN /\ IF Claimable(p) = {}
             THEN UNCHANGED <<action, lapsed, job>>
             ELSE LET a == CHOOSE x \in Claimable(p) :
                              \A y \in Claimable(p) : x <= y
                      lease == action[a].lease + 1
                  IN /\ action' = [action EXCEPT ![a].lease = lease,
                             ![a].leased = TRUE, ![a].status = "started"]
                     /\ lapsed' = lapsed \ {a}
                     /\ job' = IF heard
                               THEN [job EXCEPT ![p] =
                                       [action |-> a, lease |-> lease]]
                               ELSE job
          /\ awaited' = IF heard THEN [awaited EXCEPT ![p] = "none"]
                        ELSE awaited
    /\ request' = [request EXCEPT ![r] = NoRequest]
    /\ UNCHANGED <<result, gone, timeouts, lapses, failures>>

\* The peer gives up waiting; it will ask again.
ClaimTimesOut(p) ==
    /\ awaited[p] # "none" /\ job[p] = NoJob /\ timeouts < MaxTimeouts
    /\ awaited' = [awaited EXCEPT ![p] = "none"]
    /\ timeouts' = timeouts + 1
    /\ UNCHANGED <<action, lapsed, request, job, result, gone, lapses,
                   failures>>

-----------------------------------------------------------------------------
(* Execution under a lease.                                                *)

LeaseLapses(a) ==
    /\ action[a].leased /\ a \notin lapsed
    /\ LET held == \E p \in Peer : job[p] = [action |-> a,
                                             lease |-> action[a].lease]
       IN /\ held => lapses < MaxLapses
          /\ lapses' = IF held THEN lapses + 1 ELSE lapses
    /\ lapsed' = lapsed \cup {a}
    /\ UNCHANGED <<action, request, awaited, job, result, gone, timeouts,
                   failures>>

\* Whether a call presents the lease of an action that has not ended.
PresentsLease(p) ==
    LET a == job[p].action
    IN /\ action[a].status \notin Terminal
       /\ action[a].leased /\ action[a].lease = job[p].lease

\* A call under a lapsed lease gives the action back before it is refused.
GiveBack(a) ==
    /\ action' = [action EXCEPT ![a].leased = FALSE,
                                ![a].status = "waiting_peer"]
    /\ lapsed' = lapsed \ {a}

\* A report of progress renews the lease; the peer only logs a refusal.
Progress(p) ==
    /\ job[p] # NoJob /\ awaited[p] = "none" /\ PresentsLease(p)
    /\ LET a == job[p].action
       IN IF a \in lapsed
          THEN GiveBack(a)
          ELSE /\ action' = [action EXCEPT ![a].status = "progress"]
               /\ UNCHANGED lapsed
    /\ UNCHANGED <<request, awaited, job, result, gone, timeouts, lapses,
                   failures>>

\* The peer completes its action.  A refused completion ends its loop.
Complete(p, r, status, verdict) ==
    /\ job[p] # NoJob /\ awaited[p] = "none" /\ request[r] = NoRequest
    /\ (status = "completed") = (verdict \in {"passed", "stale"})
    /\ verdict # "passed" => failures < MaxFailures
    /\ LET a == job[p].action
       IN IF PresentsLease(p) /\ a \notin lapsed
          THEN /\ action' = [action EXCEPT ![a].status = status]
               /\ request' = [request EXCEPT ![r] =
                     [pc |-> "record", peer |-> p, key |-> action[a].key,
                      verdict |-> verdict]]
               /\ awaited' = [awaited EXCEPT ![p] = r]
               /\ failures' = failures + (IF verdict = "passed" THEN 0 ELSE 1)
               /\ UNCHANGED <<lapsed, job, gone>>
          ELSE /\ IF PresentsLease(p) THEN GiveBack(a)
                  ELSE UNCHANGED <<action, lapsed>>
               /\ gone' = gone \cup {p}
               /\ job' = [job EXCEPT ![p] = NoJob]
               /\ UNCHANGED <<request, awaited, failures>>
    /\ UNCHANGED <<result, timeouts, lapses>>

\* The completed action's result is recorded, and the completion answered.
RecordResult(r) ==
    /\ request[r].pc = "record"
    /\ LET p == request[r].peer
       IN /\ result' = [result EXCEPT ![p][request[r].key] =
                           request[r].verdict]
          /\ IF awaited[p] = r
             THEN /\ awaited' = [awaited EXCEPT ![p] = "none"]
                  /\ job' = [job EXCEPT ![p] = NoJob]
             ELSE UNCHANGED <<awaited, job>>
    /\ request' = [request EXCEPT ![r] = NoRequest]
    /\ UNCHANGED <<action, lapsed, gone, timeouts, lapses, failures>>

\* A peer stops: it crashed, or its completion was not answered in time.
PeerStops(p) ==
    /\ p \notin gone
    /\ gone' = gone \cup {p}
    /\ awaited' = [awaited EXCEPT ![p] = "none"]
    /\ job' = [job EXCEPT ![p] = NoJob]
    /\ UNCHANGED <<action, lapsed, request, result, timeouts, lapses,
                   failures>>

-----------------------------------------------------------------------------
PeerStep(p) ==
    \/ Progress(p)
    \/ \E r \in Request : \/ SendClaim(p, r)
                          \/ \E s \in Terminal, v \in Verdict \ {"none"} :
                                Complete(p, r, s, v)
ServerStep(r) ==
    \/ \E k \in Key : CheckInstall(r, k)
    \/ CreateInstall(r) \/ ClaimAction(r) \/ RecordResult(r)

Next ==
    \/ \E p \in Peer : PeerStep(p) \/ ClaimTimesOut(p) \/ PeerStops(p)
    \/ \E r \in Request : ServerStep(r)
    \/ \E a \in Actions : LeaseLapses(a)

Spec == Init /\ [][Next]_vars

\* Server threads run, peers keep asking and finish what they execute, and
\* the lease of an action nobody executes passes its expiry.
LiveSpec ==
    /\ Spec
    /\ \A r \in Request : WF_vars(ServerStep(r))
    /\ \A p \in Peer : WF_vars(PeerStep(p))
    /\ \A a \in Action : WF_vars(/\ a \in Actions /\ LeaseLapses(a)
                                 /\ lapses' = lapses)

-----------------------------------------------------------------------------
(* Properties.                                                             *)

Passed(p, k) ==
    \/ result[p][k] = "passed"
    \/ \E r \in Request : request[r] = [pc |-> "record", peer |-> p,
                                        key |-> k, verdict |-> "passed"]

\* What a peer has installed is not installed again, although the result is
\* recorded in a later step than the end of its action.
InstallsAnew ==
    \A a \in DOMAIN action' \ Actions : ~Passed(action'[a].peer, action'[a].key)
InstalledOnce == [][InstallsAnew]_vars

\* While a peer executes an action and its lease holds, no claim, of a
\* request it gave up either, takes the action over.
JobKeepsLease ==
    \A p \in Peer :
        LET a == job[p].action
        IN (/\ job[p] # NoJob /\ job'[p] = job[p]
            /\ PresentsLease(p) /\ a \notin lapsed)
           => action'[a].lease = action[a].lease
JobHoldsLease == [][JobKeepsLease]_vars

\* An action that ended keeps its status: no late claim or report revives it.
EndedStays ==
    \A a \in Actions : action[a].status \in Terminal =>
        action'[a].status = action[a].status
EndedActionStays == [][EndedStays]_vars

-----------------------------------------------------------------------------
(* An install at a time.                                                   *)

\* A peer has at most one unfinished action for one key of the plan: what
\* _capability_package_has_active_local_action is asked for before one is
\* created.  The question and the creation are two steps, so this rests on
\* the peer's having one request at a time: one that gives requests up may have two.
OneInstallAtATime ==
    \A p \in Peer, k \in Key : Cardinality(ActiveInstalls(p, k)) <= 1
=============================================================================
