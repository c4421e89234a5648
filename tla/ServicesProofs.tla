---------------------------- MODULE ServicesProofs ----------------------------
(***************************************************************************)
(* Machine-checked proofs about what serves peers, packages and GitHub,    *)
(* for every number of peers, actions, sessions, revisions, comments and   *)
(* threads.  Each part has an invariant of its own; a step of one part     *)
(* leaves the variables of the others unchanged.                           *)
(***************************************************************************)
EXTENDS Services, FiniteSetTheorems, TLAPS

-----------------------------------------------------------------------------
(* The inductive invariants of the parts.                                  *)

\* What a disconnect handler has still to abort is of its own peer, and it has
\* every session of the peer that the peer may not keep.
RelayInv ==
    /\ Relay!TypeOK
    /\ \A p \in Peer : \A s \in aborting[p] : owner[s] = p
    /\ \A p \in Peer :
          <<"disconnecting", p>> \in wire =>
             Relay!OpenOf(p) \subseteq aborting[p] \cup PackageSession \cup late

IngestTypes ==
    /\ MaxRepair \in Nat /\ Ingest!MaxAct \in Nat
    /\ run \in {"active", "cancelling", "completed", "failed", "cancelled"}
    /\ act \in 1..Ingest!MaxAct /\ repairs \in 0..MaxRepair
    /\ pc \in {"hear", "bind", "follow", "followed", "register", "activate", "wait",
               "answered", "pop", "decide", "continue", "loop", "ended"}
    /\ callback \in BOOLEAN /\ cancelled \in BOOLEAN
    /\ waiter \in [1..Ingest!MaxAct -> {"none", "asked", "allow", "deny", "popped"}]
    /\ active \in 0..Ingest!MaxAct
    /\ queue \in Seq(Ticket)
    /\ ticket \in [Ticket -> {"none", "accepted", "unheard", "queued", "consumed"}]
    /\ cancel \in [Canceller -> {"none", "begun", "asked", "done"}]
    /\ decision \in {"none", "allow", "deny"}
    /\ allowed \subseteq 1..Ingest!MaxAct /\ installed \subseteq 1..Ingest!MaxAct
    /\ shown \in [1..Ingest!MaxAct -> Nat]

\* A revision is in the queue once, until it is consumed.
QueueInv ==
    \A i \in 1..Len(queue) :
        /\ ticket[queue[i]] = "queued"
        /\ \A j \in 1..Len(queue) : i # j => queue[i] # queue[j]

\* Every activation after the first was made by a repair or a consumed revision.
Consumed == {t \in Ticket : ticket[t] = "consumed"}
ActsInv ==
    act + (IF pc = "continue" THEN 1 ELSE 0) <= 1 + repairs + Cardinality(Consumed)

\* The events of an activation are shown again for each one that came after it.
Following == {"hear", "loop", "bind", "follow"}
ShownInv ==
    \A a \in 1..Ingest!MaxAct :
        shown[a] <= IF a > act THEN 0 ELSE act - a + (IF pc \in Following THEN 0 ELSE 1)

\* An answer that allows a candidate is known to the user, from the approval to
\* the thread, which installs one at its end.
AnswersInv ==
    /\ \A a \in 1..Ingest!MaxAct : waiter[a] = "allow" => a \in allowed
    /\ pc \in {"answered", "pop", "decide"} /\ decision = "allow" => act \in allowed
    /\ installed \subseteq allowed
    /\ \A a, b \in installed : a = b
    /\ pc # "ended" => installed = {}

IngestInv == IngestTypes /\ QueueInv /\ ActsInv /\ ShownInv /\ AnswersInv

ActionRow ==
    [peer : Peer, key : Key, lease : Nat, leased : BOOLEAN,
     status : {"completed", "failed", "cancelled", "waiting_peer", "started", "progress"}]

RequestRow ==
    {Local!NoRequest}
        \cup [pc : {"sync"}, peer : Peer, todo : SUBSET Key]
        \cup [pc : {"create"}, peer : Peer, todo : SUBSET Key, key : Key]
        \cup [pc : {"record"}, peer : Peer, key : Key,
              verdict : {"passed", "failed", "stale"}]

LocalTypes ==
    /\ \E n \in 0..MaxActions : DOMAIN action = 1..n
    /\ action \in [DOMAIN action -> ActionRow]
    /\ lapsed \subseteq DOMAIN action
    /\ request \in [Request -> RequestRow]
    /\ awaited \in [Peer -> Request \cup {"none"}]
    /\ job \in [Peer -> [action : Nat, lease : Nat]]
    /\ \A p \in Peer : job[p] # Local!NoJob => job[p].action \in DOMAIN action
    /\ result \in [Peer -> [Key -> {"none", "passed", "failed", "stale"}]]
    /\ gone \subseteq Peer /\ timeouts \in Nat

\* The request r is about an install of k by p that is not there yet.
Busy(r, p) == request[r] # Local!NoRequest /\ request[r].peer = p
Looks(r) == request[r].pc \in {"sync", "create"}

\* A peer that waits for every answer has one request at a time, also after it
\* stopped; and nothing changes what that request found.
OneRequest ==
    /\ \A r \in Request, p \in Peer : Busy(r, p) => awaited[p] = r \/ p \in gone
    /\ \A r, q \in Request, p \in Peer : Busy(r, p) /\ Busy(q, p) => r = q
Found(r) ==
    /\ Looks(r) => \A k \in request[r].todo : result[request[r].peer][k] # "passed"
    /\ request[r].pc = "create" =>
          /\ request[r].key \in request[r].todo
          /\ Local!ActiveInstalls(request[r].peer, request[r].key) = {}
FoundStays == \A r \in Request : Found(r)
OneInstall ==
    \A p \in Peer, k \in Key :
        \A a, b \in Local!ActiveInstalls(p, k) : a = b

LocalInv ==
    /\ LocalTypes
    /\ \A p \in gone : awaited[p] = "none" /\ job[p] = Local!NoJob
    /\ timeouts = 0 => OneRequest /\ FoundStays /\ OneInstall

PullStatus == {"none", "open", "closed", "merged"}
DeliveryRow ==
    [number : Pulls!Deliveries, kind : {"pull"}, task : Task, state : PullStatus]
        \cup [number : Pulls!Deliveries, kind : {"comment"}, task : Task, comment : Comment]
        \cup [number : Pulls!Deliveries, kind : {"review"}, task : Task]
ThreadRow ==
    {Pulls!Free}
        \cup [at : {"ensure"}, task : Task]
        \cup [at : {"created", "read"}, task : Task, state : PullStatus]
        \cup [at : {"webhook"}, delivery : DeliveryRow]
        \cup [at : {"review"}, delivery : DeliveryRow, state : PullStatus]
        \cup [at : {"comments"}, task : Task, left : SUBSET Comment]
        \cup [at : {"followup", "assigned"}, comment : Comment, task : Task,
              left : SUBSET Comment]
        \cup [at : {"followup", "assigned"}, delivery : DeliveryRow, comment : Comment,
              task : Task, left : SUBSET Comment]

\* What GitHub delivered, and what a thread works on, is there.
Posted == {c \in Comment : posted[c] # NoTask}
GithubTypes ==
    /\ pull \in [Task -> PullStatus] /\ posted \in [Comment -> Task \cup {NoTask}]
    /\ IsFiniteSet(sent) /\ sent \subseteq DeliveryRow
    /\ \A d \in sent : d.kind = "comment" => d.comment \in Posted
SavedTypes ==
    /\ delivery \in [Pulls!Deliveries -> {"unseen", "processing", "processed", "failed"}]
    /\ record \in [Task -> PullStatus] /\ linked \subseteq Posted
    /\ followups \in [Comment -> Nat]
    /\ \A t \in Task : record[t] # "none" => pull[t] # "none"
Known(s) ==
    /\ s.at \in {"created", "read"} => pull[s.task] # "none"
    /\ s.at = "webhook" /\ s.delivery.kind = "comment" => s.delivery.comment \in Posted
    /\ s.at = "review" => pull[s.delivery.task] # "none"
    /\ s.at \in {"followup", "assigned"} => s.comment \in Posted
    /\ s.at \in {"comments", "followup", "assigned"} => s.left \subseteq Posted
ThreadTypes ==
    /\ thread \in [Pulls!Thread -> ThreadRow] /\ failures \in Nat /\ restarts \in Nat
    /\ \A w \in Pulls!Thread : Known(thread[w])

\* While a comment has no assignment, each follow-up beyond what failures and
\* restarts allow has a thread that is about to link it.  Once it has one, only the
\* threads that had looked before still create another.
At(x, c) == {w \in Pulls!Thread : thread[w].at = x /\ thread[w].comment = c}
Allowance == Cardinality(Pulls!Thread) * (failures + restarts)
Counted(c) ==
    IF c \in linked
    THEN followups[c] + Cardinality(At("followup", c))
            <= Allowance + Cardinality(Pulls!Thread)
    ELSE followups[c] <= Allowance + Cardinality(At("assigned", c))

PullInv == GithubTypes /\ SavedTypes /\ ThreadTypes /\ \A c \in Comment : Counted(c)

-----------------------------------------------------------------------------
(* Peers and their sessions.                                               *)

\* The server begins with no peer and no open session run.
LEMMA RelayInit ==
    ASSUME Relay!Init
    PROVE  RelayInv
BY DEF Relay!Init, RelayInv, Relay!TypeOK, Relay!NoPeer, Relay!Kind

\* Steps of the other parts change nothing here.
LEMMA RelayStays ==
    ASSUME RelayInv, UNCHANGED relayVars
    PROVE  RelayInv'
BY DEF RelayInv, relayVars, Relay!TypeOK, Relay!OpenOf

\* A step of a peer or of its handlers that starts and ends no session run and
\* does not touch the list of a disconnect handler.
LEMMA RelayQuiet ==
    ASSUME RelayInv, UNCHANGED <<aborting, owner, open, late>>, Relay!TypeOK',
           \A p \in Peer : <<"disconnecting", p>> \in wire' => <<"disconnecting", p>> \in wire
    PROVE  RelayInv'
BY DEF RelayInv, Relay!OpenOf

\* A registration after the disconnect began makes its sessions late ones, so the
\* handler has every other session to abort.
LEMMA RelayNext ==
    ASSUME RelayInv, Relay!Next
    PROVE  RelayInv'
<1>0. Relay!TypeOK
    BY DEF RelayInv
<1>1. CASE \E p \in Peer : \/ Relay!Register(p) \/ Relay!SendHeartbeat(p) \/ Relay!Leave(p)
                           \/ Relay!Exit(p) \/ Relay!HandleHeartbeat(p)
                           \/ Relay!MarkDisconnected(p)
                           \/ Relay!Silence(p) \/ Relay!Prune(p) \/ Relay!Expire(p)
    <2>1. PICK p \in Peer : \/ Relay!Register(p) \/ Relay!SendHeartbeat(p) \/ Relay!Leave(p)
                            \/ Relay!Exit(p) \/ Relay!HandleHeartbeat(p)
                            \/ Relay!MarkDisconnected(p)
                            \/ Relay!Silence(p) \/ Relay!Prune(p) \/ Relay!Expire(p)
        BY <1>1
    <2>2. /\ UNCHANGED <<aborting, owner, open, late>>
          /\ \A q \in Peer : <<"disconnecting", q>> \in wire' => <<"disconnecting", q>> \in wire
        BY <2>1 DEF Relay!Register, Relay!SendHeartbeat, Relay!Leave, Relay!Exit,
           Relay!HandleHeartbeat, Relay!MarkDisconnected, Relay!Silence, Relay!Prune,
           Relay!Expire, Relay!Timedout
    <2>3. Relay!TypeOK'
        BY <1>0, <2>1, <2>2 DEF Relay!TypeOK, Relay!Register, Relay!SendHeartbeat, Relay!Leave,
           Relay!Exit, Relay!HandleHeartbeat, Relay!MarkDisconnected, Relay!Silence,
           Relay!Prune, Relay!Expire, Relay!Seen, Relay!Kind
    <2>4. QED
        BY <2>2, <2>3, RelayQuiet
<1>2. CASE \E p \in Peer : Relay!BeginDisconnect(p)
    <2>1. PICK p \in Peer : Relay!BeginDisconnect(p)
        BY <1>2
    <2>2. CASE token[p] = "valid"
        <3>1. /\ wire' = (wire \ {<<"disconnect", p>>}) \cup {<<"disconnecting", p>>}
              /\ aborting' = [aborting EXCEPT ![p] = Relay!OpenOf(p)]
              /\ UNCHANGED <<agent, status, quiet, token, left, owner, open, late>>
            BY <2>1, <2>2 DEF Relay!BeginDisconnect
        <3>2. Relay!TypeOK'
            BY <1>0, <3>1 DEF Relay!TypeOK, Relay!Kind, Relay!OpenOf
        <3>3. QED
            BY <1>0, <3>1, <3>2 DEF RelayInv, Relay!OpenOf, Relay!TypeOK
    <2>3. CASE token[p] # "valid"
        <3>1. /\ wire' = wire \ {<<"disconnect", p>>}
              /\ UNCHANGED <<agent, status, quiet, token, aborting, left, owner, open, late>>
            BY <2>1, <2>3 DEF Relay!BeginDisconnect
        <3>2. Relay!TypeOK'
            BY <1>0, <3>1 DEF Relay!TypeOK
        <3>3. QED
            BY <3>1, <3>2, RelayQuiet
    <2>4. QED
        BY <2>2, <2>3
<1>3. CASE \E p \in Peer, s \in Session : Relay!Start(p, s)
    <2>1. PICK p \in Peer, s \in Session : Relay!Start(p, s)
        BY <1>3
    <2>2. /\ owner[s] = Relay!NoPeer /\ owner' = [owner EXCEPT ![s] = p]
          /\ open' = open \cup {s}
          /\ late' = IF <<"disconnecting", p>> \in wire THEN late \cup {s} ELSE late
          /\ UNCHANGED <<agent, status, quiet, token, wire, aborting, left>>
        BY <2>1 DEF Relay!Start
    <2>3. Relay!TypeOK'
        BY <1>0, <2>2 DEF Relay!TypeOK
    <2>4. \A q \in Peer : s \notin aborting[q]
        BY <2>2, ServicesAssumption DEF RelayInv, Relay!PeerRelayAssumption
    <2>5. \A q \in Peer : \A t \in aborting'[q] : owner'[t] = q
        BY <1>0, <2>2, <2>4 DEF RelayInv, Relay!TypeOK
    <2>6. ASSUME NEW q \in Peer, <<"disconnecting", q>> \in wire'
          PROVE  Relay!OpenOf(q)' \subseteq aborting'[q] \cup PackageSession \cup late'
        BY <1>0, <2>2, <2>6 DEF RelayInv, Relay!TypeOK, Relay!OpenOf
    <2>7. QED
        BY <2>3, <2>5, <2>6 DEF RelayInv
<1>4. CASE \E p \in Peer, s \in Session : Relay!Abort(p, s)
    <2>1. PICK p \in Peer, s \in Session : Relay!Abort(p, s)
        BY <1>4
    <2>2. /\ aborting' = [aborting EXCEPT ![p] = aborting[p] \ {s}]
          /\ open' = IF s \in PackageSession THEN open ELSE open \ {s}
          /\ UNCHANGED <<agent, status, quiet, token, wire, left, owner, late>>
        BY <2>1 DEF Relay!Abort
    <2>3. Relay!TypeOK'
        BY <1>0, <2>2 DEF Relay!TypeOK
    <2>4. QED
        BY <1>0, <2>2, <2>3 DEF RelayInv, Relay!TypeOK, Relay!OpenOf
<1>5. CASE \E s \in Session : Relay!Finish(s)
    <2>1. PICK s \in Session : Relay!Finish(s)
        BY <1>5
    <2>2. /\ open' = open \ {s}
          /\ UNCHANGED <<agent, status, quiet, token, wire, aborting, left, owner, late>>
        BY <2>1 DEF Relay!Finish
    <2>3. QED
        BY <1>0, <2>2 DEF RelayInv, Relay!TypeOK, Relay!OpenOf
<1>6. QED
    BY <1>1, <1>2, <1>3, <1>4, <1>5 DEF Relay!Next

\* Only the disconnect handler takes its request back, when nothing is left to
\* abort; only it takes sessions from its list, each of which it ends, except
\* those of packages.
LEMMA RelayActs ==
    ASSUME RelayInv, Relay!Next
    PROVE  Relay!SessionsEndFirst /\ Relay!OnlyOwnEnd
<1>0. Relay!TypeOK
    BY DEF RelayInv
<1>1. Relay!SessionsEndFirst
    <2>1. SUFFICES ASSUME NEW p \in Peer, <<"disconnecting", p>> \in wire \ wire'
                   PROVE  Relay!OpenOf(p) \subseteq PackageSession \cup late
        BY DEF Relay!SessionsEndFirst
    <2>2. Relay!MarkDisconnected(p)
        BY <2>1 DEF Relay!Next, Relay!Register, Relay!SendHeartbeat, Relay!Leave, Relay!Exit,
           Relay!HandleHeartbeat, Relay!MarkDisconnected, Relay!Silence, Relay!Prune,
           Relay!Expire, Relay!BeginDisconnect, Relay!Start, Relay!Abort, Relay!Finish
    <2>3. aborting[p] = {}
        BY <2>2 DEF Relay!MarkDisconnected, Relay!AllAborted
    <2>4. QED
        BY <2>1, <2>3 DEF RelayInv
<1>2. Relay!OnlyOwnEnd
    <2>1. SUFFICES ASSUME NEW p \in Peer, NEW s \in Session, s \in aborting[p],
                          s \notin aborting'[p], s \in open, s \notin open'
                   PROVE  owner[s] = p /\ s \notin PackageSession
        BY DEF Relay!OnlyOwnEnd
    <2>2. owner[s] = p
        BY <2>1 DEF RelayInv
    <2>3. PICK q \in Peer : Relay!Abort(q, s)
        <3>1. PICK q \in Peer, t \in Session : Relay!Abort(q, t)
            BY <2>1 DEF Relay!Next, Relay!Register, Relay!SendHeartbeat, Relay!Leave, Relay!Exit,
               Relay!HandleHeartbeat, Relay!MarkDisconnected, Relay!Silence, Relay!Prune,
               Relay!Expire, Relay!BeginDisconnect, Relay!Start, Relay!Finish
        <3>2. QED
            BY <2>1, <3>1 DEF Relay!Abort
    <2>4. QED
        BY <2>1, <2>2, <2>3 DEF Relay!Abort
<1>3. QED
    BY <1>1, <1>2

-----------------------------------------------------------------------------
(* The workflow of a package.                                              *)

\* The bound of the activations, with the operators of this module.
LEMMA IngestConstants ==
    /\ IsFiniteSet(Ticket) /\ MaxRepair \in Nat /\ Cardinality(Ticket) \in Nat
    /\ Ingest!MaxAct = 1 + MaxRepair + Cardinality(Ticket)
<1>1. Ingest!IsFiniteSet(Ticket) => IsFiniteSet(Ticket)
    BY DEF Ingest!IsFiniteSet, IsFiniteSet
<1>2. Ingest!Cardinality(Ticket) = Cardinality(Ticket)
    BY DEF Ingest!Cardinality, Cardinality
<1>3. IsFiniteSet(Ticket) /\ MaxRepair \in Nat
    BY <1>1, ServicesAssumption DEF Ingest!CapabilityIngestAssumption
<1>4. Cardinality(Ticket) \in Nat
    BY <1>3, FS_CardinalityType
<1>5. QED
    BY <1>2, <1>3, <1>4 DEF Ingest!MaxAct

\* The consumed revisions are no more than there are.
LEMMA ConsumedCount ==
    /\ IsFiniteSet(Consumed) /\ Cardinality(Consumed) \in Nat
    /\ Cardinality(Consumed) <= Cardinality(Ticket)
<1>1. Consumed \in SUBSET Ticket
    BY DEF Consumed
<1>2. IsFiniteSet(Consumed) /\ Cardinality(Consumed) <= Cardinality(Ticket)
    BY <1>1, IngestConstants, FS_Subset
<1>3. QED
    BY <1>2, FS_CardinalityType

\* The first activation has no answer yet, and nothing is allowed or installed.
LEMMA IngestInit ==
    ASSUME Ingest!Init
    PROVE  IngestInv
<1>1. /\ MaxRepair \in Nat /\ Ingest!MaxAct \in Nat /\ 1 <= Ingest!MaxAct
      /\ << >> \in Seq(Ticket) /\ Len(<< >>) = 0
    BY IngestConstants
<1>2. IngestTypes /\ QueueInv
    <2>1. IngestTypes
        <3>1. /\ act \in 1..Ingest!MaxAct /\ repairs \in 0..MaxRepair
              /\ active \in 0..Ingest!MaxAct
              /\ shown \in [1..Ingest!MaxAct -> Nat]
            BY <1>1 DEF Ingest!Init, Ingest!Act
        <3>2. QED
            BY <1>1, <3>1 DEF Ingest!Init, Ingest!Act, IngestTypes
    <2>2. QueueInv
        BY <1>1 DEF Ingest!Init, QueueInv
    <2>3. QED
        BY <2>1, <2>2
<1>3. ActsInv
    BY ConsumedCount DEF Ingest!Init, ActsInv
<1>4. ShownInv
    BY <1>1 DEF Ingest!Init, Ingest!Act, ShownInv, Following
<1>5. AnswersInv
    BY <1>1 DEF Ingest!Init, Ingest!Act, AnswersInv
<1>6. QED
    BY <1>2, <1>3, <1>4, <1>5 DEF IngestInv

\* Steps of the other parts change nothing here.
LEMMA IngestStays ==
    ASSUME IngestInv, UNCHANGED ingestVars
    PROVE  IngestInv'
<1>1. Consumed' = Consumed
    BY DEF Consumed, ingestVars
<1>2. QED
    BY <1>1 DEF IngestInv, ingestVars, IngestTypes, QueueInv, ActsInv, ShownInv, AnswersInv

\* An approval that is answered keeps its place.
LEMMA Resolved ==
    ASSUME IngestInv, NEW a \in 0..Ingest!MaxAct, NEW answer \in {"allow", "deny"},
           Ingest!Resolve(a, answer)
    PROVE  /\ waiter' \in [1..Ingest!MaxAct -> {"none", "asked", "allow", "deny", "popped"}]
           /\ \A b \in 1..Ingest!MaxAct :
                 waiter'[b] = "allow" => waiter[b] = "allow" \/ (b = a /\ answer = "allow")
BY DEF Ingest!Resolve, IngestInv, IngestTypes

\* The thread ends or goes on.
LEMMA IngestEnds ==
    ASSUME NEW end \in BOOLEAN, NEW next, Ingest!EndOr(end, next), callback \in BOOLEAN
    PROVE  callback' \in BOOLEAN /\ pc' = IF end THEN "ended" ELSE next
<1>1. callback' \in BOOLEAN
    BY DEF Ingest!EndOr
<1>2. QED
    BY <1>1 DEF Ingest!EndOr

\* An activation beyond the first has a repair or a consumed revision, so there are
\* at most MaxAct.
LEMMA IngestTypesNext ==
    ASSUME IngestInv, Ingest!Next
    PROVE  IngestTypes'
<1>0. IngestTypes /\ Ingest!MaxAct' = Ingest!MaxAct
    BY DEF IngestInv, Ingest!MaxAct
<1> USE DEF Ingest!userVars, Ingest!approvalVars
<1>1. CASE Ingest!Hear \/ Ingest!Loop \/ Ingest!Bind \/ Ingest!Candidate
    <2>1. /\ pc' \in {"loop", "ended", "bind", "follow", "continue", "register"}
          /\ callback' \in BOOLEAN /\ repairs' \in 0..MaxRepair
        <3>1. CASE Ingest!Hear \/ Ingest!Bind
            BY <1>0, <3>1 DEF IngestTypes, Ingest!Hear, Ingest!Bind
        <3>2. CASE Ingest!Loop
            BY <1>0, <3>2, IngestEnds DEF IngestTypes, Ingest!Loop
        <3>3. CASE Ingest!Candidate
            <4>1. \/ repairs' = repairs
                  \/ repairs < MaxRepair /\ repairs' = repairs + 1
                BY <3>3, Zenon DEF Ingest!Candidate
            <4>2. repairs' \in 0..MaxRepair
                BY <1>0, <4>1 DEF IngestTypes
            <4>3. \E e \in BOOLEAN, n \in {"ended", "continue", "register", pc} :
                     Ingest!EndOr(e, n) /\ (n = pc => e)
                BY <3>3 DEF Ingest!Candidate
            <4>4. QED
                BY <1>0, <4>2, <4>3, IngestEnds DEF IngestTypes
        <3>4. QED
            BY <1>1, <3>1, <3>2, <3>3
    <2>2. run' \in {"active", "cancelling", "completed", "failed", "cancelled"}
        BY <1>0, <1>1 DEF IngestTypes, Ingest!Hear, Ingest!Loop, Ingest!Bind,
           Ingest!Candidate, Ingest!Cancelled
    <2>3. UNCHANGED <<act, Ingest!approvalVars, Ingest!userVars, installed, shown>>
        BY <1>1 DEF Ingest!Hear, Ingest!Loop, Ingest!Bind, Ingest!Candidate
    <2>4. QED
        BY <1>0, <2>1, <2>2, <2>3 DEF IngestTypes
<1>2. CASE Ingest!Follow
    <2>1. pc' \in {"ended", "followed"} /\ callback' \in BOOLEAN
        BY <1>0, <1>2, IngestEnds DEF IngestTypes, Ingest!Follow
    <2>2. shown' \in [1..Ingest!MaxAct -> Nat]
        BY <1>0, <1>2 DEF IngestTypes, Ingest!Follow, Ingest!Act
    <2>3. UNCHANGED <<run, act, repairs, Ingest!approvalVars, Ingest!userVars, installed>>
        BY <1>2 DEF Ingest!Follow
    <2>4. QED
        BY <1>0, <2>1, <2>2, <2>3 DEF IngestTypes
<1>3. CASE Ingest!Register \/ Ingest!WaitApproval \/ Ingest!Answered
    <2>1. /\ waiter' \in [1..Ingest!MaxAct -> {"none", "asked", "allow", "deny", "popped"}]
          /\ decision' \in {"none", "allow", "deny"} /\ active' \in 0..Ingest!MaxAct
        BY <1>0, <1>3 DEF IngestTypes, Ingest!Register, Ingest!WaitApproval, Ingest!Answered
    <2>2. pc' \in {"activate", "answered", "ended", "pop"} /\ callback' \in BOOLEAN
        <3>1. CASE Ingest!Register \/ Ingest!WaitApproval
            BY <1>0, <3>1 DEF IngestTypes, Ingest!Register, Ingest!WaitApproval
        <3>2. CASE Ingest!Answered
            BY <1>0, <3>2, IngestEnds DEF IngestTypes, Ingest!Answered
        <3>3. QED
            BY <1>3, <3>1, <3>2
    <2>3. UNCHANGED <<run, act, repairs, queue, Ingest!userVars, installed, shown>>
        BY <1>3 DEF Ingest!Register, Ingest!WaitApproval, Ingest!Answered
    <2>4. QED
        BY <1>0, <2>1, <2>2, <2>3 DEF IngestTypes
<1>4. CASE Ingest!Activate
    <2>1. waiter' \in [1..Ingest!MaxAct -> {"none", "asked", "allow", "deny", "popped"}]
        <3>1. PICK a : a = IF Ingest!Pending THEN act ELSE 0
            OBVIOUS
        <3>2. Ingest!Resolve(a, "deny") /\ a \in 0..Ingest!MaxAct
            BY <1>0, <1>4, <3>1 DEF IngestTypes, Ingest!Activate
        <3>3. QED
            BY <3>2, Resolved
    <2>2. QED
        BY <1>0, <1>4, <2>1 DEF IngestTypes, Ingest!Activate
<1>5. CASE Ingest!PopTicket
    <2>1. queue' \in Seq(Ticket)
        <3>1. queue \in Seq(Ticket)
            BY <1>0 DEF IngestTypes
        <3>2. queue # << >> => Tail(queue) \in Seq(Ticket)
            BY <3>1
        <3>3. QED
            BY <1>5, <3>1, <3>2 DEF Ingest!PopTicket, Ingest!RestOfQueue
    <2>2. ticket' \in [Ticket -> {"none", "accepted", "unheard", "queued", "consumed"}]
        BY <1>0, <1>5 DEF IngestTypes, Ingest!PopTicket
    <2>3. /\ pc' \in {"decide", "continue"}
          /\ UNCHANGED <<run, act, repairs, callback, waiter, active, decision, cancelled,
                         cancel, allowed, installed, shown>>
        BY <1>5 DEF Ingest!PopTicket
    <2>4. QED
        BY <1>0, <2>1, <2>2, <2>3 DEF IngestTypes
<1>6. CASE Ingest!Decide
    <2>1. pc' = "ended" /\ callback' \in BOOLEAN
        BY <1>0, <1>6, IngestEnds DEF IngestTypes, Ingest!Decide
    <2>2. installed' \subseteq 1..Ingest!MaxAct
        BY <1>0, <1>6 DEF IngestTypes, Ingest!Decide, Ingest!Decided
    <2>3. UNCHANGED <<run, act, repairs, Ingest!approvalVars, Ingest!userVars, shown>>
        BY <1>6 DEF Ingest!Decide
    <2>4. QED
        BY <1>0, <2>1, <2>2, <2>3 DEF IngestTypes
<1>7. CASE Ingest!Continue
    <2>1. pc = "continue" => act + 1 <= Ingest!MaxAct
        BY <1>0, IngestConstants, ConsumedCount DEF IngestInv, ActsInv, IngestTypes
    <2>2. QED
        <3>1. pc' \in {"ended", "loop"} /\ callback' \in BOOLEAN
            BY <1>0, <1>7, IngestEnds DEF IngestTypes, Ingest!Continue
        <3>2. /\ run' \in {"active", "cancelling", "completed", "failed", "cancelled"}
              /\ act' \in 1..Ingest!MaxAct
            BY <1>0, <1>7, <2>1 DEF IngestTypes, Ingest!Continue
        <3>3. UNCHANGED <<repairs, Ingest!approvalVars, Ingest!userVars, installed, shown>>
            BY <1>7 DEF Ingest!Continue
        <3>4. QED
            BY <1>0, <3>1, <3>2, <3>3 DEF IngestTypes
<1>8. CASE \E st \in {"completed", "failed", "cancelled"} : Ingest!RunEnds(st)
    BY <1>0, <1>8 DEF IngestTypes, Ingest!RunEnds
<1>9. CASE \E a \in Ingest!Act, answer \in {"allow", "deny"} : Ingest!Reply(a, answer)
    <2>1. PICK a \in 1..Ingest!MaxAct, answer \in {"allow", "deny"} : Ingest!Reply(a, answer)
        BY <1>9 DEF Ingest!Act
    <2>2. waiter' \in [1..Ingest!MaxAct -> {"none", "asked", "allow", "deny", "popped"}]
        <3>1. Ingest!Resolve(a, answer) /\ a \in 0..Ingest!MaxAct
            BY <1>0, <2>1 DEF IngestTypes, Ingest!Reply
        <3>2. QED
            BY <3>1, Resolved
    <2>3. QED
        BY <1>0, <2>1, <2>2 DEF IngestTypes, Ingest!Reply
<1>10. CASE \E t \in Ticket : Ingest!SubmitRevision(t)
    BY <1>0, <1>10 DEF IngestTypes, Ingest!SubmitRevision
<1>11. CASE \E t \in Ticket : Ingest!QueueRevision(t)
    <2>1. PICK t \in Ticket : Ingest!QueueRevision(t)
        BY <1>11
    <2>2. waiter' \in [1..Ingest!MaxAct -> {"none", "asked", "allow", "deny", "popped"}]
        BY <1>0, <2>1, Resolved DEF IngestTypes, Ingest!QueueRevision
    <2>3. QED
        BY <1>0, <2>1, <2>2 DEF IngestTypes, Ingest!QueueRevision
<1>12. CASE \E c \in Canceller :
              Ingest!CancelBegin(c) \/ Ingest!CancelRun(c) \/ Ingest!CancelShow(c)
    <2>1. waiter' \in [1..Ingest!MaxAct -> {"none", "asked", "allow", "deny", "popped"}]
        BY <1>0, <1>12 DEF IngestTypes, Ingest!CancelBegin, Ingest!CancelRun,
           Ingest!CancelShow, Ingest!DenyAll, Ingest!Act
    <2>2. /\ cancel' \in [Canceller -> {"none", "begun", "asked", "done"}]
          /\ run' \in {"active", "cancelling", "completed", "failed", "cancelled"}
          /\ cancelled' \in BOOLEAN
        BY <1>0, <1>12 DEF IngestTypes, Ingest!CancelBegin, Ingest!CancelRun,
           Ingest!CancelShow, Ingest!Cancelled
    <2>3. UNCHANGED <<act, pc, repairs, callback, active, queue, decision, ticket, allowed,
                      installed, shown>>
        BY <1>12 DEF Ingest!CancelBegin, Ingest!CancelRun, Ingest!CancelShow
    <2>4. QED
        BY <1>0, <2>1, <2>2, <2>3 DEF IngestTypes
<1>13. QED
    BY <1>1, <1>2, <1>3, <1>4, <1>5, <1>6, <1>7, <1>8, <1>9, <1>10, <1>11, <1>12
       DEF Ingest!Next, Ingest!Thread

\* What a step may do to the queue of revisions.
LEMMA QueueMoves ==
    ASSUME Ingest!Next
    PROVE  \/ UNCHANGED <<queue, ticket>> \/ Ingest!PopTicket
           \/ \E t \in Ticket : Ingest!SubmitRevision(t) \/ Ingest!QueueRevision(t)
<1> USE DEF Ingest!userVars, Ingest!approvalVars
<1>1. CASE Ingest!Thread
    BY <1>1 DEF Ingest!Thread, Ingest!Hear, Ingest!Loop, Ingest!Bind, Ingest!Follow,
       Ingest!Candidate, Ingest!Register, Ingest!Activate, Ingest!WaitApproval,
       Ingest!Answered, Ingest!Decide, Ingest!Continue
<1>2. CASE \/ \E st \in {"completed", "failed", "cancelled"} : Ingest!RunEnds(st)
           \/ \E a \in Ingest!Act, answer \in {"allow", "deny"} : Ingest!Reply(a, answer)
           \/ \E c \in Canceller :
                Ingest!CancelBegin(c) \/ Ingest!CancelRun(c) \/ Ingest!CancelShow(c)
    BY <1>2 DEF Ingest!RunEnds, Ingest!Reply, Ingest!CancelBegin, Ingest!CancelRun,
       Ingest!CancelShow
<1>3. QED
    BY <1>1, <1>2 DEF Ingest!Next

\* A revision is queued when it is accepted, and taken when it is consumed.
LEMMA QueueNext ==
    ASSUME IngestInv, Ingest!Next
    PROVE  QueueInv'
<1>0. queue \in Seq(Ticket) /\ Len(queue) \in Nat
    BY DEF IngestInv, IngestTypes
<1>1. CASE UNCHANGED <<queue, ticket>>
    BY <1>1 DEF IngestInv, QueueInv
<1>2. CASE Ingest!PopTicket
    <2>1. CASE queue = << >>
        BY <1>1, <1>2, <2>1 DEF Ingest!PopTicket
    <2>2. CASE queue # << >>
        <3>1. PICK Q : Q = Tail(queue)
            OBVIOUS
        <3>2. queue' = Q /\ ticket' = [ticket EXCEPT ![queue[1]] = "consumed"]
            BY <1>0, <1>2, <2>2, <3>1 DEF Ingest!PopTicket, Ingest!RestOfQueue
        <3>3. /\ Len(Q) = Len(queue) - 1 /\ 1 \in 1..Len(queue)
              /\ \A i \in 1..Len(Q) : i + 1 \in 1..Len(queue) /\ Q[i] = queue[i + 1]
                                      /\ i + 1 # 1
            BY <1>0, <2>2, <3>1
        <3>4. ASSUME NEW i \in 1..Len(Q)
              PROVE  ticket'[Q[i]] = "queued"
            <4>1. /\ queue[i + 1] # queue[1] /\ ticket[queue[i + 1]] = "queued"
                  /\ queue[i + 1] \in Ticket
                BY <1>0, <3>3 DEF IngestInv, QueueInv
            <4>2. QED
                BY <3>2, <3>3, <4>1 DEF IngestInv, IngestTypes
        <3>5. ASSUME NEW i \in 1..Len(Q), NEW j \in 1..Len(Q), i # j
              PROVE  Q[i] # Q[j]
            <4>1. i + 1 # j + 1
                BY <3>5
            <4>2. QED
                BY <3>3, <4>1 DEF IngestInv, QueueInv
        <3>6. QED
            BY <3>2, <3>4, <3>5 DEF QueueInv
    <2>3. QED
        BY <2>1, <2>2
<1>3. CASE \E t \in Ticket : Ingest!SubmitRevision(t)
    <2>1. PICK t \in Ticket : Ingest!SubmitRevision(t)
        BY <1>3
    <2>2. /\ ticket[t] = "none" /\ queue' = queue
          /\ \A u \in Ticket : u # t => ticket'[u] = ticket[u]
        BY <2>1 DEF Ingest!SubmitRevision, Ingest!approvalVars, IngestInv, IngestTypes
    <2>3. QED
        BY <1>0, <2>2 DEF IngestInv, QueueInv
<1>4. CASE \E t \in Ticket : Ingest!QueueRevision(t)
    <2>1. PICK t \in Ticket : Ingest!QueueRevision(t)
        BY <1>4
    <2>2. PICK Q : Q = Append(queue, t)
        OBVIOUS
    <2>3. /\ queue' = Q /\ ticket[t] = "accepted"
          /\ ticket' = [ticket EXCEPT ![t] = "queued"]
        BY <2>1, <2>2 DEF Ingest!QueueRevision
    <2>4. /\ Len(Q) = Len(queue) + 1 /\ Q[Len(Q)] = t
          /\ \A i \in 1..Len(Q) : i # Len(Q) => i \in 1..Len(queue) /\ Q[i] = queue[i]
        BY <1>0, <2>2
    <2>5. \A i \in 1..Len(queue) : queue[i] # t /\ queue[i] \in Ticket
        BY <1>0, <2>3 DEF IngestInv, QueueInv
    <2>6. ASSUME NEW i \in 1..Len(Q)
          PROVE  ticket'[Q[i]] = "queued"
        BY <2>3, <2>4, <2>5 DEF IngestInv, IngestTypes, QueueInv
    <2>7. ASSUME NEW i \in 1..Len(Q), NEW j \in 1..Len(Q), i # j
          PROVE  Q[i] # Q[j]
        BY <2>4, <2>5, <2>7 DEF IngestInv, QueueInv
    <2>8. QED
        BY <2>3, <2>6, <2>7 DEF QueueInv
<1>5. QED
    BY <1>1, <1>2, <1>3, <1>4, QueueMoves

\* A step after which no other revision counts as consumed.
LEMMA ConsumedMore ==
    ASSUME IngestInv, Ingest!Next
    PROVE  \/ /\ Ingest!PopTicket /\ queue # << >>
              /\ Cardinality(Consumed') = Cardinality(Consumed) + 1
           \/ Consumed' = Consumed /\ (Ingest!PopTicket => queue = << >>)
<1>0. /\ queue \in Seq(Ticket)
      /\ ticket \in [Ticket -> {"none", "accepted", "unheard", "queued", "consumed"}]
    BY DEF IngestInv, IngestTypes
<1>1. CASE UNCHANGED <<queue, ticket>> /\ ~Ingest!PopTicket
    BY <1>1 DEF Consumed
<1>2. CASE Ingest!PopTicket
    <2>1. CASE queue = << >>
        BY <1>2, <2>1 DEF Ingest!PopTicket, Consumed
    <2>2. CASE queue # << >>
        <3>1. PICK t : t = Head(queue)
            OBVIOUS
        <3>2. t \in Ticket /\ ticket[t] = "queued"
            BY <1>0, <2>2, <3>1 DEF IngestInv, QueueInv
        <3>3. ticket' = [ticket EXCEPT ![t] = "consumed"]
            BY <1>2, <2>2, <3>1 DEF Ingest!PopTicket
        <3>4. Consumed' = Consumed \cup {t} /\ t \notin Consumed
            BY <1>0, <3>2, <3>3 DEF Consumed
        <3>5. QED
            BY <1>2, <2>2, <3>4, ConsumedCount, FS_AddElement
    <2>3. QED
        BY <2>1, <2>2
<1>3. CASE /\ \E t \in Ticket : Ingest!SubmitRevision(t) \/ Ingest!QueueRevision(t)
           /\ ~Ingest!PopTicket
    BY <1>0, <1>3 DEF Consumed, Ingest!SubmitRevision, Ingest!QueueRevision
<1>4. QED
    BY <1>1, <1>2, <1>3, QueueMoves

\* What a step does to the activation and to the repairs.
LEMMA ActMoves ==
    ASSUME IngestInv, Ingest!Next
    PROVE  \/ /\ UNCHANGED <<act, repairs>> /\ ~Ingest!PopTicket
              /\ pc' = "continue" => pc = "continue"
           \/ UNCHANGED <<act, repairs>> /\ Ingest!PopTicket
           \/ /\ act' = act /\ repairs' = repairs + 1
              /\ pc = "followed" /\ pc' = "continue"
           \/ act' = act + 1 /\ repairs' = repairs /\ pc = "continue" /\ pc' = "loop"
<1> USE DEF Ingest!userVars, Ingest!approvalVars, Ingest!EndOr
<1>1. CASE Ingest!Thread
    <2>1. CASE Ingest!Candidate
        BY <2>1, Zenon DEF Ingest!Candidate, Ingest!PopTicket
    <2>2. CASE Ingest!Continue
        BY <2>2 DEF Ingest!Continue, Ingest!PopTicket
    <2>3. CASE Ingest!PopTicket
        BY <2>3 DEF Ingest!PopTicket
    <2>4. QED
        BY <1>1, <2>1, <2>2, <2>3 DEF Ingest!Thread, Ingest!Hear, Ingest!Loop, Ingest!Bind,
           Ingest!Follow, Ingest!Register, Ingest!Activate, Ingest!WaitApproval,
           Ingest!Answered, Ingest!Decide
<1>2. CASE \/ \E st \in {"completed", "failed", "cancelled"} : Ingest!RunEnds(st)
           \/ \E a \in Ingest!Act, answer \in {"allow", "deny"} : Ingest!Reply(a, answer)
           \/ \E t \in Ticket : Ingest!SubmitRevision(t) \/ Ingest!QueueRevision(t)
           \/ \E c \in Canceller :
                Ingest!CancelBegin(c) \/ Ingest!CancelRun(c) \/ Ingest!CancelShow(c)
    BY <1>2 DEF Ingest!RunEnds, Ingest!Reply, Ingest!CancelBegin, Ingest!CancelRun,
       Ingest!CancelShow, Ingest!SubmitRevision, Ingest!QueueRevision
<1>3. QED
    BY <1>1, <1>2 DEF Ingest!Next

\* A repair or a revision is counted before the activation it leads to.
LEMMA ActsNext ==
    ASSUME IngestInv, Ingest!Next
    PROVE  ActsInv'
<1>0. /\ act \in Nat /\ repairs \in Nat /\ ActsInv
    BY IngestConstants DEF IngestInv, IngestTypes
<1>1. PICK n, m : n = Cardinality(Consumed) /\ m = Cardinality(Consumed')
    OBVIOUS
<1>2. n \in Nat
    BY <1>1, ConsumedCount
<1>3. \/ m = n + 1 /\ Ingest!PopTicket
      \/ m = n /\ (Ingest!PopTicket => queue = << >>)
    BY <1>1, ConsumedMore DEF Ingest!PopTicket
<1>4. Ingest!PopTicket => pc = "pop" /\ (pc' = "continue" => queue # << >>)
    BY DEF Ingest!PopTicket
<1>5. QED
    BY <1>0, <1>1, <1>2, <1>3, <1>4, ActMoves DEF ActsInv

\* Only the thread's following shows events, and only a new activation makes it
\* follow again.
LEMMA ShownMoves ==
    ASSUME IngestInv, Ingest!Next
    PROVE  \/ Ingest!Follow
           \/ shown' = shown /\ (pc' \in Following => pc \in Following \cup {"continue"})
<1> USE DEF Ingest!EndOr, Following
<1>1. CASE Ingest!Thread
    <2>1. CASE Ingest!Candidate
        BY <2>1, Zenon DEF Ingest!Candidate
    <2>2. CASE Ingest!Hear \/ Ingest!Loop \/ Ingest!Bind
        BY <2>2 DEF Ingest!Hear, Ingest!Loop, Ingest!Bind
    <2>3. CASE Ingest!Register \/ Ingest!Activate \/ Ingest!WaitApproval \/ Ingest!Answered
        BY <2>3 DEF Ingest!Register, Ingest!Activate, Ingest!WaitApproval, Ingest!Answered
    <2>4. CASE Ingest!PopTicket \/ Ingest!Decide \/ Ingest!Continue
        BY <2>4 DEF Ingest!PopTicket, Ingest!Decide, Ingest!Continue
    <2>5. QED
        BY <1>1, <2>1, <2>2, <2>3, <2>4 DEF Ingest!Thread
<1>2. CASE \/ \E st \in {"completed", "failed", "cancelled"} : Ingest!RunEnds(st)
           \/ \E a \in Ingest!Act, answer \in {"allow", "deny"} : Ingest!Reply(a, answer)
           \/ \E t \in Ticket : Ingest!SubmitRevision(t) \/ Ingest!QueueRevision(t)
           \/ \E c \in Canceller :
                Ingest!CancelBegin(c) \/ Ingest!CancelRun(c) \/ Ingest!CancelShow(c)
    BY <1>2 DEF Ingest!RunEnds, Ingest!Reply, Ingest!CancelBegin, Ingest!CancelRun,
       Ingest!CancelShow, Ingest!SubmitRevision, Ingest!QueueRevision
<1>3. QED
    BY <1>1, <1>2 DEF Ingest!Next

\* A thread that is about to continue the run does nothing else.
LEMMA ContinueMoves ==
    ASSUME Ingest!Next, pc = "continue", pc' # pc
    PROVE  Ingest!Continue
<1>1. Ingest!Thread
    BY DEF Ingest!Next, Ingest!RunEnds, Ingest!Reply, Ingest!CancelBegin, Ingest!CancelRun,
       Ingest!CancelShow, Ingest!SubmitRevision, Ingest!QueueRevision
<1>2. QED
    BY <1>1 DEF Ingest!Thread, Ingest!Hear, Ingest!Loop, Ingest!Bind, Ingest!Follow,
       Ingest!Candidate, Ingest!Register, Ingest!Activate, Ingest!WaitApproval,
       Ingest!Answered, Ingest!PopTicket, Ingest!Decide

\* Activations are heard from the first one on, once for each time the loop follows.
LEMMA ShownNext ==
    ASSUME IngestInv, Ingest!Next
    PROVE  ShownInv'
<1>0. /\ act \in Nat /\ shown \in [1..Ingest!MaxAct -> Nat] /\ Ingest!MaxAct' = Ingest!MaxAct
      /\ Ingest!MaxAct \in Nat /\ ShownInv
    BY DEF IngestInv, IngestTypes, Ingest!MaxAct
<1>1. CASE Ingest!Follow
    <2>1. /\ pc = "follow" /\ pc' \in {"ended", "followed"} /\ act' = act
          /\ shown' = [a \in 1..Ingest!MaxAct |-> IF a <= act THEN shown[a] + 1 ELSE shown[a]]
        BY <1>1 DEF Ingest!Follow, Ingest!EndOr, Ingest!Act
    <2>2. QED
        BY <1>0, <2>1 DEF ShownInv, Following
<1>2. CASE ~Ingest!Follow
    <2>1. shown' = shown /\ (pc' \in Following => pc \in Following \cup {"continue"})
        BY <1>2, ShownMoves
    <2>2. CASE act' = act /\ ~(pc = "continue" /\ pc' \in Following)
        BY <1>0, <2>1, <2>2 DEF ShownInv, Following
    <2>3. CASE act' = act + 1 /\ pc = "continue" /\ pc' = "loop"
        BY <1>0, <2>1, <2>3 DEF ShownInv, Following
    <2>4. CASE act' = act /\ pc = "continue" /\ pc' \in Following
        <3>1. Ingest!Continue
            BY <1>2, <2>4, ContinueMoves DEF Following
        <3>2. run = "completed" => act' = act + 1
            BY <3>1 DEF Ingest!Continue
        <3>3. run # "completed" => pc' = "ended"
            BY <3>1 DEF Ingest!Continue, Ingest!EndOr
        <3>4. QED
            BY <1>0, <2>4, <3>2, <3>3 DEF Following
    <2>5. QED
        BY <2>2, <2>3, <2>4, ActMoves
<1>3. QED
    BY <1>1, <1>2

\* An answer that allows comes from the user, and its candidate is installed at the end.
LEMMA AnswersNext ==
    ASSUME IngestInv, Ingest!Next
    PROVE  AnswersInv'
<1>0. IngestTypes /\ AnswersInv /\ Ingest!MaxAct' = Ingest!MaxAct
    BY DEF IngestInv, Ingest!MaxAct
<1> USE DEF Ingest!userVars, Ingest!approvalVars
<1>1. CASE \/ Ingest!Hear \/ Ingest!Loop \/ Ingest!Bind \/ Ingest!Follow
           \/ Ingest!Candidate \/ Ingest!Continue
    <2>1. UNCHANGED <<waiter, allowed, installed>>
        BY <1>1 DEF Ingest!Hear, Ingest!Loop, Ingest!Bind, Ingest!Follow, Ingest!Candidate,
           Ingest!Continue
    <2>2. pc # "ended" /\ pc' \notin {"answered", "pop", "decide"}
        <3>1. CASE Ingest!Candidate
            <4>1. pc = "followed" /\ pc' \in {"ended", "continue", "register"}
                BY <3>1, Zenon DEF Ingest!Candidate, Ingest!EndOr
            <4>2. QED
                BY <4>1
        <3>2. CASE Ingest!Hear \/ Ingest!Loop \/ Ingest!Bind \/ Ingest!Follow
            BY <3>2 DEF Ingest!Hear, Ingest!Loop, Ingest!Bind, Ingest!Follow, Ingest!EndOr
        <3>3. CASE Ingest!Continue
            BY <3>3 DEF Ingest!Continue, Ingest!EndOr
        <3>4. QED
            BY <1>1, <3>1, <3>2, <3>3
    <2>3. QED
        BY <1>0, <2>1, <2>2 DEF AnswersInv
<1>2. CASE Ingest!Register
    BY <1>0, <1>2 DEF AnswersInv, IngestTypes, Ingest!Register
<1>3. CASE Ingest!Activate
    <2>1. PICK a : a = IF Ingest!Pending THEN act ELSE 0
        OBVIOUS
    <2>2. a \in 0..Ingest!MaxAct /\ Ingest!Resolve(a, "deny")
        BY <1>0, <1>3, <2>1 DEF IngestTypes, Ingest!Activate
    <2>3. \A b \in 1..Ingest!MaxAct : waiter'[b] = "allow" => waiter[b] = "allow"
        BY <2>2, Resolved
    <2>4. pc = "activate" /\ pc' = "wait" /\ UNCHANGED <<allowed, installed>>
        BY <1>3 DEF Ingest!Activate
    <2>5. QED
        BY <1>0, <2>3, <2>4 DEF AnswersInv
<1>4. CASE Ingest!WaitApproval
    <2>1. /\ pc = "wait" /\ pc' = "answered" /\ decision' = waiter[act]
          /\ waiter' = [waiter EXCEPT ![act] = "popped"]
          /\ UNCHANGED <<act, allowed, installed>>
        BY <1>4 DEF Ingest!WaitApproval
    <2>2. act \in 1..Ingest!MaxAct
        BY <1>0 DEF IngestTypes
    <2>3. \A b \in 1..Ingest!MaxAct : waiter'[b] = "allow" => waiter[b] = "allow"
        BY <1>0, <2>1 DEF IngestTypes
    <2>4. QED
        BY <1>0, <2>1, <2>2, <2>3 DEF AnswersInv
<1>5. CASE Ingest!Answered \/ Ingest!PopTicket
    <2>1. UNCHANGED <<waiter, allowed, installed, act, decision>>
        BY <1>5 DEF Ingest!Answered, Ingest!PopTicket
    <2>2. pc \in {"answered", "pop"}
        BY <1>5 DEF Ingest!Answered, Ingest!PopTicket
    <2>3. QED
        BY <1>0, <2>1, <2>2 DEF AnswersInv
<1>6. CASE Ingest!Decide
    <2>1. /\ pc = "decide" /\ pc' = "ended" /\ UNCHANGED <<waiter, allowed>>
          /\ installed' = installed \/ (decision = "allow" /\ installed' = installed \cup {act})
        BY <1>6 DEF Ingest!Decide, Ingest!EndOr, Ingest!Decided
    <2>2. QED
        BY <1>0, <2>1 DEF AnswersInv
<1>7. CASE \E a \in Ingest!Act, answer \in {"allow", "deny"} : Ingest!Reply(a, answer)
    <2>1. PICK a \in 1..Ingest!MaxAct, answer \in {"allow", "deny"} : Ingest!Reply(a, answer)
        BY <1>7 DEF Ingest!Act
    <2>2. a \in 0..Ingest!MaxAct /\ Ingest!Resolve(a, answer)
        BY <1>0, <2>1 DEF IngestTypes, Ingest!Reply
    <2>3. \A b \in 1..Ingest!MaxAct :
             waiter'[b] = "allow" => waiter[b] = "allow" \/ (b = a /\ answer = "allow")
        BY <2>2, Resolved
    <2>4. /\ UNCHANGED <<pc, decision, act, installed>>
          /\ allowed' = IF answer = "allow" THEN allowed \cup {a} ELSE allowed
        BY <2>1 DEF Ingest!Reply
    <2>5. QED
        BY <1>0, <2>3, <2>4 DEF AnswersInv
<1>8. CASE \/ \E st \in {"completed", "failed", "cancelled"} : Ingest!RunEnds(st)
           \/ \E t \in Ticket : Ingest!SubmitRevision(t)
           \/ \E c \in Canceller : Ingest!CancelRun(c)
    BY <1>0, <1>8 DEF AnswersInv, Ingest!RunEnds, Ingest!SubmitRevision, Ingest!CancelRun
<1>9. CASE \E t \in Ticket : Ingest!QueueRevision(t)
    <2>1. PICK t \in Ticket : Ingest!QueueRevision(t)
        BY <1>9
    <2>2. active \in 0..Ingest!MaxAct /\ Ingest!Resolve(active, "deny")
        BY <1>0, <2>1 DEF IngestTypes, Ingest!QueueRevision
    <2>3. \A b \in 1..Ingest!MaxAct : waiter'[b] = "allow" => waiter[b] = "allow"
        BY <2>2, Resolved
    <2>4. UNCHANGED <<pc, decision, act, installed, allowed>>
        BY <2>1 DEF Ingest!QueueRevision
    <2>5. QED
        BY <1>0, <2>3, <2>4 DEF AnswersInv
<1>10. CASE \E c \in Canceller : Ingest!CancelBegin(c) \/ Ingest!CancelShow(c)
    <2>1. Ingest!DenyAll /\ UNCHANGED <<pc, decision, act, installed, allowed>>
        BY <1>10 DEF Ingest!CancelBegin, Ingest!CancelShow
    <2>2. \A b \in 1..Ingest!MaxAct : waiter'[b] = "allow" => waiter[b] = "allow"
        BY <2>1 DEF Ingest!DenyAll, Ingest!Act
    <2>3. QED
        BY <1>0, <2>1, <2>2 DEF AnswersInv
<1>11. QED
    BY <1>1, <1>2, <1>3, <1>4, <1>5, <1>6, <1>7, <1>8, <1>9, <1>10
       DEF Ingest!Next, Ingest!Thread

\* The invariant of a package's revisions is kept.
LEMMA IngestNext ==
    ASSUME IngestInv, Ingest!Next
    PROVE  IngestInv'
BY IngestTypesNext, QueueNext, ActsNext, ShownNext, AnswersNext DEF IngestInv

\* What the invariant says in the terms of the module.
LEMMA IngestKeeps ==
    ASSUME IngestInv
    PROVE  Ingest!TypeOK /\ Ingest!InstalledWasAllowed
<1>1. IngestTypes /\ QueueInv /\ ShownInv /\ AnswersInv
    BY DEF IngestInv
<1>2. DOMAIN queue = 1..Len(queue)
    BY <1>1 DEF IngestTypes
<1>3. shown \in [1..Ingest!MaxAct -> 0..Ingest!MaxAct]
    <2>1. ASSUME NEW a \in 1..Ingest!MaxAct
          PROVE  shown[a] \in 0..Ingest!MaxAct
        BY <1>1 DEF IngestTypes, ShownInv
    <2>2. QED
        BY <1>1, <2>1 DEF IngestTypes
<1>4. Ingest!TypeOK
    BY <1>1, <1>2, <1>3 DEF IngestTypes, QueueInv, Ingest!TypeOK, Ingest!Act, Ingest!Open
<1>5. Ingest!Cardinality(installed) <= 1
    <2>1. Ingest!Cardinality(installed) = Cardinality(installed)
        BY DEF Ingest!Cardinality, Cardinality
    <2>2. installed = {} \/ \E a \in installed : installed = {a}
        BY <1>1 DEF AnswersInv
    <2>3. QED
        BY <2>1, <2>2, FS_EmptySet, FS_Singleton
<1>6. QED
    BY <1>1, <1>4, <1>5 DEF AnswersInv, Ingest!InstalledWasAllowed

-----------------------------------------------------------------------------
(* Local actions.                                                          *)

\* The constants of the local actions.
LEMMA LocalConstants ==
    /\ MaxActions \in Nat /\ MaxTimeouts \in Nat /\ MaxLapses \in Nat
    /\ "none" \notin Request
BY ServicesAssumption DEF Local!BoundAssumption

\* There are no actions, and no request is worked on.
LEMMA LocalInit ==
    ASSUME Local!Init
    PROVE  LocalInv
<1>1. LocalTypes
    <2>1. DOMAIN action = 1..0 /\ 0 \in 0..MaxActions
        BY LocalConstants DEF Local!Init
    <2>2. action \in [DOMAIN action -> ActionRow]
        BY DEF Local!Init
    <2>3. /\ request \in [Request -> RequestRow]
          /\ job \in [Peer -> [action : Nat, lease : Nat]]
        BY DEF Local!Init, RequestRow, Local!NoJob
    <2>4. /\ awaited \in [Peer -> Request \cup {"none"}]
          /\ result \in [Peer -> [Key -> {"none", "passed", "failed", "stale"}]]
          /\ \A p \in Peer : job[p] = Local!NoJob
          /\ lapsed = {} /\ gone = {} /\ timeouts = 0
        BY DEF Local!Init
    <2>5. QED
        BY <2>1, <2>2, <2>3, <2>4 DEF LocalTypes
<1>2. OneRequest /\ FoundStays
    BY DEF Local!Init, OneRequest, FoundStays, Found, Busy, Looks, Local!NoRequest
<1>3. OneInstall
    BY DEF Local!Init, OneInstall, Local!ActiveInstalls, Local!Actions
<1>4. QED
    BY <1>1, <1>2, <1>3 DEF LocalInv, Local!Init

\* Steps of the other parts change nothing here.
LEMMA LocalStays ==
    ASSUME LocalInv, UNCHANGED localVars
    PROVE  LocalInv'
<1>1. /\ LocalTypes' = LocalTypes /\ OneInstall' = OneInstall
    BY DEF localVars, LocalTypes, OneInstall, Local!ActiveInstalls, Local!Actions
<1>2. FoundStays' = FoundStays /\ OneRequest' = OneRequest
    BY DEF localVars, FoundStays, Found, OneRequest, Busy, Looks, Local!ActiveInstalls,
       Local!Actions
<1>3. QED
    BY <1>1, <1>2 DEF LocalInv, localVars

\* The first of some actions.
LEMMA FirstAction ==
    ASSUME NEW T, T \subseteq Nat, T # {}
    PROVE  \E x \in T : \A y \in T : x <= y
<1> DEFINE Before == {p \in Nat \X Nat : p[1] < p[2]}
<1>1. IsWellFoundedOn(Before, Nat)
    BY NatLessThanWellFounded DEF OpToRel
<1>2. PICK x \in T : \A y \in T : <<y, x>> \notin Before
    <2> HIDE DEF Before
    <2>1. QED
        BY <1>1, WFMin
<1>3. ASSUME NEW y \in T
      PROVE  x <= y
    <2>1. x \in Nat /\ y \in Nat /\ ~(y < x)
        BY <1>2
    <2>2. QED
        BY <2>1
<1>4. QED
    BY <1>3

\* The row of action a becomes x, and no other changes.
Updates(a, x) ==
    /\ DOMAIN action' = DOMAIN action /\ action'[a] = x
    /\ action' \in [DOMAIN action -> ActionRow]
    /\ \A b \in DOMAIN action : b # a => action'[b] = action[b]

\* What a call does to the action of peer p's job.
LEMMA GivenBack ==
    ASSUME LocalTypes, NEW a \in DOMAIN action, Local!GiveBack(a)
    PROVE  /\ Updates(a, [action[a] EXCEPT !.leased = FALSE, !.status = "waiting_peer"])
           /\ lapsed' = lapsed \ {a}
<1>1. action[a] \in ActionRow
    BY DEF LocalTypes
<1>2. [action[a] EXCEPT !.leased = FALSE, !.status = "waiting_peer"] \in ActionRow
    BY <1>1 DEF ActionRow
<1>3. action' = [action EXCEPT ![a] =
                    [action[a] EXCEPT !.leased = FALSE, !.status = "waiting_peer"]]
    BY DEF Local!GiveBack, LocalTypes
<1>4. QED
    BY <1>2, <1>3 DEF LocalTypes, Local!GiveBack, Updates

\* A report or a completion changes the status of one action.
LEMMA StatusSet ==
    ASSUME LocalTypes, NEW a \in DOMAIN action,
           NEW st \in {"completed", "failed", "cancelled", "progress"},
           action' = [action EXCEPT ![a].status = st]
    PROVE  Updates(a, [action[a] EXCEPT !.status = st])
<1>1. action[a] \in ActionRow
    BY DEF LocalTypes
<1>2. [action[a] EXCEPT !.status = st] \in ActionRow
    BY <1>1 DEF ActionRow
<1>3. QED
    BY <1>2 DEF LocalTypes, Updates

\* A claim hands out the first action of the peer that is not under a lease.
LEMMA Claims ==
    ASSUME LocalTypes, NEW r \in Request, Local!ClaimAction(r)
    PROVE  \/ UNCHANGED <<action, lapsed, job>>
           \/ \E a \in Local!Claimable(request[r].peer) :
                /\ Updates(a, [action[a] EXCEPT !.lease = action[a].lease + 1,
                                              !.leased = TRUE, !.status = "started"])
                /\ lapsed' = lapsed \ {a}
                /\ job' = IF awaited[request[r].peer] = r
                          THEN [job EXCEPT ![request[r].peer] =
                                  [action |-> a, lease |-> action[a].lease + 1]]
                          ELSE job
<1>1. CASE Local!Claimable(request[r].peer) = {}
    BY <1>1 DEF Local!ClaimAction
<1>2. CASE Local!Claimable(request[r].peer) # {}
    <2>1. PICK a : a = CHOOSE x \in Local!Claimable(request[r].peer) :
                           \A y \in Local!Claimable(request[r].peer) : x <= y
        OBVIOUS
    <2>2. Local!Claimable(request[r].peer) \subseteq Nat
        BY DEF Local!Claimable, Local!Actions, LocalTypes
    <2>3. a \in Local!Claimable(request[r].peer)
        BY <1>2, <2>1, <2>2, FirstAction
    <2>4. /\ action' = [action EXCEPT ![a].lease = action[a].lease + 1,
                                      ![a].leased = TRUE, ![a].status = "started"]
          /\ lapsed' = lapsed \ {a}
          /\ job' = IF awaited[request[r].peer] = r
                    THEN [job EXCEPT ![request[r].peer] =
                            [action |-> a, lease |-> action[a].lease + 1]]
                    ELSE job
        BY <1>2, <2>1 DEF Local!ClaimAction
    <2>5. a \in DOMAIN action /\ action[a] \in ActionRow
        BY <2>3 DEF Local!Claimable, Local!Actions, LocalTypes
    <2>6. PICK x : x = [action[a] EXCEPT !.lease = action[a].lease + 1,
                                         !.leased = TRUE, !.status = "started"]
        OBVIOUS
    <2>7. x \in ActionRow
        <3>1. PICK n \in Nat : n = action[a].lease + 1
            BY <2>5 DEF ActionRow
        <3>2. [action[a] EXCEPT !.lease = n, !.leased = TRUE, !.status = "started"]
                 \in ActionRow
            BY <2>5, <3>1 DEF ActionRow
        <3>3. QED
            BY <2>6, <3>1, <3>2
    <2>8. action' = [action EXCEPT ![a] = x]
        BY <2>4, <2>5, <2>6 DEF LocalTypes
    <2>9. Updates(a, x)
        BY <2>5, <2>7, <2>8 DEF Updates, LocalTypes
    <2>10. QED
        BY <2>3, <2>4, <2>6, <2>9
<1>3. QED
    BY <1>1, <1>2

\* What the server knows of a request at each of its steps.
LEMMA RequestRows ==
    ASSUME NEW x \in RequestRow
    PROVE  /\ x = Local!NoRequest <=> x.pc = "idle"
           /\ x.pc \in {"idle", "sync", "create", "record"}
           /\ x.pc # "idle" => x.peer \in Peer
           /\ x.pc \in {"sync", "create"} => x.todo \subseteq Key
           /\ x.pc \in {"create", "record"} => x.key \in Key
           /\ x.pc = "record" => x.verdict \in {"passed", "failed", "stale"}
<1>1. CASE x = Local!NoRequest
    BY <1>1 DEF Local!NoRequest
<1>2. CASE x \in [pc : {"sync"}, peer : Peer, todo : SUBSET Key]
    BY <1>2 DEF Local!NoRequest
<1>3. CASE x \in [pc : {"create"}, peer : Peer, todo : SUBSET Key, key : Key]
    BY <1>3 DEF Local!NoRequest
<1>4. CASE x \in [pc : {"record"}, peer : Peer, key : Key,
                  verdict : {"passed", "failed", "stale"}]
    BY <1>4 DEF Local!NoRequest
<1>5. QED
    BY <1>1, <1>2, <1>3, <1>4 DEF RequestRow

\* No install becomes active again.
Fewer ==
    \A p \in Peer, k \in Key : Local!ActiveInstalls(p, k)' \subseteq Local!ActiveInstalls(p, k)

Ended == {"completed", "failed", "cancelled"}

\* A row that keeps its peer and its key is active only if it was.
LEMMA FewerActive ==
    ASSUME LocalTypes, NEW a \in DOMAIN action, NEW x \in ActionRow, Updates(a, x),
           x.peer = action[a].peer, x.key = action[a].key,
           action[a].status \in Ended => x.status \in Ended
    PROVE  Fewer
<1>1. ASSUME NEW p \in Peer, NEW k \in Key, NEW b \in Local!ActiveInstalls(p, k)'
      PROVE  b \in Local!ActiveInstalls(p, k)
    <2>1. /\ b \in DOMAIN action /\ action'[b].peer = p /\ action'[b].key = k
          /\ action'[b].status \notin Ended
        BY <1>1 DEF Local!ActiveInstalls, Local!Actions, Local!Terminal, Updates, Ended
    <2>2. CASE b = a
        BY <2>1, <2>2 DEF Updates, Local!ActiveInstalls, Local!Actions, Local!Terminal, Ended
    <2>3. CASE b # a
        BY <2>1, <2>3 DEF Updates, Local!ActiveInstalls, Local!Actions, Local!Terminal, Ended
    <2>4. QED
        BY <2>2, <2>3
<1>2. QED
    BY <1>1 DEF Fewer

\* What changes no action activates none.
LEMMA SameActive ==
    ASSUME UNCHANGED action
    PROVE  Fewer
BY DEF Fewer, Local!ActiveInstalls, Local!Actions

\* The row is that of an action that was open, and keeps its peer, key and lease.
Progresses(a) ==
    /\ a \in DOMAIN action /\ action[a].status \notin Ended
    /\ \E x \in ActionRow : /\ Updates(a, x) /\ x.lease = action[a].lease
                            /\ x.peer = action[a].peer /\ x.key = action[a].key

\* An action that progresses is of the same peer and key.
LEMMA FewerProgress ==
    ASSUME LocalTypes, NEW a, Progresses(a)
    PROVE  Fewer
BY FewerActive DEF Progresses

\* An action that progresses keeps its form.
LEMMA ProgressTypes ==
    ASSUME LocalTypes, NEW a, Progresses(a)
    PROVE  /\ DOMAIN action' = DOMAIN action
           /\ action' \in [DOMAIN action' -> ActionRow]
BY DEF Progresses, Updates

\* A request that goes on has found the same as long as no result of its peer is
\* recorded.
LEMMA FoundKept ==
    ASSUME LocalTypes, Fewer, NEW q \in Request, Found(q), request'[q] = request[q],
           Looks(q) => result'[request[q].peer] = result[request[q].peer]
    PROVE  Found(q)'
<1>1. request[q].pc = "create" => request[q].peer \in Peer /\ request[q].key \in Key
    BY RequestRows DEF LocalTypes
<1>2. QED
    BY <1>1 DEF Found, Looks, Fewer

\* A step of the peer, or a lapse, that leaves the requests alone keeps what they
\* found.
LEMMA RequestsQuiet ==
    ASSUME LocalInv, Fewer, UNCHANGED <<request, result, timeouts>>,
           \A p \in Peer : awaited'[p] = awaited[p] \/ p \in gone', gone \subseteq gone'
    PROVE  timeouts' = 0 => OneRequest' /\ FoundStays' /\ OneInstall'
<1>0. SUFFICES ASSUME timeouts = 0
               PROVE  OneRequest' /\ FoundStays' /\ OneInstall'
    OBVIOUS
<1>1. OneRequest'
    BY <1>0 DEF LocalInv, OneRequest, Busy
<1>2. FoundStays'
    BY <1>0, FoundKept DEF LocalInv, FoundStays
<1>3. OneInstall'
    BY <1>0 DEF LocalInv, OneInstall, Fewer
<1>4. QED
    BY <1>1, <1>2, <1>3

\* A request that ends leaves the others as they are; what it records is of its
\* own peer.
LEMMA RequestEnds ==
    ASSUME LocalInv, Fewer, NEW r \in Request, UNCHANGED <<timeouts, gone>>,
           request' = [request EXCEPT ![r] = Local!NoRequest],
           \A p \in Peer : awaited'[p] = awaited[p] \/ awaited[p] = r,
           \A p \in Peer : Busy(r, p) \/ result'[p] = result[p]
    PROVE  timeouts' = 0 => OneRequest' /\ FoundStays' /\ OneInstall'
<1>0. SUFFICES ASSUME timeouts = 0
               PROVE  OneRequest' /\ FoundStays' /\ OneInstall'
    OBVIOUS
<1>1. request \in [Request -> RequestRow]
    BY DEF LocalInv, LocalTypes
<1>2. \A q \in Request : request'[q] # Local!NoRequest => q # r /\ request'[q] = request[q]
    BY <1>1
<1>3. OneRequest'
    BY <1>0, <1>2 DEF LocalInv, OneRequest, Busy
<1>4. FoundStays'
    <2>1. ASSUME NEW q \in Request, Looks(q)'
          PROVE  Found(q)'
        <3>1. q # r /\ request'[q] = request[q]
            BY <1>1, <1>2, <2>1 DEF Looks, Local!NoRequest
        <3>2. Looks(q) /\ request[q] # Local!NoRequest /\ request[q].peer \in Peer
            BY <1>1, <2>1, <3>1, RequestRows DEF Looks
        <3>3. ~Busy(r, request[q].peer)
            BY <1>0, <3>1, <3>2 DEF LocalInv, OneRequest, Busy
        <3>4. QED
            BY <1>0, <3>1, <3>2, <3>3, FoundKept DEF LocalInv, FoundStays
    <2>2. QED
        BY <2>1 DEF FoundStays, Found, Looks
<1>5. OneInstall'
    BY <1>0 DEF LocalInv, OneInstall, Fewer
<1>6. QED
    BY <1>3, <1>4, <1>5

\* A peer that waits for every answer claims only when none of its requests is left.
LEMMA SendClaimKeeps ==
    ASSUME LocalInv, NEW p \in Peer, NEW r \in Request, Local!SendClaim(p, r)
    PROVE  LocalInv'
<1>0. LocalTypes
    BY DEF LocalInv
<1>1. PICK x : x = [pc |-> "sync", peer |-> p, todo |-> Key \ Local!Installed(p)]
    OBVIOUS
<1>2. /\ p \notin gone /\ awaited[p] = "none" /\ request[r] = Local!NoRequest
      /\ request' = [request EXCEPT ![r] = x] /\ awaited' = [awaited EXCEPT ![p] = r]
      /\ UNCHANGED <<action, lapsed, job, result, gone, timeouts>>
    BY <1>1 DEF Local!SendClaim
<1>3. x \in RequestRow /\ x # Local!NoRequest /\ x.pc = "sync" /\ x.peer = p
    BY <1>1 DEF RequestRow, Local!NoRequest
<1>4. LocalTypes'
    BY <1>0, <1>2, <1>3 DEF LocalTypes
<1>5. \A q \in gone' : awaited'[q] = "none" /\ job'[q] = Local!NoJob
    BY <1>0, <1>2 DEF LocalInv, LocalTypes
<1>6. ASSUME timeouts = 0
      PROVE  OneRequest' /\ FoundStays' /\ OneInstall'
    <2>1. \A q \in Request : ~Busy(q, p)
        BY <1>2, <1>6, LocalConstants DEF LocalInv, OneRequest
    <2>2. \A q \in Request, w \in Peer :
             Busy(q, w)' => (q = r /\ w = p) \/ (q # r /\ w # p /\ Busy(q, w))
        BY <1>0, <1>2, <1>3, <2>1 DEF Busy, LocalTypes
    <2>3. OneRequest'
        BY <1>0, <1>2, <1>6, <2>2 DEF LocalInv, LocalTypes, OneRequest
    <2>4. Fewer
        BY <1>2, SameActive
    <2>5. FoundStays'
        <3>1. ASSUME NEW q \in Request, q # r
              PROVE  Found(q)'
            BY <1>0, <1>2, <1>6, <2>4, <3>1, FoundKept DEF LocalInv, LocalTypes, FoundStays
        <3>2. Found(r)'
            BY <1>0, <1>1, <1>2, <1>3 DEF Found, LocalTypes, Local!Installed
        <3>3. QED
            BY <3>1, <3>2 DEF FoundStays
    <2>6. OneInstall'
        BY <1>6, <2>4 DEF LocalInv, OneInstall, Fewer
    <2>7. QED
        BY <2>3, <2>5, <2>6
<1>7. QED
    BY <1>2, <1>4, <1>5, <1>6 DEF LocalInv

\* The look at the actions leaves an install out, or goes on to create it.
LEMMA CheckInstallKeeps ==
    ASSUME LocalInv, NEW r \in Request, NEW k \in Key, Local!CheckInstall(r, k)
    PROVE  LocalInv'
<1>0. LocalTypes
    BY DEF LocalInv
<1>1. PICK p, todo : p = request[r].peer /\ todo = request[r].todo
    OBVIOUS
<1>2. /\ p \in Peer /\ todo \subseteq Key /\ k \in todo /\ request[r] \in RequestRow
      /\ request[r].pc = "sync" /\ request[r] # Local!NoRequest
    BY <1>0, <1>1, RequestRows DEF Local!CheckInstall, LocalTypes
<1>3. request[r] = [pc |-> "sync", peer |-> p, todo |-> todo]
    BY <1>1, <1>2 DEF RequestRow, Local!NoRequest
<1>4. PICK x : /\ x \in RequestRow /\ x # Local!NoRequest /\ x.peer = p
               /\ request' = [request EXCEPT ![r] = x] /\ x.pc \in {"sync", "create"}
               /\ x.todo \subseteq todo
               /\ x.pc = "create" => /\ x.key = k /\ x.todo = todo
                                     /\ Local!ActiveInstalls(p, k) = {}
    <2>1. CASE Local!HasActiveAction(p, k)
        <3>1. PICK x : x = [pc |-> "sync", peer |-> p, todo |-> todo \ {k}]
            OBVIOUS
        <3>2. Local!HasActiveAction(request[r].peer, k)
            BY <1>1, <2>1
        <3>3. request' = [request EXCEPT ![r] = x]
            BY <1>1, <3>1, <3>2 DEF Local!CheckInstall
        <3>4. x \in RequestRow /\ x # Local!NoRequest
            BY <1>2, <3>1 DEF RequestRow, Local!NoRequest
        <3>5. x.peer = p /\ x.pc = "sync" /\ x.todo \subseteq todo
            BY <3>1
        <3>6. QED
            BY <3>3, <3>4, <3>5
    <2>2. CASE ~Local!HasActiveAction(p, k)
        <3>1. PICK x : x = [pc |-> "create", peer |-> p, todo |-> todo, key |-> k]
            OBVIOUS
        <3>2. request' = [request EXCEPT ![r] = x]
            BY <1>1, <2>2, <3>1 DEF Local!CheckInstall
        <3>3. x \in RequestRow /\ x # Local!NoRequest
            BY <1>2, <3>1 DEF RequestRow, Local!NoRequest
        <3>4. Local!ActiveInstalls(p, k) = {}
            BY <2>2 DEF Local!HasActiveAction
        <3>5. x.peer = p /\ x.pc = "create" /\ x.todo = todo /\ x.key = k
            BY <3>1
        <3>6. QED
            BY <3>2, <3>3, <3>4, <3>5
    <2>3. QED
        BY <2>1, <2>2
<1>5. UNCHANGED <<action, lapsed, awaited, job, result, gone, timeouts>>
    BY DEF Local!CheckInstall
<1>6. LocalTypes'
    BY <1>0, <1>4, <1>5 DEF LocalTypes
<1>7. ASSUME timeouts = 0
      PROVE  OneRequest' /\ FoundStays' /\ OneInstall'
    <2>1. \A q \in Request, w \in Peer : Busy(q, w)' <=> Busy(q, w)
        BY <1>0, <1>1, <1>2, <1>4 DEF Busy, LocalTypes
    <2>2. OneRequest'
        BY <1>5, <1>7, <2>1 DEF LocalInv, OneRequest
    <2>3. Fewer
        BY <1>5, SameActive
    <2>4. FoundStays'
        <3>1. ASSUME NEW q \in Request, q # r
              PROVE  Found(q)'
            BY <1>0, <1>4, <1>5, <1>7, <2>3, <3>1, FoundKept
               DEF LocalInv, LocalTypes, FoundStays
        <3>2. Found(r)'
            <4>1. request'[r] = x
                BY <1>0, <1>4 DEF LocalTypes
            <4>2. \A l \in todo : result[p][l] # "passed"
                BY <1>1, <1>2, <1>7 DEF LocalInv, FoundStays, Found, Looks
            <4>3. \A l \in x.todo : result'[x.peer][l] # "passed"
                BY <1>4, <1>5, <4>2
            <4>4. x.pc = "create" =>
                     x.key \in x.todo /\ Local!ActiveInstalls(p, k)' = {}
                BY <1>2, <1>4, <2>3 DEF Fewer
            <4>5. QED
                BY <1>4, <4>1, <4>3, <4>4 DEF Found, Looks
        <3>3. QED
            BY <3>1, <3>2 DEF FoundStays
    <2>5. OneInstall'
        BY <1>7, <2>3 DEF LocalInv, OneInstall, Fewer
    <2>6. QED
        BY <2>2, <2>4, <2>5
<1>8. QED
    BY <1>5, <1>6, <1>7 DEF LocalInv
\* An install is created: no other of its key is active, and no other request is
\* about its peer.
LEMMA CreateInstallKeeps ==
    ASSUME LocalInv, NEW r \in Request, Local!CreateInstall(r)
    PROVE  LocalInv'
<1>0. LocalTypes
    BY DEF LocalInv
<1>1. PICK n \in 0..MaxActions : DOMAIN action = 1..n
    BY <1>0 DEF LocalTypes
<1>2. n \in Nat /\ n + 1 \in 0..MaxActions /\ Local!Cardinality(Local!Actions) = n
    <2>1. Local!Cardinality(Local!Actions) = Cardinality(1..n)
        BY <1>1 DEF Local!Cardinality, Cardinality, Local!Actions
    <2>2. Cardinality(1..n) = n
        BY FS_Interval
    <2>3. QED
        BY <2>1, <2>2, LocalConstants DEF Local!CreateInstall
<1>3. PICK p, k, todo : p = request[r].peer /\ k = request[r].key /\ todo = request[r].todo
    OBVIOUS
<1>4. /\ request[r].pc = "create" /\ p \in Peer /\ k \in Key /\ todo \subseteq Key
      /\ request[r] # Local!NoRequest
    BY <1>0, <1>3, RequestRows DEF Local!CreateInstall, LocalTypes
<1>5. PICK x, row : /\ x = [pc |-> "sync", peer |-> p, todo |-> todo \ {k}]
                    /\ row = [peer |-> p, key |-> k, lease |-> 0, leased |-> FALSE,
                              status |-> "waiting_peer"]
    OBVIOUS
<1>6. x \in RequestRow /\ x # Local!NoRequest /\ row \in ActionRow
    BY <1>4, <1>5 DEF RequestRow, ActionRow, Local!NoRequest
<1>7. request' = [request EXCEPT ![r] = x]
    BY <1>3, <1>5 DEF Local!CreateInstall
<1>8. /\ DOMAIN action' = 1..(n + 1) /\ action'[n + 1] = row
      /\ \A a \in 1..n : action'[a] = action[a]
      /\ action' \in [1..(n + 1) -> ActionRow]
    <2>1. action' = [a \in 1..n \cup {n + 1} |-> IF a \in 1..n THEN action[a] ELSE row]
        BY <1>1, <1>2, <1>3, <1>5 DEF Local!CreateInstall, Local!Actions
    <2>2. 1..n \cup {n + 1} = 1..(n + 1) /\ n + 1 \notin 1..n
        BY <1>2
    <2>3. \A a \in 1..n : action[a] \in ActionRow
        BY <1>0, <1>1 DEF LocalTypes
    <2>4. QED
        BY <1>6, <2>1, <2>2, <2>3
<1>9. UNCHANGED <<lapsed, awaited, job, result, gone, timeouts>>
    BY DEF Local!CreateInstall
<1>10. LocalTypes'
    <2>1. 1..n \subseteq 1..(n + 1)
        BY <1>2
    <2>2. /\ \E m \in 0..MaxActions : DOMAIN action' = 1..m
          /\ action' \in [DOMAIN action' -> ActionRow]
          /\ lapsed' \subseteq DOMAIN action'
          /\ \A w \in Peer : job'[w] # Local!NoJob => job'[w].action \in DOMAIN action'
        BY <1>0, <1>1, <1>2, <1>8, <1>9, <2>1 DEF LocalTypes
    <2>3. request' \in [Request -> RequestRow]
        BY <1>0, <1>6, <1>7 DEF LocalTypes
    <2>4. QED
        BY <1>0, <1>9, <2>2, <2>3 DEF LocalTypes
<1>11. ASSUME timeouts = 0
       PROVE  OneRequest' /\ FoundStays' /\ OneInstall'
    <2>1. \A q \in Request, w \in Peer : Busy(q, w)' <=> Busy(q, w)
        BY <1>0, <1>3, <1>4, <1>5, <1>6, <1>7 DEF Busy, LocalTypes
    <2>2. OneRequest'
        BY <1>9, <1>11, <2>1 DEF LocalInv, OneRequest
    <2>3. Local!ActiveInstalls(p, k) = {}
        BY <1>3, <1>4, <1>11 DEF LocalInv, FoundStays, Found
    <2>4. ASSUME NEW w \in Peer, NEW l \in Key, NEW a \in Local!ActiveInstalls(w, l)'
          PROVE  a \in Local!ActiveInstalls(w, l) \/ (a = n + 1 /\ w = p /\ l = k)
        <3>1. /\ a \in 1..(n + 1) /\ action'[a].peer = w /\ action'[a].key = l
              /\ action'[a].status \notin Local!Terminal
            BY <1>8, <2>4 DEF Local!ActiveInstalls, Local!Actions, Local!Terminal
        <3>2. CASE a = n + 1
            BY <1>5, <1>8, <3>1, <3>2
        <3>3. CASE a # n + 1
            <4>1. a \in 1..n
                BY <1>2, <3>1, <3>3
            <4>2. QED
                BY <1>1, <1>8, <3>1, <4>1 DEF Local!ActiveInstalls, Local!Actions
        <3>4. QED
            BY <3>2, <3>3
    <2>5. OneInstall'
        BY <1>11, <2>3, <2>4 DEF LocalInv, OneInstall
    <2>6. ASSUME NEW q \in Request, q # r
          PROVE  Found(q)'
        <3>1. request'[q] = request[q] /\ Found(q) /\ request[q] \in RequestRow
            BY <1>0, <1>7, <1>11, <2>6 DEF LocalTypes, LocalInv, FoundStays
        <3>2. CASE request[q].pc = "create"
            <4>1. /\ request[q].peer \in Peer /\ request[q].key \in Key
                  /\ request[q] # Local!NoRequest
                BY <3>1, <3>2, RequestRows
            <4>2. request[q].peer # p
                BY <1>3, <1>4, <1>11, <2>6, <4>1 DEF LocalInv, OneRequest, Busy
            <4>3. \A a \in Local!ActiveInstalls(request[q].peer, request[q].key)' : FALSE
                BY <2>4, <3>1, <3>2, <4>1, <4>2 DEF Found
            <4>4. Local!ActiveInstalls(request[q].peer, request[q].key)' = {}
                BY <4>3
            <4>5. QED
                BY <1>9, <3>1, <4>4 DEF Found, Looks
        <3>3. CASE request[q].pc # "create"
            BY <1>9, <3>1, <3>3 DEF Found, Looks
        <3>4. QED
            BY <3>2, <3>3
    <2>7. Found(r)'
        <3>1. request'[r] = x
            BY <1>0, <1>7 DEF LocalTypes
        <3>2. \A l \in todo : result[p][l] # "passed"
            BY <1>3, <1>4, <1>11 DEF LocalInv, FoundStays, Found, Looks
        <3>3. QED
            BY <1>5, <1>9, <3>1, <3>2 DEF Found, Looks
    <2>8. QED
        BY <2>2, <2>5, <2>6, <2>7 DEF FoundStays
<1>12. QED
    BY <1>9, <1>10, <1>11 DEF LocalInv

\* A claim hands an action out, or finds none, and the request ends.
LEMMA ClaimActionKeeps ==
    ASSUME LocalInv, NEW r \in Request, Local!ClaimAction(r)
    PROVE  LocalInv'
<1>0. LocalTypes
    BY DEF LocalInv
<1>1. PICK p : p = request[r].peer
    OBVIOUS
<1>2. request[r].pc = "sync" /\ p \in Peer /\ request[r] # Local!NoRequest
    BY <1>0, <1>1, RequestRows DEF Local!ClaimAction, LocalTypes
<1>3. /\ request' = [request EXCEPT ![r] = Local!NoRequest]
      /\ awaited' = IF awaited[p] = r THEN [awaited EXCEPT ![p] = "none"] ELSE awaited
      /\ UNCHANGED <<result, gone, timeouts>>
    BY <1>1 DEF Local!ClaimAction
<1>4. /\ request' \in [Request -> RequestRow]
      /\ awaited' \in [Peer -> Request \cup {"none"}]
    BY <1>0, <1>2, <1>3 DEF LocalTypes, RequestRow
<1>5. /\ DOMAIN action' = DOMAIN action /\ action' \in [DOMAIN action -> ActionRow]
      /\ lapsed' \subseteq lapsed /\ Fewer
      /\ job' \in [Peer -> [action : Nat, lease : Nat]]
      /\ \A w \in Peer : job'[w] # Local!NoJob => job'[w].action \in DOMAIN action
      /\ \A w \in Peer : job'[w] = job[w] \/ (w = p /\ awaited[p] = r)
    <2>1. CASE UNCHANGED <<action, lapsed, job>>
        BY <1>0, <2>1, SameActive DEF LocalTypes
    <2>2. CASE \E a \in Local!Claimable(p) :
                /\ Updates(a, [action[a] EXCEPT !.lease = action[a].lease + 1,
                                              !.leased = TRUE, !.status = "started"])
                /\ lapsed' = lapsed \ {a}
                /\ job' = IF awaited[p] = r
                          THEN [job EXCEPT ![p] =
                                  [action |-> a, lease |-> action[a].lease + 1]]
                          ELSE job
        <3>1. PICK a \in Local!Claimable(p) :
                /\ Updates(a, [action[a] EXCEPT !.lease = action[a].lease + 1,
                                              !.leased = TRUE, !.status = "started"])
                /\ lapsed' = lapsed \ {a}
                /\ job' = IF awaited[p] = r
                          THEN [job EXCEPT ![p] =
                                  [action |-> a, lease |-> action[a].lease + 1]]
                          ELSE job
            BY <2>2
        <3>2. /\ a \in DOMAIN action /\ action[a].status \notin Ended
              /\ action[a] \in ActionRow /\ a \in Nat
            BY <1>0, <3>1 DEF Local!Claimable, Local!Actions, Local!Terminal, LocalTypes,
                              Ended
        <3>3. PICK x : x = [action[a] EXCEPT !.lease = action[a].lease + 1,
                                             !.leased = TRUE, !.status = "started"]
            OBVIOUS
        <3>4. Updates(a, x) /\ x \in ActionRow
            BY <3>1, <3>2, <3>3 DEF Updates
        <3>5. x.peer = action[a].peer /\ x.key = action[a].key
            BY <3>2, <3>3 DEF ActionRow
        <3>6. Fewer
            BY <1>0, <3>2, <3>4, <3>5, FewerActive
        <3>7. PICK lease \in Nat : lease = action[a].lease + 1
            BY <3>2 DEF ActionRow
        <3>8. PICK new : new = [action |-> a, lease |-> lease]
            OBVIOUS
        <3>9. (job' = [job EXCEPT ![p] = new] /\ awaited[p] = r) \/ job' = job
            BY <3>1, <3>7, <3>8
        <3>10. new \in [action : Nat, lease : Nat] /\ new.action = a
            BY <3>2, <3>8
        <3>11. QED
            BY <1>0, <1>2, <3>1, <3>2, <3>4, <3>6, <3>9, <3>10 DEF LocalTypes, Updates
    <2>3. QED
        BY <1>0, <1>1, <2>1, <2>2, Claims
<1>6. LocalTypes'
    BY <1>0, <1>3, <1>4, <1>5 DEF LocalTypes
<1>7. \A q \in gone' : awaited'[q] = "none" /\ job'[q] = Local!NoJob
    BY <1>0, <1>2, <1>3, <1>5, LocalConstants DEF LocalInv, LocalTypes
<1>8. timeouts' = 0 => OneRequest' /\ FoundStays' /\ OneInstall'
    <2>1. \A w \in Peer : awaited'[w] = awaited[w] \/ awaited[w] = r
        BY <1>0, <1>2, <1>3 DEF LocalTypes
    <2>2. QED
        BY <1>3, <1>5, <2>1, RequestEnds
<1>9. QED
    BY <1>6, <1>7, <1>8 DEF LocalInv
\* An open action whose lease lapsed is given back.
LEMMA GiveBackProgresses ==
    ASSUME LocalTypes, NEW a \in DOMAIN action, action[a].status \notin Ended,
           Local!GiveBack(a)
    PROVE  Progresses(a) /\ lapsed' = lapsed \ {a}
<1>1. action[a] \in ActionRow
    BY DEF LocalTypes
<1>2. PICK x : x = [action[a] EXCEPT !.leased = FALSE, !.status = "waiting_peer"]
    OBVIOUS
<1>3. /\ x \in ActionRow /\ x.lease = action[a].lease
      /\ x.peer = action[a].peer /\ x.key = action[a].key
    BY <1>1, <1>2 DEF ActionRow
<1>4. Updates(a, x) /\ lapsed' = lapsed \ {a}
    BY <1>2, GivenBack
<1>5. QED
    BY <1>3, <1>4 DEF Progresses

\* An open action progresses or ends.
LEMMA StatusProgresses ==
    ASSUME LocalTypes, NEW a \in DOMAIN action, action[a].status \notin Ended,
           NEW st \in {"completed", "failed", "cancelled", "progress"},
           action' = [action EXCEPT ![a].status = st]
    PROVE  Progresses(a)
<1>1. action[a] \in ActionRow
    BY DEF LocalTypes
<1>2. PICK x : x = [action[a] EXCEPT !.status = st]
    OBVIOUS
<1>3. /\ x \in ActionRow /\ x.lease = action[a].lease
      /\ x.peer = action[a].peer /\ x.key = action[a].key
    BY <1>1, <1>2 DEF ActionRow
<1>4. Updates(a, x)
    BY <1>2, StatusSet
<1>5. QED
    BY <1>3, <1>4 DEF Progresses

\* A peer that gives up its claim is one that does not wait for every answer.
LEMMA ClaimTimesOutKeeps ==
    ASSUME LocalInv, NEW p \in Peer, Local!ClaimTimesOut(p)
    PROVE  LocalInv'
<1>1. /\ awaited' = [awaited EXCEPT ![p] = "none"] /\ timeouts' = timeouts + 1
      /\ UNCHANGED <<action, lapsed, request, job, result, gone>>
    BY DEF Local!ClaimTimesOut
<1>2. LocalTypes' /\ timeouts' # 0
    BY <1>1 DEF LocalInv, LocalTypes
<1>3. \A q \in gone' : awaited'[q] = "none" /\ job'[q] = Local!NoJob
    BY <1>1 DEF LocalInv, LocalTypes
<1>4. QED
    BY <1>2, <1>3 DEF LocalInv

\* The end of a lease changes no request and no status.
LEMMA LeaseLapsesKeeps ==
    ASSUME LocalInv, NEW a \in DOMAIN action, Local!LeaseLapses(a)
    PROVE  LocalInv'
<1>1. /\ lapsed' = lapsed \cup {a}
      /\ UNCHANGED <<action, request, awaited, job, result, gone, timeouts>>
    BY DEF Local!LeaseLapses
<1>2. LocalTypes'
    BY <1>1 DEF LocalInv, LocalTypes
<1>3. timeouts' = 0 => OneRequest' /\ FoundStays' /\ OneInstall'
    BY <1>1, SameActive, RequestsQuiet
<1>4. QED
    BY <1>1, <1>2, <1>3 DEF LocalInv

\* Progress under a lease that holds, or one that lapsed.
LEMMA ProgressMoves ==
    ASSUME LocalInv, NEW p \in Peer, Local!Progress(p)
    PROVE  Progresses(job[p].action) /\ lapsed' \subseteq lapsed
<1>1. PICK a : a = job[p].action
    OBVIOUS
<1>2. a \in DOMAIN action /\ action[a].status \notin Ended
    BY <1>1 DEF LocalInv, LocalTypes, Local!Progress, Local!PresentsLease, Local!Terminal,
                Ended
<1>3. CASE a \in lapsed
    BY <1>1, <1>2, <1>3, GiveBackProgresses DEF LocalInv, Local!Progress
<1>4. CASE a \notin lapsed
    BY <1>1, <1>2, <1>4, StatusProgresses DEF LocalInv, Local!Progress
<1>5. QED
    BY <1>3, <1>4

\* A report of progress starts no install.
LEMMA ProgressKeeps ==
    ASSUME LocalInv, NEW p \in Peer, Local!Progress(p)
    PROVE  LocalInv'
<1>1. Progresses(job[p].action) /\ lapsed' \subseteq lapsed
    BY ProgressMoves
<1>2. /\ DOMAIN action' = DOMAIN action
      /\ action' \in [DOMAIN action' -> ActionRow] /\ Fewer
    BY <1>1, ProgressTypes, FewerProgress DEF LocalInv
<1>3. UNCHANGED <<request, awaited, job, result, gone, timeouts>>
    BY DEF Local!Progress
<1>4. LocalTypes'
    BY <1>1, <1>2, <1>3 DEF LocalInv, LocalTypes
<1>5. timeouts' = 0 => OneRequest' /\ FoundStays' /\ OneInstall'
    BY <1>2, <1>3, RequestsQuiet
<1>6. QED
    BY <1>3, <1>4, <1>5 DEF LocalInv

\* A completion under a lease that holds ends the action, and a thread of the server
\* goes on to record its result.
LEMMA AcceptedKeeps ==
    ASSUME LocalInv, NEW p \in Peer, NEW r \in Request,
           NEW st \in Local!Terminal, NEW v \in Local!Verdict \ {"none"},
           Local!Complete(p, r, st, v),
           Local!PresentsLease(p), job[p].action \notin lapsed
    PROVE  Progresses(job[p].action) /\ LocalInv'
<1>0. LocalTypes
    BY DEF LocalInv
<1>1. PICK a, k, x : /\ a = job[p].action /\ k = action[a].key
                     /\ x = [pc |-> "record", peer |-> p, key |-> k, verdict |-> v]
    OBVIOUS
<1>2. /\ job[p] # Local!NoJob /\ awaited[p] = "none" /\ request[r] = Local!NoRequest
      /\ action' = [action EXCEPT ![a].status = st]
      /\ request' = [request EXCEPT ![r] = x] /\ awaited' = [awaited EXCEPT ![p] = r]
      /\ UNCHANGED <<lapsed, job, result, gone, timeouts>>
    BY <1>1 DEF Local!Complete
<1>3. a \in DOMAIN action /\ action[a].status \notin Ended /\ action[a] \in ActionRow
    BY <1>0, <1>1, <1>2 DEF LocalTypes, Local!PresentsLease, Local!Terminal, Ended
<1>4. Progresses(a)
    BY <1>0, <1>2, <1>3, StatusProgresses DEF Local!Terminal
<1>5. /\ DOMAIN action' = DOMAIN action
      /\ action' \in [DOMAIN action' -> ActionRow] /\ Fewer
    BY <1>0, <1>4, ProgressTypes, FewerProgress
<1>6. x \in RequestRow /\ x # Local!NoRequest /\ x.pc = "record" /\ x.peer = p
    BY <1>1, <1>3 DEF RequestRow, Local!NoRequest, ActionRow, Local!Verdict
<1>7. LocalTypes'
    BY <1>0, <1>2, <1>5, <1>6 DEF LocalTypes
<1>8. p \notin gone
    BY <1>2 DEF LocalInv
<1>9. \A q \in gone' : awaited'[q] = "none" /\ job'[q] = Local!NoJob
    BY <1>0, <1>2, <1>8 DEF LocalInv, LocalTypes
<1>10. ASSUME timeouts = 0
       PROVE  OneRequest' /\ FoundStays' /\ OneInstall'
    <2>1. \A q \in Request : ~Busy(q, p)
        BY <1>2, <1>8, <1>10, LocalConstants DEF LocalInv, OneRequest
    <2>2. \A q \in Request, w \in Peer :
             Busy(q, w)' => (q = r /\ w = p) \/ (q # r /\ w # p /\ Busy(q, w))
        BY <1>0, <1>2, <1>6, <2>1 DEF Busy, LocalTypes
    <2>3. OneRequest'
        BY <1>0, <1>2, <1>10, <2>2 DEF LocalInv, LocalTypes, OneRequest
    <2>4. FoundStays'
        <3>1. ASSUME NEW q \in Request, q # r
              PROVE  Found(q)'
            BY <1>0, <1>2, <1>5, <1>10, <3>1, FoundKept DEF LocalInv, LocalTypes, FoundStays
        <3>2. Found(r)'
            BY <1>0, <1>2, <1>6 DEF Found, Looks, LocalTypes
        <3>3. QED
            BY <3>1, <3>2 DEF FoundStays
    <2>5. OneInstall'
        BY <1>5, <1>10 DEF LocalInv, OneInstall, Fewer
    <2>6. QED
        BY <2>3, <2>4, <2>5
<1>11. QED
    BY <1>1, <1>2, <1>4, <1>7, <1>9, <1>10 DEF LocalInv

\* A completion that is refused gives an action whose lease lapsed back, or changes
\* none.
LEMMA RefusedMoves ==
    ASSUME LocalInv, NEW p \in Peer, NEW r \in Request,
           NEW st \in Local!Terminal, NEW v \in Local!Verdict \ {"none"},
           Local!Complete(p, r, st, v),
           ~(Local!PresentsLease(p) /\ job[p].action \notin lapsed)
    PROVE  /\ job[p] # Local!NoJob
           /\ gone' = gone \cup {p} /\ job' = [job EXCEPT ![p] = Local!NoJob]
           /\ UNCHANGED <<request, awaited, result, timeouts>> /\ awaited[p] = "none"
           /\ \/ UNCHANGED <<action, lapsed>>
              \/ Progresses(job[p].action) /\ lapsed' \subseteq lapsed
<1>1. PICK a : a = job[p].action
    OBVIOUS
<1>2. /\ job[p] # Local!NoJob /\ awaited[p] = "none"
      /\ IF Local!PresentsLease(p) THEN Local!GiveBack(a) ELSE UNCHANGED <<action, lapsed>>
      /\ gone' = gone \cup {p} /\ job' = [job EXCEPT ![p] = Local!NoJob]
      /\ UNCHANGED <<request, awaited, result, timeouts>>
    BY <1>1 DEF Local!Complete
<1>3. CASE Local!PresentsLease(p)
    <2>1. a \in DOMAIN action /\ action[a].status \notin Ended
        BY <1>1, <1>2, <1>3 DEF LocalInv, LocalTypes, Local!PresentsLease, Local!Terminal,
                                Ended
    <2>2. Progresses(a) /\ lapsed' = lapsed \ {a}
        BY <1>2, <1>3, <2>1, GiveBackProgresses DEF LocalInv
    <2>3. QED
        BY <1>1, <1>2, <2>2
<1>4. CASE ~Local!PresentsLease(p)
    BY <1>2, <1>4
<1>5. QED
    BY <1>3, <1>4

\* A peer that ended keeps nothing.
LEMMA StopKeeps ==
    ASSUME LocalInv, NEW p \in Peer, UNCHANGED <<request, result, timeouts>>,
           gone' = gone \cup {p}, job' = [job EXCEPT ![p] = Local!NoJob],
           awaited' = [awaited EXCEPT ![p] = "none"],
           \/ UNCHANGED <<action, lapsed>>
           \/ \E a : Progresses(a) /\ lapsed' \subseteq lapsed
    PROVE  LocalInv'
<1>1. /\ DOMAIN action' = DOMAIN action
      /\ action' \in [DOMAIN action' -> ActionRow]
      /\ lapsed' \subseteq lapsed /\ Fewer
    <2>1. CASE UNCHANGED <<action, lapsed>>
        BY <2>1, SameActive DEF LocalInv, LocalTypes
    <2>2. CASE \E a : Progresses(a) /\ lapsed' \subseteq lapsed
        BY <2>2, ProgressTypes, FewerProgress DEF LocalInv
    <2>3. QED
        BY <2>1, <2>2
<1>2. Local!NoJob \in [action : Nat, lease : Nat]
    BY DEF Local!NoJob
<1>3. LocalTypes'
    BY <1>1, <1>2 DEF LocalInv, LocalTypes
<1>4. \A q \in gone' : awaited'[q] = "none" /\ job'[q] = Local!NoJob
    BY DEF LocalInv, LocalTypes
<1>5. \A q \in Peer : awaited'[q] = awaited[q] \/ q \in gone'
    BY DEF LocalInv, LocalTypes
<1>6. timeouts' = 0 => OneRequest' /\ FoundStays' /\ OneInstall'
    BY <1>1, <1>5, RequestsQuiet
<1>7. QED
    BY <1>3, <1>4, <1>6 DEF LocalInv

\* A completion that is refused ends the peer's loop.
LEMMA RefusedKeeps ==
    ASSUME LocalInv, NEW p \in Peer, NEW r \in Request,
           NEW st \in Local!Terminal, NEW v \in Local!Verdict \ {"none"},
           Local!Complete(p, r, st, v),
           ~(Local!PresentsLease(p) /\ job[p].action \notin lapsed)
    PROVE  LocalInv'
<1>1. awaited' = [awaited EXCEPT ![p] = "none"]
    BY RefusedMoves DEF LocalInv, LocalTypes
<1>2. QED
    BY <1>1, RefusedMoves, StopKeeps

\* A result is recorded for the peer of the request only.
LEMMA RecordResultKeeps ==
    ASSUME LocalInv, NEW r \in Request, Local!RecordResult(r)
    PROVE  LocalInv'
<1>0. LocalTypes
    BY DEF LocalInv
<1>1. PICK p, k, v : p = request[r].peer /\ k = request[r].key /\ v = request[r].verdict
    OBVIOUS
<1>2. /\ p \in Peer /\ k \in Key /\ v \in {"passed", "failed", "stale"}
      /\ request[r] # Local!NoRequest
    BY <1>0, <1>1, RequestRows DEF Local!RecordResult, LocalTypes
<1>3. /\ result' = [result EXCEPT ![p][k] = v]
      /\ request' = [request EXCEPT ![r] = Local!NoRequest]
      /\ \/ /\ awaited[p] = r /\ awaited' = [awaited EXCEPT ![p] = "none"]
            /\ job' = [job EXCEPT ![p] = Local!NoJob]
         \/ UNCHANGED <<awaited, job>>
      /\ UNCHANGED <<action, lapsed, gone, timeouts>>
    BY <1>1 DEF Local!RecordResult
<1>4. /\ result' \in [Peer -> [Key -> {"none", "passed", "failed", "stale"}]]
      /\ request' \in [Request -> RequestRow]
    BY <1>0, <1>2, <1>3 DEF LocalTypes, RequestRow
<1>5. /\ awaited' \in [Peer -> Request \cup {"none"}]
      /\ job' \in [Peer -> [action : Nat, lease : Nat]]
      /\ \A w \in Peer : job'[w] # Local!NoJob => job'[w].action \in DOMAIN action
      /\ \A w \in gone : awaited'[w] = "none" /\ job'[w] = Local!NoJob
    <2>1. Local!NoJob \in [action : Nat, lease : Nat]
        BY DEF Local!NoJob
    <2>2. CASE UNCHANGED <<awaited, job>>
        BY <1>0, <2>2 DEF LocalInv, LocalTypes
    <2>3. CASE /\ awaited' = [awaited EXCEPT ![p] = "none"]
               /\ job' = [job EXCEPT ![p] = Local!NoJob]
        <3>1. /\ awaited' \in [Peer -> Request \cup {"none"}]
              /\ job' \in [Peer -> [action : Nat, lease : Nat]]
            BY <1>0, <1>2, <2>1, <2>3 DEF LocalTypes
        <3>2. \A w \in Peer : job'[w] # Local!NoJob => job'[w].action \in DOMAIN action
            BY <1>0, <1>2, <2>3 DEF LocalTypes
        <3>3. \A w \in gone : awaited'[w] = "none" /\ job'[w] = Local!NoJob
            BY <1>0, <1>2, <2>3 DEF LocalInv, LocalTypes
        <3>4. QED
            BY <3>1, <3>2, <3>3
    <2>4. QED
        BY <1>3, <2>2, <2>3
<1>6. LocalTypes'
    BY <1>0, <1>3, <1>4, <1>5 DEF LocalTypes
<1>7. /\ \A w \in Peer : awaited'[w] = awaited[w] \/ awaited[w] = r
      /\ \A w \in Peer : Busy(r, w) \/ result'[w] = result[w]
    BY <1>0, <1>1, <1>2, <1>3 DEF LocalTypes, Busy
<1>8. timeouts' = 0 => OneRequest' /\ FoundStays' /\ OneInstall'
    BY <1>3, <1>7, SameActive, RequestEnds
<1>9. QED
    BY <1>3, <1>5, <1>6, <1>8 DEF LocalInv

\* Every step of a peer and of a server thread keeps the invariant.
LEMMA LocalNext ==
    ASSUME LocalInv, Local!Next
    PROVE  LocalInv'
<1>1. ASSUME NEW p \in Peer, Local!PeerStep(p)
      PROVE  LocalInv'
    <2>1. CASE Local!Progress(p)
        BY <2>1, ProgressKeeps
    <2>2. ASSUME NEW r \in Request, Local!SendClaim(p, r)
          PROVE  LocalInv'
        BY <2>2, SendClaimKeeps
    <2>3. ASSUME NEW r \in Request, NEW st \in Local!Terminal,
                 NEW v \in Local!Verdict \ {"none"}, Local!Complete(p, r, st, v)
          PROVE  LocalInv'
        BY <2>3, AcceptedKeeps, RefusedKeeps
    <2>4. QED
        BY <1>1, <2>1, <2>2, <2>3 DEF Local!PeerStep
<1>2. ASSUME NEW r \in Request, Local!ServerStep(r)
      PROVE  LocalInv'
    BY <1>2, CheckInstallKeeps, CreateInstallKeeps, ClaimActionKeeps, RecordResultKeeps
       DEF Local!ServerStep
<1>3. ASSUME NEW p \in Peer, Local!PeerStops(p)
      PROVE  LocalInv'
    BY <1>3, StopKeeps DEF Local!PeerStops
<1>4. ASSUME NEW a \in DOMAIN action, Local!LeaseLapses(a)
      PROVE  LocalInv'
    BY <1>4, LeaseLapsesKeeps
<1>5. QED
    BY <1>1, <1>2, <1>3, <1>4, ClaimTimesOutKeeps DEF Local!Next, Local!Actions
-----------------------------------------------------------------------------
(* What a step does to the actions.                                        *)

LocalActs ==
    (timeouts = 0 => Local!InstallsAnew) /\ Local!JobKeepsLease /\ Local!EndedStays

\* A step leaves every action alone, moves an open one under its lease, creates one
\* or claims one.
LEMMA LocalMoves ==
    ASSUME LocalInv, Local!Next
    PROVE  \/ UNCHANGED action
           \/ \E a : Progresses(a)
           \/ \E r \in Request : Local!CreateInstall(r) \/ Local!ClaimAction(r)
<1>1. ASSUME NEW p \in Peer, Local!PeerStep(p)
      PROVE  UNCHANGED action \/ \E a : Progresses(a)
    <2>1. CASE Local!Progress(p)
        BY <2>1, ProgressMoves
    <2>2. ASSUME NEW r \in Request, Local!SendClaim(p, r)
          PROVE  UNCHANGED action
        BY <2>2 DEF Local!SendClaim
    <2>3. ASSUME NEW r \in Request, NEW st \in Local!Terminal,
                 NEW v \in Local!Verdict \ {"none"}, Local!Complete(p, r, st, v)
          PROVE  UNCHANGED action \/ \E a : Progresses(a)
        BY <2>3, AcceptedKeeps, RefusedMoves
    <2>4. QED
        BY <1>1, <2>1, <2>2, <2>3 DEF Local!PeerStep
<1>2. ASSUME NEW r \in Request, Local!ServerStep(r)
      PROVE  UNCHANGED action \/ Local!CreateInstall(r) \/ Local!ClaimAction(r)
    BY <1>2 DEF Local!ServerStep, Local!CheckInstall, Local!RecordResult
<1>3. ASSUME NEW p \in Peer, Local!PeerStops(p) \/ Local!ClaimTimesOut(p)
      PROVE  UNCHANGED action
    BY <1>3 DEF Local!PeerStops, Local!ClaimTimesOut
<1>4. ASSUME NEW a \in DOMAIN action, Local!LeaseLapses(a)
      PROVE  UNCHANGED action
    BY <1>4 DEF Local!LeaseLapses
<1>5. QED
    BY <1>1, <1>2, <1>3, <1>4 DEF Local!Next, Local!Actions

\* The rows of the actions that are there are kept.
LEMMA QuietActs ==
    ASSUME DOMAIN action' = DOMAIN action \/ ~(timeouts = 0) \/ Local!InstallsAnew,
           \A a \in DOMAIN action : action'[a] = action[a], LocalInv
    PROVE  LocalActs
<1>1. Local!EndedStays
    BY DEF Local!EndedStays, Local!Actions
<1>2. Local!JobKeepsLease
    BY DEF LocalInv, LocalTypes, Local!JobKeepsLease
<1>3. timeouts = 0 => Local!InstallsAnew
    BY DEF Local!InstallsAnew, Local!Actions
<1>4. QED
    BY <1>1, <1>2, <1>3 DEF LocalActs

\* Progress and completion keep the lease, and are of an action that had not ended.
LEMMA ProgressActs ==
    ASSUME LocalInv, NEW a, Progresses(a)
    PROVE  LocalActs
<1>1. PICK x \in ActionRow : Updates(a, x) /\ x.lease = action[a].lease
    BY DEF Progresses
<1>2. Local!EndedStays
    BY <1>1 DEF Progresses, Updates, Local!EndedStays, Local!Actions, Local!Terminal, Ended
<1>3. Local!JobKeepsLease
    BY <1>1 DEF Progresses, Updates, Local!JobKeepsLease, LocalInv, LocalTypes
<1>4. Local!InstallsAnew
    BY <1>1 DEF Updates, Local!InstallsAnew, Local!Actions
<1>5. QED
    BY <1>2, <1>3, <1>4 DEF LocalActs

\* What is created was not installed, and no result that says so is about to be
\* recorded: that would be another request of the peer.
LEMMA CreateActs ==
    ASSUME LocalInv, NEW r \in Request, Local!CreateInstall(r)
    PROVE  LocalActs
<1>0. LocalTypes
    BY DEF LocalInv
<1>1. PICK n \in 0..MaxActions : DOMAIN action = 1..n
    BY <1>0 DEF LocalTypes
<1>2. n \in Nat /\ Local!Cardinality(Local!Actions) = n
    <2>1. Local!Cardinality(Local!Actions) = Cardinality(1..n)
        BY <1>1 DEF Local!Cardinality, Cardinality, Local!Actions
    <2>2. Cardinality(1..n) = n
        BY FS_Interval
    <2>3. QED
        BY <2>1, <2>2
<1>3. PICK p, k : p = request[r].peer /\ k = request[r].key
    OBVIOUS
<1>4. request[r].pc = "create" /\ p \in Peer /\ k \in Key /\ request[r] # Local!NoRequest
    BY <1>0, <1>3, RequestRows DEF Local!CreateInstall, LocalTypes
<1>5. action' = [a \in 1..n \cup {n + 1} |->
                    IF a \in 1..n THEN action[a]
                    ELSE [peer |-> p, key |-> k, lease |-> 0, leased |-> FALSE,
                          status |-> "waiting_peer"]]
    BY <1>1, <1>2, <1>3 DEF Local!CreateInstall, Local!Actions
<1>6. \A a \in DOMAIN action : action'[a] = action[a]
    BY <1>1, <1>5
<1>7. ASSUME timeouts = 0
      PROVE  Local!InstallsAnew
    <2>1. result[p][k] # "passed"
        BY <1>3, <1>4, <1>7 DEF LocalInv, FoundStays, Found, Looks
    <2>2. ASSUME NEW q \in Request,
                 request[q] = [pc |-> "record", peer |-> p, key |-> k, verdict |-> "passed"]
          PROVE  FALSE
        <3>1. Busy(q, p) /\ Busy(r, p)
            BY <1>3, <1>4, <2>2 DEF Busy, Local!NoRequest
        <3>2. q = r
            BY <1>4, <1>7, <3>1 DEF LocalInv, OneRequest
        <3>3. QED
            BY <1>4, <2>2, <3>2
    <2>3. ~Local!Passed(p, k)
        BY <2>1, <2>2 DEF Local!Passed
    <2>4. \A a \in DOMAIN action' \ DOMAIN action : action'[a].peer = p /\ action'[a].key = k
        BY <1>1, <1>5
    <2>5. QED
        BY <2>3, <2>4 DEF Local!InstallsAnew, Local!Actions
<1>8. QED
    BY <1>6, <1>7, QuietActs

\* What is claimed is open and under no lease that holds.
LEMMA ClaimActs ==
    ASSUME LocalInv, NEW r \in Request, Local!ClaimAction(r)
    PROVE  LocalActs
<1>1. CASE UNCHANGED action
    BY <1>1, QuietActs
<1>2. CASE \E a \in Local!Claimable(request[r].peer) :
              \E x : Updates(a, x)
    <2>1. PICK a \in Local!Claimable(request[r].peer) : \E x : Updates(a, x)
        BY <1>2
    <2>2. /\ DOMAIN action' = DOMAIN action
          /\ \A b \in DOMAIN action : b # a => action'[b] = action[b]
        BY <2>1 DEF Updates
    <2>3. /\ action[a].status \notin Local!Terminal
          /\ ~action[a].leased \/ a \in lapsed
        BY <2>1 DEF Local!Claimable
    <2>4. Local!EndedStays
        BY <2>2, <2>3 DEF Local!EndedStays, Local!Actions
    <2>5. Local!JobKeepsLease
        BY <2>2, <2>3 DEF Local!JobKeepsLease, Local!PresentsLease, LocalInv, LocalTypes
    <2>6. Local!InstallsAnew
        BY <2>2 DEF Local!InstallsAnew, Local!Actions
    <2>7. QED
        BY <2>4, <2>5, <2>6 DEF LocalActs
<1>3. QED
    BY <1>1, <1>2, Claims DEF LocalInv

\* What a peer installed is not installed again, its lease holds, and an action that
\* ended keeps its status.
LEMMA LocalActsNext ==
    ASSUME LocalInv, Local!Next
    PROVE  LocalActs
BY LocalMoves, QuietActs, ProgressActs, CreateActs, ClaimActs

\* What the invariant says of the properties.
LEMMA LocalKeeps ==
    ASSUME LocalInv
    PROVE  Local!TypeOK /\ (timeouts = 0 => Local!OneInstallAtATime)
<1>1. Local!TypeOK
    <2>1. PICK n \in 0..MaxActions : DOMAIN action = 1..n
        BY DEF LocalInv, LocalTypes
    <2>2. \E m \in 0..MaxActions :
             action \in [1..m -> [peer : Peer, key : Key, lease : Nat, leased : BOOLEAN,
                                  status : Local!Terminal \cup
                                      {"waiting_peer", "started", "progress"}]]
        BY <2>1 DEF LocalInv, LocalTypes, ActionRow, Local!Terminal
    <2>3. \A p \in Peer : job[p].action \in {0} \cup DOMAIN action
        BY DEF LocalInv, LocalTypes, Local!NoJob
    <2>4. QED
        BY <2>2, <2>3 DEF LocalInv, LocalTypes, Local!TypeOK, Local!Verdict
<1>2. ASSUME timeouts = 0, NEW p \in Peer, NEW k \in Key
      PROVE  Local!Cardinality(Local!ActiveInstalls(p, k)) <= 1
    <2>1. PICK T : T = Local!ActiveInstalls(p, k)
        OBVIOUS
    <2>2. \A a, b \in T : a = b
        BY <1>2, <2>1 DEF LocalInv, OneInstall
    <2>3. Cardinality(T) <= 1
        <3>1. CASE T = {}
            BY <3>1, FS_EmptySet
        <3>2. CASE T # {}
            <4>1. PICK a : T = {a}
                BY <2>2, <3>2
            <4>2. QED
                BY <4>1, FS_Singleton
        <3>3. QED
            BY <3>1, <3>2
    <2>4. Local!Cardinality(T) = Cardinality(T)
        BY DEF Local!Cardinality, Cardinality
    <2>5. QED
        BY <2>1, <2>3, <2>4
<1>3. QED
    BY <1>1, <1>2 DEF Local!OneInstallAtATime
-----------------------------------------------------------------------------
(* Pull requests.                                                          *)

\* The constants of the pull requests, with the operators of this module.
LEMMA PullConstants ==
    /\ MaxDeliveries \in Nat /\ NoTask \notin Task
    /\ Pulls!Thread = Handler \cup {Reconciler} /\ Reconciler \in Pulls!Thread
    /\ IsFiniteSet(Pulls!Thread) /\ Cardinality(Pulls!Thread) \in Nat
    /\ Pulls!Cardinality(Pulls!Thread) = Cardinality(Pulls!Thread)
<1>1. Pulls!IsFiniteSet(Handler) => IsFiniteSet(Handler)
    BY DEF Pulls!IsFiniteSet, IsFiniteSet
<1>2. IsFiniteSet(Handler)
    BY <1>1, ServicesAssumption DEF Pulls!PullRequestsAssumption
<1>3. Pulls!Thread = Handler \cup {Reconciler}
    BY DEF Pulls!Thread
<1>4. IsFiniteSet(Pulls!Thread)
    BY <1>2, <1>3, FS_AddElement
<1>5. Cardinality(Pulls!Thread) \in Nat
    BY <1>4, FS_CardinalityType
<1>6. Pulls!Cardinality(Pulls!Thread) = Cardinality(Pulls!Thread)
    BY DEF Pulls!Cardinality, Cardinality
<1>7. QED
    BY <1>3, <1>4, <1>5, <1>6, ServicesAssumption DEF Pulls!PullRequestsAssumption

\* What a thread can be at, by the step it is at.
LEMMA ThreadRows ==
    ASSUME NEW s \in ThreadRow
    PROVE  /\ s.at \in {"idle", "ensure", "created", "read", "webhook", "review", "comments",
                        "followup", "assigned"}
           /\ s.at \in {"ensure", "created", "read", "comments", "followup", "assigned"}
                 => s.task \in Task
           /\ s.at \in {"created", "read", "review"} => s.state \in PullStatus
           /\ s.at \in {"webhook", "review"} => s.delivery \in DeliveryRow
           /\ s.at \in {"followup", "assigned"} => s.comment \in Comment
           /\ s.at \in {"comments", "followup", "assigned"} => s.left \subseteq Comment
<1>1. CASE s = Pulls!Free
    BY <1>1 DEF Pulls!Free
<1>2. CASE s # Pulls!Free
    BY <1>2 DEF ThreadRow
<1>3. QED
    BY <1>1, <1>2

\* A delivery has what its kind says.
LEMMA DeliveryRows ==
    ASSUME NEW d \in DeliveryRow
    PROVE  /\ d.number \in Pulls!Deliveries /\ d.task \in Task
           /\ d.kind = "pull" => d.state \in PullStatus
           /\ d.kind = "comment" => d.comment \in Comment
BY DEF DeliveryRow

\* There is no pull request yet, and every thread is free.
LEMMA PullInit ==
    ASSUME Pulls!Init
    PROVE  PullInv
<1>1. Pulls!Free \in ThreadRow /\ Known(Pulls!Free) /\ Pulls!Free.at = "idle"
    BY DEF ThreadRow, Known, Pulls!Free
<1>2. GithubTypes
    BY FS_EmptySet DEF Pulls!Init, GithubTypes, PullStatus
<1>3. SavedTypes
    BY DEF Pulls!Init, SavedTypes, PullStatus
<1>4. \A w \in Pulls!Thread : thread[w] = Pulls!Free
    BY DEF Pulls!Init
<1>5. ThreadTypes
    BY <1>1, <1>4 DEF Pulls!Init, ThreadTypes
<1>6. \A c \in Comment : Counted(c)
    <2>1. \A x \in {"followup", "assigned"}, c \in Comment : At(x, c) = {}
        BY <1>1, <1>4 DEF At
    <2>2. Allowance = 0
        BY PullConstants DEF Pulls!Init, Allowance
    <2>3. QED
        <3>1. ASSUME NEW c \in Comment
              PROVE  Counted(c)
            <4>1. c \notin linked /\ followups[c] = 0
                BY DEF Pulls!Init
            <4>2. Cardinality(At("assigned", c)) = 0
                BY <2>1, FS_EmptySet
            <4>3. QED
                BY <2>2, <4>1, <4>2 DEF Counted
        <3>2. QED
            BY <3>1
<1>7. QED
    BY <1>2, <1>3, <1>5, <1>6 DEF PullInv

\* Steps of the other parts change nothing here.
LEMMA PullStays ==
    ASSUME PullInv, UNCHANGED pullVars
    PROVE  PullInv'
<1>1. Posted' = Posted /\ Allowance' = Allowance
    BY DEF pullVars, Posted, Allowance
<1>2. GithubTypes' /\ SavedTypes'
    BY <1>1 DEF pullVars, PullInv, GithubTypes, SavedTypes
<1>3. ThreadTypes'
    BY <1>1 DEF pullVars, PullInv, ThreadTypes, Known
<1>4. \A c \in Comment : Counted(c)'
    BY <1>1 DEF pullVars, PullInv, Counted, At
<1>5. QED
    BY <1>2, <1>3, <1>4 DEF PullInv

\* Threads at a comment.
LEMMA AtCount ==
    ASSUME NEW x, NEW c
    PROVE  /\ IsFiniteSet(At(x, c)) /\ Cardinality(At(x, c)) \in Nat
           /\ Cardinality(At(x, c)) <= Cardinality(Pulls!Thread)
<1>1. At(x, c) \subseteq Pulls!Thread
    BY DEF At
<1>2. QED
    BY <1>1, PullConstants, FS_Subset, FS_CardinalityType

\* A thread is at one step: those that have still to create a follow-up and those
\* that have created one are no more than all threads.
LEMMA AtBoth ==
    ASSUME NEW c
    PROVE  Cardinality(At("followup", c)) + Cardinality(At("assigned", c))
              <= Cardinality(Pulls!Thread)
<1>1. PICK F, A : F = At("followup", c) /\ A = At("assigned", c)
    OBVIOUS
<1>2. F \cap A = {} /\ F \cup A \subseteq Pulls!Thread
    BY <1>1 DEF At
<1>3. IsFiniteSet(F) /\ IsFiniteSet(A) /\ Cardinality(F) \in Nat /\ Cardinality(A) \in Nat
    BY <1>1, AtCount
<1>4. Cardinality(F \cup A) = Cardinality(F) + Cardinality(A)
    BY <1>2, <1>3, FS_Union, FS_EmptySet
<1>5. Cardinality(F \cup A) <= Cardinality(Pulls!Thread)
    BY <1>2, PullConstants, FS_Subset
<1>6. QED
    BY <1>1, <1>4, <1>5

\* What one thread's step does to the threads at a comment.
LEMMA AtMoves ==
    ASSUME ThreadTypes, NEW w \in Pulls!Thread, NEW s, Pulls!Becomes(w, s), NEW x, NEW c
    PROVE  At(x, c)' = IF s.at = x /\ s.comment = c THEN At(x, c) \cup {w}
                       ELSE At(x, c) \ {w}
BY DEF ThreadTypes, Pulls!Becomes, At

\* What failures and restarts allow.
LEMMA Allowed ==
    ASSUME ThreadTypes
    PROVE  /\ Allowance \in Nat
           /\ UNCHANGED <<failures, restarts>> => Allowance' = Allowance
           /\ \/ failures' = failures + 1 /\ UNCHANGED restarts
              \/ restarts' = restarts + 1 /\ UNCHANGED failures
              => Allowance' = Allowance + Cardinality(Pulls!Thread)
<1>1. PICK n, k : n = Cardinality(Pulls!Thread) /\ k = failures + restarts
    OBVIOUS
<1>2. n \in Nat /\ k \in Nat /\ n * k \in Nat /\ n * (k + 1) = n * k + n
    BY <1>1, PullConstants DEF ThreadTypes
<1>3. \/ failures' = failures + 1 /\ UNCHANGED restarts
      \/ restarts' = restarts + 1 /\ UNCHANGED failures
      => failures' + restarts' = k + 1
    BY <1>1 DEF ThreadTypes
<1>4. Allowance = n * k
    BY <1>1 DEF Allowance
<1>5. failures' + restarts' = k + 1 => Allowance' = n * k + n
    BY <1>1, <1>2 DEF Allowance
<1>6. QED
    BY <1>1, <1>2, <1>3, <1>4, <1>5 DEF Allowance

\* The step of a thread that leaves the follow-ups and their links alone: it is at no
\* comment, and comes to one only when that has no assignment.
LEMMA CountedQuiet ==
    ASSUME PullInv, NEW w \in Pulls!Thread, NEW s, Pulls!Becomes(w, s),
           UNCHANGED <<followups, linked, restarts>>,
           failures' = failures \/ failures' = failures + 1,
           thread[w].at \notin {"followup", "assigned"}, s.at # "assigned",
           s.at = "followup" => s.comment \notin linked,
           NEW c \in Comment
    PROVE  Counted(c)'
<1>1. /\ Allowance \in Nat /\ Allowance' \in Nat /\ Allowance <= Allowance'
      /\ Cardinality(Pulls!Thread) \in Nat /\ followups[c] \in Nat
    BY Allowed, PullConstants DEF PullInv, ThreadTypes, SavedTypes
<1>2. At("assigned", c)' = At("assigned", c)
    <2>1. w \notin At("assigned", c)
        BY DEF At
    <2>2. At("assigned", c)' = At("assigned", c) \ {w}
        BY AtMoves DEF PullInv
    <2>3. QED
        BY <2>1, <2>2
<1>3. c \in linked => At("followup", c)' = At("followup", c)
    <2>1. w \notin At("followup", c)
        BY DEF At
    <2>2. c \in linked => At("followup", c)' = At("followup", c) \ {w}
        BY AtMoves DEF PullInv
    <2>3. QED
        BY <2>1, <2>2
<1>4. Counted(c)
    BY DEF PullInv
<1>5. CASE c \in linked
    <2>1. followups[c] + Cardinality(At("followup", c))
             <= Allowance + Cardinality(Pulls!Thread)
        BY <1>4, <1>5 DEF Counted
    <2>2. followups[c] + Cardinality(At("followup", c))
             <= Allowance' + Cardinality(Pulls!Thread)
        BY <1>1, <2>1, AtCount
    <2>3. QED
        BY <1>3, <1>5, <2>2 DEF Counted
<1>6. CASE c \notin linked
    <2>1. followups[c] <= Allowance + Cardinality(At("assigned", c))
        BY <1>4, <1>6 DEF Counted
    <2>2. followups[c] <= Allowance' + Cardinality(At("assigned", c))
        BY <1>1, <2>1, AtCount
    <2>3. QED
        BY <1>2, <1>6, <2>2 DEF Counted
<1>7. QED
    BY <1>5, <1>6
\* What GitHub does leaves what was saved and what the threads know as it is: a pull
\* request and a comment that are there stay.
LEMMA GithubKeeps ==
    ASSUME PullInv, UNCHANGED <<delivery, record, linked, followups, thread, failures,
                                restarts>>,
           \A t \in Task : pull[t] # "none" => pull'[t] # "none",
           Posted \subseteq Posted', GithubTypes'
    PROVE  PullInv'
<1>1. SavedTypes'
    BY DEF PullInv, SavedTypes
<1>2. ThreadTypes'
    <2>1. ASSUME NEW w \in Pulls!Thread
          PROVE  Known(thread[w])'
        <3>1. thread[w] \in ThreadRow /\ Known(thread[w]) /\ thread'[w] = thread[w]
            BY DEF PullInv, ThreadTypes
        <3>2. /\ thread[w].at \in {"created", "read"} => thread[w].task \in Task
              /\ thread[w].at = "review" => thread[w].delivery.task \in Task
            BY <3>1, ThreadRows, DeliveryRows
        <3>3. QED
            BY <3>1, <3>2 DEF Known
    <2>2. QED
        BY <2>1 DEF PullInv, ThreadTypes
<1>3. Allowance' = Allowance
    BY DEF Allowance
<1>4. \A c \in Comment : Counted(c)'
    BY <1>3 DEF PullInv, Counted, At
<1>5. QED
    BY <1>1, <1>2, <1>4 DEF PullInv

\* A delivery that GitHub makes has the next number.
LEMMA Delivers ==
    ASSUME GithubTypes, NEW d, Pulls!Deliver(d)
    PROVE  /\ sent' = sent \cup {d} /\ IsFiniteSet(sent')
           /\ Pulls!Number \in Pulls!Deliveries
<1>1. Pulls!Cardinality(sent) = Cardinality(sent)
    BY DEF Pulls!Cardinality, Cardinality
<1>2. Cardinality(sent) \in Nat /\ IsFiniteSet(sent \cup {d})
    BY FS_CardinalityType, FS_AddElement DEF GithubTypes
<1>3. QED
    BY <1>1, <1>2, PullConstants DEF Pulls!Deliver, Pulls!Number, Pulls!Deliveries

\* A user closes, reopens or merges.
LEMMA ChangeKeeps ==
    ASSUME PullInv, NEW t \in Task, NEW st \in {"open", "closed", "merged"},
           Pulls!Change(t, st)
    PROVE  PullInv'
<1>1. PICK d : d = [number |-> Pulls!Number, kind |-> "pull", task |-> t, state |-> st]
    OBVIOUS
<1>2. /\ pull[t] # "none" /\ pull' = [pull EXCEPT ![t] = st] /\ Pulls!Deliver(d)
      /\ UNCHANGED <<posted, delivery, record, linked, followups, thread, failures,
                     restarts>>
    BY <1>1 DEF Pulls!Change, Pulls!faults
<1>3. sent' = sent \cup {d} /\ IsFiniteSet(sent') /\ Pulls!Number \in Pulls!Deliveries
    BY <1>2, Delivers DEF PullInv
<1>4. d \in DeliveryRow /\ d.kind # "comment"
    BY <1>1, <1>3 DEF DeliveryRow, PullStatus
<1>5. Posted' = Posted
    BY <1>2 DEF Posted
<1>6. GithubTypes'
    BY <1>2, <1>3, <1>4, <1>5 DEF PullInv, GithubTypes, PullStatus
<1>7. \A u \in Task : pull[u] # "none" => pull'[u] # "none"
    BY <1>2 DEF PullInv, GithubTypes
<1>8. QED
    BY <1>2, <1>5, <1>6, <1>7, GithubKeeps

\* A comment is posted.
LEMMA PostKeeps ==
    ASSUME PullInv, NEW c \in Comment, NEW t \in Task, Pulls!Post(c, t)
    PROVE  PullInv'
<1>1. PICK d : d = [number |-> Pulls!Number, kind |-> "comment", task |-> t, comment |-> c]
    OBVIOUS
<1>2. /\ posted' = [posted EXCEPT ![c] = t] /\ Pulls!Deliver(d)
      /\ UNCHANGED <<pull, delivery, record, linked, followups, thread, failures, restarts>>
    BY <1>1 DEF Pulls!Post, Pulls!faults
<1>3. sent' = sent \cup {d} /\ IsFiniteSet(sent') /\ Pulls!Number \in Pulls!Deliveries
    BY <1>2, Delivers DEF PullInv
<1>4. d \in DeliveryRow /\ d.comment = c
    BY <1>1, <1>3 DEF DeliveryRow
<1>5. c \in Posted' /\ Posted \subseteq Posted'
    BY <1>2, PullConstants DEF Posted, PullInv, GithubTypes
<1>6. GithubTypes'
    BY <1>2, <1>3, <1>4, <1>5 DEF PullInv, GithubTypes
<1>7. QED
    BY <1>2, <1>5, <1>6, GithubKeeps

\* A review is delivered.
LEMMA ReviewIsDelivered ==
    ASSUME PullInv, NEW t \in Task, Pulls!Review(t)
    PROVE  PullInv'
<1>1. PICK d : d = [number |-> Pulls!Number, kind |-> "review", task |-> t]
    OBVIOUS
<1>2. /\ Pulls!Deliver(d)
      /\ UNCHANGED <<pull, posted, delivery, record, linked, followups, thread, failures,
                     restarts>>
    BY <1>1 DEF Pulls!Review, Pulls!faults
<1>3. sent' = sent \cup {d} /\ IsFiniteSet(sent') /\ Pulls!Number \in Pulls!Deliveries
    BY <1>2, Delivers DEF PullInv
<1>4. d \in DeliveryRow /\ d.kind # "comment"
    BY <1>1, <1>3 DEF DeliveryRow
<1>5. Posted' = Posted
    BY <1>2 DEF Posted
<1>6. GithubTypes'
    BY <1>2, <1>3, <1>4, <1>5 DEF PullInv, GithubTypes
<1>7. QED
    BY <1>2, <1>5, <1>6, GithubKeeps

\* A comment that was posted is delivered again.
LEMMA EditKeeps ==
    ASSUME PullInv, NEW c \in Comment, Pulls!Edit(c)
    PROVE  PullInv'
<1>1. PICK d : d = [number |-> Pulls!Number, kind |-> "comment", task |-> posted[c],
                    comment |-> c]
    OBVIOUS
<1>2. /\ posted[c] # NoTask /\ Pulls!Deliver(d)
      /\ UNCHANGED <<pull, posted, delivery, record, linked, followups, thread, failures,
                     restarts>>
    BY <1>1 DEF Pulls!Edit, Pulls!faults
<1>3. sent' = sent \cup {d} /\ IsFiniteSet(sent') /\ Pulls!Number \in Pulls!Deliveries
    BY <1>2, Delivers DEF PullInv
<1>4. d \in DeliveryRow /\ d.comment = c
    BY <1>1, <1>2, <1>3 DEF DeliveryRow, PullInv, GithubTypes
<1>5. c \in Posted /\ Posted' = Posted
    BY <1>2 DEF Posted
<1>6. GithubTypes'
    BY <1>2, <1>3, <1>4, <1>5 DEF PullInv, GithubTypes
<1>7. QED
    BY <1>2, <1>5, <1>6, GithubKeeps

\* A thread goes to step s; what it knows there is so, and the others know what they
\* knew.
LEMMA ThreadMoves ==
    ASSUME PullInv, NEW w \in Pulls!Thread, NEW s \in ThreadRow, Pulls!Becomes(w, s),
           Known(s)', \A t \in Task : pull[t] # "none" => pull'[t] # "none",
           UNCHANGED <<posted, restarts>>, failures' = failures \/ failures' = failures + 1
    PROVE  ThreadTypes' /\ Posted' = Posted
<1>1. Posted' = Posted
    BY DEF Posted
<1>2. thread' \in [Pulls!Thread -> ThreadRow]
    BY DEF PullInv, ThreadTypes, Pulls!Becomes
<1>3. ASSUME NEW v \in Pulls!Thread
      PROVE  Known(thread[v])'
    <2>1. CASE v = w
        <3>1. thread'[v] = s
            BY <2>1 DEF PullInv, ThreadTypes, Pulls!Becomes
        <3>2. QED
            BY <3>1 DEF Known
    <2>2. CASE v # w
        <3>1. thread'[v] = thread[v] /\ thread[v] \in ThreadRow /\ Known(thread[v])
            BY <2>2 DEF PullInv, ThreadTypes, Pulls!Becomes
        <3>2. /\ thread[v].at \in {"created", "read"} => thread[v].task \in Task
              /\ thread[v].at = "review" => thread[v].delivery.task \in Task
            BY <3>1, ThreadRows, DeliveryRows
        <3>3. QED
            BY <1>1, <3>1, <3>2 DEF Known
    <2>3. QED
        BY <2>1, <2>2
<1>4. QED
    BY <1>1, <1>2, <1>3 DEF PullInv, ThreadTypes

\* A thread that is at no comment goes on.
LEMMA QuietKeeps ==
    ASSUME PullInv, NEW w \in Pulls!Thread, NEW s \in ThreadRow, Pulls!Becomes(w, s),
           Known(s)', \A t \in Task : pull[t] # "none" => pull'[t] # "none",
           GithubTypes', SavedTypes', UNCHANGED <<posted, followups, linked, restarts>>,
           failures' = failures \/ failures' = failures + 1,
           thread[w].at \notin {"followup", "assigned"}, s.at # "assigned",
           s.at = "followup" => s.comment \notin linked
    PROVE  PullInv'
BY ThreadMoves, CountedQuiet DEF PullInv

\* What a thread that becomes free needs.
LEMMA FreeRow ==
    /\ Pulls!Free \in ThreadRow /\ Known(Pulls!Free) /\ Known(Pulls!Free)'
    /\ Pulls!Free.at = "idle"
BY DEF ThreadRow, Known, Pulls!Free
\* The pull request is found or created before its record is saved.
LEMMA EnsureKeeps ==
    ASSUME PullInv, NEW w \in Handler,
           \/ \E t \in Task : Pulls!EnsureStart(w, t)
           \/ Pulls!EnsurePull(w) \/ Pulls!EnsureSave(w) \/ Pulls!EnsureFail(w)
    PROVE  PullInv'
<1>0. /\ w \in Pulls!Thread /\ thread[w] \in ThreadRow /\ Known(thread[w])
      /\ pull \in [Task -> PullStatus] /\ GithubTypes /\ SavedTypes
    BY PullConstants DEF PullInv, ThreadTypes, GithubTypes
<1>1. ASSUME NEW t \in Task, Pulls!EnsureStart(w, t)
      PROVE  PullInv'
    <2>1. PICK s : s = [at |-> "ensure", task |-> t]
        OBVIOUS
    <2>2. s \in ThreadRow /\ s.at = "ensure"
        BY <2>1 DEF ThreadRow
    <2>3. /\ thread[w].at = "idle" /\ Pulls!Becomes(w, s)
          /\ UNCHANGED <<pull, posted, sent, delivery, record, linked, followups, failures,
                         restarts>>
        BY <1>1, <2>1 DEF Pulls!EnsureStart, Pulls!Free, Pulls!github, Pulls!saved,
                          Pulls!faults
    <2>4. GithubTypes' /\ SavedTypes' /\ Known(s)'
        BY <1>0, <2>2, <2>3 DEF GithubTypes, SavedTypes, Known, Posted
    <2>5. QED
        BY <1>0, <2>2, <2>3, <2>4, QuietKeeps
<1>2. CASE Pulls!EnsurePull(w)
    <2>1. PICK t, st, s : /\ t = thread[w].task
                          /\ st = IF pull[t] = "merged" THEN "closed" ELSE "open"
                          /\ s = [at |-> "created", task |-> t, state |-> st]
        OBVIOUS
    <2>2. /\ thread[w].at = "ensure" /\ Pulls!Becomes(w, s)
          /\ pull' = [pull EXCEPT ![t] = IF pull[t] = "merged" THEN pull[t] ELSE "open"]
          /\ UNCHANGED <<posted, sent, delivery, record, linked, followups, failures,
                         restarts>>
        BY <1>2, <2>1 DEF Pulls!EnsurePull, Pulls!saved, Pulls!faults
    <2>3. t \in Task
        BY <1>0, <2>1, <2>2, ThreadRows
    <2>4. st \in {"open", "closed"} /\ s \in ThreadRow /\ s.at = "created" /\ s.task = t
        BY <1>0, <2>1, <2>2, <2>3 DEF ThreadRow, PullStatus
    <2>5. /\ \A u \in Task : pull[u] # "none" => pull'[u] # "none"
          /\ pull' \in [Task -> PullStatus]
        BY <1>0, <2>2 DEF PullStatus
    <2>6. GithubTypes' /\ SavedTypes' /\ Known(s)'
        BY <1>0, <2>1, <2>2, <2>4, <2>5 DEF GithubTypes, SavedTypes, Known, Posted
    <2>7. QED
        BY <1>0, <2>2, <2>4, <2>5, <2>6, QuietKeeps
<1>3. CASE Pulls!EnsureSave(w)
    <2>1. PICK t, st : t = thread[w].task /\ st = thread[w].state
        OBVIOUS
    <2>2. /\ thread[w].at = "created" /\ Pulls!Becomes(w, Pulls!Free)
          /\ record' = [record EXCEPT ![t] = st]
          /\ UNCHANGED <<pull, posted, sent, delivery, linked, followups, failures,
                         restarts>>
        BY <1>3, <2>1 DEF Pulls!EnsureSave, Pulls!github, Pulls!faults
    <2>3. t \in Task /\ st \in PullStatus /\ pull[t] # "none"
        BY <1>0, <2>1, <2>2, ThreadRows DEF Known
    <2>4. GithubTypes' /\ SavedTypes'
        BY <1>0, <2>2, <2>3 DEF GithubTypes, SavedTypes, Posted
    <2>5. QED
        BY <1>0, <2>2, <2>4, FreeRow, QuietKeeps
<1>4. CASE Pulls!EnsureFail(w)
    <2>1. /\ thread[w].at \in {"ensure", "created"} /\ Pulls!Becomes(w, Pulls!Free)
          /\ failures' = failures + 1
          /\ UNCHANGED <<pull, posted, sent, delivery, record, linked, followups, restarts>>
        BY <1>4 DEF Pulls!EnsureFail, Pulls!github, Pulls!saved
    <2>2. GithubTypes' /\ SavedTypes'
        BY <1>0, <2>1 DEF GithubTypes, SavedTypes, Posted
    <2>3. QED
        BY <1>0, <2>1, <2>2, FreeRow, QuietKeeps
<1>5. QED
    BY <1>1, <1>2, <1>3, <1>4

\* A webhook replaces the status of a record that is there, or comes to a comment.
LEMMA WebhookKeeps ==
    ASSUME PullInv, NEW w \in Handler,
           \/ \E d \in sent : Pulls!Receive(w, d)
           \/ Pulls!SyncPull(w) \/ Pulls!SyncComment(w) \/ Pulls!WebhookFail(w)
           \/ Pulls!ReviewRead(w) \/ Pulls!ReviewSave(w)
    PROVE  PullInv'
<1>0. /\ w \in Pulls!Thread /\ thread[w] \in ThreadRow /\ Known(thread[w])
      /\ GithubTypes /\ SavedTypes
    BY PullConstants DEF PullInv, ThreadTypes
<1>1. ASSUME NEW d \in sent, Pulls!Receive(w, d)
      PROVE  PullInv'
    <2>1. PICK s : s = [at |-> "webhook", delivery |-> d]
        OBVIOUS
    <2>2. s \in ThreadRow /\ s.at = "webhook" /\ s.delivery = d
        BY <1>0, <2>1 DEF ThreadRow, GithubTypes
    <2>3. /\ thread[w].at = "idle" /\ Pulls!Becomes(w, s)
          /\ delivery' = [delivery EXCEPT ![d.number] = "processing"]
          /\ UNCHANGED <<pull, posted, sent, record, linked, followups, failures, restarts>>
        BY <1>1, <2>1 DEF Pulls!Receive, Pulls!Free, Pulls!github, Pulls!faults
    <2>4. GithubTypes' /\ SavedTypes' /\ Known(s)'
        BY <1>0, <2>2, <2>3 DEF GithubTypes, SavedTypes, Known, Posted
    <2>5. QED
        BY <1>0, <2>2, <2>3, <2>4, QuietKeeps
<1>2. CASE Pulls!SyncPull(w)
    <2>1. PICK d : d = thread[w].delivery
        OBVIOUS
    <2>2. /\ thread[w].at = "webhook" /\ d.kind = "pull" /\ Pulls!Becomes(w, Pulls!Free)
          /\ record' = [record EXCEPT ![d.task] =
                           IF record[d.task] = "none" THEN record[d.task] ELSE d.state]
          /\ delivery' = [delivery EXCEPT ![d.number] = "processed"]
          /\ UNCHANGED <<pull, posted, sent, linked, followups, failures, restarts>>
        BY <1>2, <2>1 DEF Pulls!SyncPull, Pulls!Marked, Pulls!github, Pulls!faults
    <2>3. d.state \in PullStatus /\ d.task \in Task
        BY <1>0, <2>1, <2>2, ThreadRows, DeliveryRows
    <2>4. GithubTypes' /\ SavedTypes'
        BY <1>0, <2>2, <2>3 DEF GithubTypes, SavedTypes, Posted
    <2>5. QED
        BY <1>0, <2>2, <2>4, FreeRow, QuietKeeps
<1>3. CASE Pulls!SyncComment(w)
    <2>1. PICK d : d = thread[w].delivery
        OBVIOUS
    <2>2. /\ thread[w].at = "webhook" /\ d.kind = "comment"
          /\ UNCHANGED <<pull, posted, sent, record, linked, followups, failures, restarts>>
        BY <1>3, <2>1 DEF Pulls!SyncComment, Pulls!github, Pulls!faults
    <2>3. d \in DeliveryRow /\ d.comment \in Comment /\ d.task \in Task /\ d.comment \in Posted
        BY <1>0, <2>1, <2>2, ThreadRows, DeliveryRows DEF Known
    <2>4. CASE record[d.task] = "none" \/ d.comment \in linked
        <3>1. /\ delivery' = [delivery EXCEPT ![d.number] = "processed"]
              /\ Pulls!Becomes(w, Pulls!Free)
            BY <1>3, <2>1, <2>4 DEF Pulls!SyncComment, Pulls!Marked
        <3>2. GithubTypes' /\ SavedTypes'
            BY <1>0, <2>2, <3>1 DEF GithubTypes, SavedTypes, Posted
        <3>3. QED
            BY <1>0, <2>2, <3>1, <3>2, FreeRow, QuietKeeps
    <2>5. CASE ~(record[d.task] = "none" \/ d.comment \in linked)
        <3>1. PICK s : s = [at |-> "followup", delivery |-> d, comment |-> d.comment,
                            task |-> d.task, left |-> {}]
            OBVIOUS
        <3>2. Pulls!Becomes(w, s) /\ UNCHANGED delivery
            BY <1>3, <2>1, <2>5, <3>1 DEF Pulls!SyncComment
        <3>3. s \in ThreadRow /\ s.at = "followup" /\ s.comment = d.comment /\ s.left = {}
            BY <2>3, <3>1 DEF ThreadRow
        <3>4. GithubTypes' /\ SavedTypes'
            BY <1>0, <2>2, <3>2 DEF GithubTypes, SavedTypes, Posted
        <3>5. Known(s)'
            BY <2>2, <2>3, <3>3 DEF Known, Posted
        <3>6. QED
            BY <1>0, <2>2, <2>5, <3>2, <3>3, <3>4, <3>5, QuietKeeps
    <2>6. QED
        BY <2>4, <2>5
<1>4. CASE Pulls!WebhookFail(w)
    <2>1. PICK n : n = thread[w].delivery.number
        OBVIOUS
    <2>2. /\ thread[w].at \in {"webhook", "review"} /\ Pulls!Becomes(w, Pulls!Free)
          /\ failures' = failures + 1 /\ delivery' = [delivery EXCEPT ![n] = "failed"]
          /\ UNCHANGED <<pull, posted, sent, record, linked, followups, restarts>>
        BY <1>4, <2>1 DEF Pulls!WebhookFail, Pulls!Marked, Pulls!github
    <2>3. GithubTypes' /\ SavedTypes'
        BY <1>0, <2>2 DEF GithubTypes, SavedTypes, Posted
    <2>4. QED
        BY <1>0, <2>2, <2>3, FreeRow, QuietKeeps
<1>5. CASE Pulls!ReviewRead(w)
    <2>1. PICK d, st : d = thread[w].delivery /\ st = record[d.task]
        OBVIOUS
    <2>2. /\ thread[w].at = "webhook"
          /\ UNCHANGED <<pull, posted, sent, record, linked, followups, failures, restarts>>
        BY <1>5 DEF Pulls!ReviewRead, Pulls!github, Pulls!faults
    <2>3. d \in DeliveryRow /\ d.task \in Task
        BY <1>0, <2>1, <2>2, ThreadRows, DeliveryRows
    <2>4. CASE st = "none"
        <3>1. /\ delivery' = [delivery EXCEPT ![d.number] = "processed"]
              /\ Pulls!Becomes(w, Pulls!Free)
            BY <1>5, <2>1, <2>4 DEF Pulls!ReviewRead, Pulls!Marked
        <3>2. GithubTypes' /\ SavedTypes'
            BY <1>0, <2>2, <3>1 DEF GithubTypes, SavedTypes, Posted
        <3>3. QED
            BY <1>0, <2>2, <3>1, <3>2, FreeRow, QuietKeeps
    <2>5. CASE st # "none"
        <3>1. PICK s : s = [at |-> "review", delivery |-> d, state |-> st]
            OBVIOUS
        <3>2. Pulls!Becomes(w, s) /\ UNCHANGED delivery
            BY <1>5, <2>1, <2>5, <3>1 DEF Pulls!ReviewRead
        <3>3. st \in PullStatus /\ pull[d.task] # "none"
            BY <1>0, <2>1, <2>3, <2>5 DEF SavedTypes
        <3>4. s \in ThreadRow /\ s.at = "review" /\ s.delivery = d
            BY <2>3, <3>1, <3>3 DEF ThreadRow
        <3>5. GithubTypes' /\ SavedTypes' /\ Known(s)'
            BY <1>0, <2>2, <3>2, <3>3, <3>4 DEF GithubTypes, SavedTypes, Posted, Known
        <3>6. QED
            BY <1>0, <2>2, <3>2, <3>4, <3>5, QuietKeeps
    <2>6. QED
        BY <2>4, <2>5
<1>6. CASE Pulls!ReviewSave(w)
    <2>1. PICK d, t, st : d = thread[w].delivery /\ t = d.task /\ st = thread[w].state
        OBVIOUS
    <2>2. /\ thread[w].at = "review" /\ Pulls!Becomes(w, Pulls!Free)
          /\ record' = [record EXCEPT ![t] = st]
          /\ delivery' = [delivery EXCEPT ![d.number] = "processed"]
          /\ UNCHANGED <<pull, posted, sent, linked, followups, failures, restarts>>
        BY <1>6, <2>1 DEF Pulls!ReviewSave, Pulls!Marked, Pulls!github, Pulls!faults
    <2>3. t \in Task /\ st \in PullStatus /\ pull[t] # "none"
        BY <1>0, <2>1, <2>2, ThreadRows, DeliveryRows DEF Known
    <2>4. GithubTypes' /\ SavedTypes'
        BY <1>0, <2>2, <2>3 DEF GithubTypes, SavedTypes, Posted
    <2>5. QED
        BY <1>0, <2>2, <2>4, FreeRow, QuietKeeps
<1>7. QED
    BY <1>1, <1>2, <1>3, <1>4, <1>5, <1>6

\* The reconcile thread, up to a comment that has no assignment.
LEMMA ReconcileKeeps ==
    ASSUME PullInv,
           \/ \E t \in Task : Pulls!ReconcileRead(t)
           \/ Pulls!ReconcileUpdate \/ Pulls!ReconcileComment \/ Pulls!ReconcileFail
    PROVE  PullInv'
<1>0. PICK w, s0 : w = Reconciler /\ s0 = thread[w]
    OBVIOUS
<1>1. /\ w \in Pulls!Thread /\ s0 \in ThreadRow /\ Known(s0)
      /\ GithubTypes /\ SavedTypes
    BY <1>0, PullConstants DEF PullInv, ThreadTypes
<1>2. ASSUME NEW t \in Task, Pulls!ReconcileRead(t)
      PROVE  PullInv'
    <2>1. PICK s : s = [at |-> "read", task |-> t, state |-> pull[t]]
        OBVIOUS
    <2>2. /\ s0.at = "idle" /\ record[t] = "open" /\ Pulls!Becomes(w, s)
          /\ UNCHANGED <<pull, posted, sent, delivery, record, linked, followups, failures,
                         restarts>>
        BY <1>0, <1>2, <2>1 DEF Pulls!ReconcileRead, Pulls!Free, Pulls!github, Pulls!saved,
                                Pulls!faults
    <2>3. pull[t] # "none" /\ pull[t] \in PullStatus
        BY <1>1, <2>2 DEF SavedTypes, GithubTypes
    <2>4. s \in ThreadRow /\ s.at = "read" /\ s.task = t
        BY <2>1, <2>3 DEF ThreadRow
    <2>5. GithubTypes' /\ SavedTypes' /\ Known(s)'
        BY <1>1, <2>2, <2>3, <2>4 DEF GithubTypes, SavedTypes, Posted, Known
    <2>6. QED
        BY <1>0, <1>1, <2>2, <2>4, <2>5, QuietKeeps
<1>3. CASE Pulls!ReconcileUpdate
    <2>1. PICK t, st, s :
             /\ t = s0.task /\ st = s0.state
             /\ s = [at |-> "comments", task |-> t, left |-> Pulls!OnTask(t)]
        OBVIOUS
    <2>2. /\ s0.at = "read" /\ Pulls!Becomes(w, s) /\ record' = [record EXCEPT ![t] = st]
          /\ UNCHANGED <<pull, posted, sent, delivery, linked, followups, failures, restarts>>
        BY <1>0, <1>3, <2>1 DEF Pulls!ReconcileUpdate, Pulls!github, Pulls!faults
    <2>3. t \in Task /\ st \in PullStatus /\ pull[t] # "none"
        BY <1>1, <2>1, <2>2, ThreadRows DEF Known
    <2>4. Pulls!OnTask(t) \subseteq Posted
        BY <2>3, PullConstants DEF Pulls!OnTask, Posted
    <2>5. s \in ThreadRow /\ s.at = "comments" /\ s.left \subseteq Posted
        BY <2>1, <2>3, <2>4 DEF ThreadRow, Posted
    <2>6. GithubTypes' /\ SavedTypes' /\ Known(s)'
        BY <1>1, <2>2, <2>3, <2>5 DEF GithubTypes, SavedTypes, Posted, Known
    <2>7. QED
        BY <1>0, <1>1, <2>2, <2>5, <2>6, QuietKeeps
<1>4. CASE Pulls!ReconcileComment
    <2>1. /\ s0.at = "comments"
          /\ UNCHANGED <<pull, posted, sent, delivery, record, linked, followups, failures,
                         restarts>>
        BY <1>0, <1>4 DEF Pulls!ReconcileComment, Pulls!github, Pulls!saved, Pulls!faults
    <2>2. GithubTypes' /\ SavedTypes' /\ Posted' = Posted
        BY <1>1, <2>1 DEF GithubTypes, SavedTypes, Posted
    <2>3. s0.task \in Task /\ s0.left \subseteq Posted
        BY <1>1, <2>1, ThreadRows DEF Known
    <2>4. CASE s0.left = {}
        <3>1. Pulls!Becomes(w, Pulls!Free)
            BY <1>0, <1>4, <2>4 DEF Pulls!ReconcileComment
        <3>2. QED
            BY <1>0, <1>1, <2>1, <2>2, <3>1, FreeRow, QuietKeeps
    <2>5. CASE s0.left # {}
        <3>1. PICK c \in s0.left :
                 Pulls!Becomes(w,
                    IF c \in linked THEN [s0 EXCEPT !.left = s0.left \ {c}]
                    ELSE [at |-> "followup", comment |-> c, task |-> s0.task,
                          left |-> s0.left \ {c}])
            BY <1>0, <1>4, <2>5 DEF Pulls!ReconcileComment
        <3>2. PICK s : s = IF c \in linked
                           THEN [at |-> "comments", task |-> s0.task, left |-> s0.left \ {c}]
                           ELSE [at |-> "followup", comment |-> c, task |-> s0.task,
                                 left |-> s0.left \ {c}]
            OBVIOUS
        <3>3. [s0 EXCEPT !.left = s0.left \ {c}] =
                 [at |-> "comments", task |-> s0.task, left |-> s0.left \ {c}]
            <4>1. s0 \in [at : {"comments"}, task : Task, left : SUBSET Comment]
                BY <1>1, <2>1 DEF ThreadRow, Pulls!Free
            <4>2. QED
                BY <4>1
        <3>4. Pulls!Becomes(w, s)
            BY <3>1, <3>2, <3>3
        <3>5. c \in Posted /\ c \in Comment
            BY <2>3, <3>1 DEF Posted
        <3>6. s \in ThreadRow
            BY <2>3, <3>2, <3>5 DEF ThreadRow, Posted
        <3>7. /\ s.at \in {"comments", "followup"} /\ s.left \subseteq Posted
              /\ s.at = "followup" => s.comment = c /\ c \notin linked
            BY <2>3, <3>2
        <3>8. Known(s)'
            BY <2>2, <3>5, <3>7 DEF Known
        <3>9. QED
            BY <1>0, <1>1, <2>1, <2>2, <3>4, <3>6, <3>7, <3>8, QuietKeeps
    <2>6. QED
        BY <2>4, <2>5
<1>5. CASE Pulls!ReconcileFail
    <2>1. /\ s0.at \in {"read", "comments"} /\ Pulls!Becomes(w, Pulls!Free)
          /\ failures' = failures + 1
          /\ UNCHANGED <<pull, posted, sent, delivery, record, linked, followups, restarts>>
        BY <1>0, <1>5 DEF Pulls!ReconcileFail, Pulls!github, Pulls!saved
    <2>2. GithubTypes' /\ SavedTypes'
        BY <1>1, <2>1 DEF GithubTypes, SavedTypes, Posted
    <2>3. QED
        BY <1>0, <1>1, <2>1, <2>2, FreeRow, QuietKeeps
<1>6. QED
    BY <1>2, <1>3, <1>4, <1>5
\* A thread that is at a comment has its row.
LEMMA FollowRow ==
    ASSUME PullInv, NEW w \in Pulls!Thread, thread[w].at \in {"followup", "assigned"}
    PROVE  /\ [thread[w] EXCEPT !.at = "assigned"] \in ThreadRow
           /\ [thread[w] EXCEPT !.at = "assigned"].at = "assigned"
           /\ [thread[w] EXCEPT !.at = "assigned"].comment = thread[w].comment
           /\ [thread[w] EXCEPT !.at = "assigned"].left = thread[w].left
<1>1. PICK s : s = thread[w]
    OBVIOUS
<1>2. \/ s \in [at : {"followup", "assigned"}, comment : Comment, task : Task,
                left : SUBSET Comment]
      \/ s \in [at : {"followup", "assigned"}, delivery : DeliveryRow, comment : Comment,
                task : Task, left : SUBSET Comment]
    BY <1>1 DEF PullInv, ThreadTypes, ThreadRow, Pulls!Free
<1>3. PICK x : x = [s EXCEPT !.at = "assigned"]
    OBVIOUS
<1>4. x \in ThreadRow
    BY <1>2, <1>3 DEF ThreadRow
<1>5. x.at = "assigned" /\ x.comment = s.comment /\ x.left = s.left
    BY <1>2, <1>3
<1>6. QED
    BY <1>1, <1>3, <1>4, <1>5

\* When a comment is done, a handler is free, and the reconcile thread goes on.
LEMMA AfterMoves ==
    ASSUME PullInv, NEW w \in Pulls!Thread, thread[w].at \in {"followup", "assigned"},
           Pulls!AfterComment(w), UNCHANGED posted
    PROVE  /\ \E s \in ThreadRow : /\ Pulls!Becomes(w, s) /\ Known(s)'
                                   /\ s.at \in {"idle", "comments"}
           /\ delivery' \in [Pulls!Deliveries ->
                                {"unseen", "processing", "processed", "failed"}]
<1>1. /\ thread[w] \in ThreadRow /\ Known(thread[w]) /\ Posted' = Posted
      /\ delivery \in [Pulls!Deliveries -> {"unseen", "processing", "processed", "failed"}]
    BY DEF PullInv, ThreadTypes, SavedTypes, Posted
<1>2. CASE w = Reconciler
    <2>1. PICK s : s = [at |-> "comments", task |-> thread[w].task, left |-> thread[w].left]
        OBVIOUS
    <2>2. thread[w].task \in Task /\ thread[w].left \subseteq Posted
        BY <1>1, ThreadRows DEF Known
    <2>3. s \in ThreadRow /\ s.at = "comments" /\ s.left \subseteq Posted
        BY <2>1, <2>2 DEF ThreadRow, Posted
    <2>4. Known(s)'
        BY <1>1, <2>3 DEF Known
    <2>5. Pulls!Becomes(w, s) /\ UNCHANGED delivery
        BY <1>2, <2>1 DEF Pulls!AfterComment
    <2>6. QED
        BY <1>1, <2>3, <2>4, <2>5
<1>3. CASE w # Reconciler
    <2>1. PICK n : n = thread[w].delivery.number
        OBVIOUS
    <2>2. /\ Pulls!Becomes(w, Pulls!Free)
          /\ delivery' = [delivery EXCEPT ![n] = "processed"]
        BY <1>3, <2>1 DEF Pulls!AfterComment, Pulls!Marked
    <2>3. delivery' \in [Pulls!Deliveries -> {"unseen", "processing", "processed", "failed"}]
        BY <1>1, <2>2
    <2>4. QED
        BY <2>2, <2>3, FreeRow
<1>4. QED
    BY <1>2, <1>3

\* The count of a comment that the step is not about.
LEMMA CountedElsewhere ==
    ASSUME PullInv, NEW w \in Pulls!Thread, NEW s, Pulls!Becomes(w, s),
           UNCHANGED restarts, failures' = failures \/ failures' = failures + 1,
           NEW c \in Comment, followups'[c] = followups[c], c \in linked' <=> c \in linked,
           \A x \in {"followup", "assigned"} : At(x, c)' = At(x, c)
    PROVE  Counted(c)'
<1>1. /\ Allowance \in Nat /\ Allowance' \in Nat /\ Allowance <= Allowance'
      /\ Cardinality(Pulls!Thread) \in Nat /\ followups[c] \in Nat
    BY Allowed, PullConstants DEF PullInv, ThreadTypes, SavedTypes
<1>2. PICK n, F, A : n = Cardinality(Pulls!Thread) /\ F = Cardinality(At("followup", c))
                     /\ A = Cardinality(At("assigned", c))
    OBVIOUS
<1>3. n \in Nat /\ F \in Nat /\ A \in Nat
    BY <1>1, <1>2, AtCount
<1>4. IF c \in linked THEN followups[c] + F <= Allowance + n ELSE followups[c] <= Allowance + A
    BY <1>2 DEF PullInv, Counted
<1>5. IF c \in linked THEN followups[c] + F <= Allowance' + n
      ELSE followups[c] <= Allowance' + A
    BY <1>1, <1>3, <1>4
<1>6. F = Cardinality(At("followup", c)') /\ A = Cardinality(At("assigned", c)')
    BY <1>2
<1>7. QED
    BY <1>2, <1>5, <1>6 DEF Counted

\* The step of a thread at a comment leaves the others' threads alone.
LEMMA AtElsewhere ==
    ASSUME ThreadTypes, NEW w \in Pulls!Thread, NEW s, Pulls!Becomes(w, s),
           NEW c, c # thread[w].comment,
           s.at \in {"followup", "assigned"} => s.comment = thread[w].comment,
           NEW x \in {"followup", "assigned"}
    PROVE  At(x, c)' = At(x, c)
<1>1. w \notin At(x, c)
    BY DEF At
<1>2. At(x, c)' = At(x, c) \ {w}
    BY AtMoves
<1>3. QED
    BY <1>1, <1>2

\* A thread that creates a follow-up is counted at its comment from then on.
LEMMA CreateFollowupKeeps ==
    ASSUME PullInv, NEW w \in Pulls!Thread, Pulls!CreateFollowup(w)
    PROVE  PullInv'
<1>0. /\ thread[w] \in ThreadRow /\ Known(thread[w]) /\ GithubTypes /\ SavedTypes
      /\ ThreadTypes
    BY DEF PullInv, ThreadTypes
<1>1. PICK c, s : c = thread[w].comment /\ s = [thread[w] EXCEPT !.at = "assigned"]
    OBVIOUS
<1>2. /\ thread[w].at = "followup" /\ Pulls!Becomes(w, s)
      /\ followups' = [followups EXCEPT ![c] = followups[c] + 1]
      /\ UNCHANGED <<pull, posted, sent, delivery, record, linked, failures, restarts>>
    BY <1>1 DEF Pulls!CreateFollowup, Pulls!github, Pulls!faults
<1>3. c \in Posted /\ c \in Comment /\ thread[w].left \subseteq Posted
    BY <1>0, <1>1, <1>2 DEF Known, Posted
<1>4. /\ s \in ThreadRow /\ s.at = "assigned" /\ s.comment = c
      /\ s.left = thread[w].left
    BY <1>1, <1>2, FollowRow
<1>5. GithubTypes' /\ SavedTypes'
    <2>1. followups' \in [Comment -> Nat]
        BY <1>0, <1>2, <1>3 DEF SavedTypes
    <2>2. QED
        BY <1>0, <1>2, <2>1 DEF GithubTypes, SavedTypes, Posted
<1>6. ThreadTypes'
    <2>1. Known(s)'
        BY <1>2, <1>3, <1>4 DEF Known, Posted
    <2>2. QED
        BY <1>2, <1>4, <2>1, ThreadMoves
<1>7. ASSUME NEW d \in Comment, d # c
      PROVE  Counted(d)'
    <2>1. ASSUME NEW x \in {"followup", "assigned"}
          PROVE  At(x, d)' = At(x, d)
        <3>1. d # thread[w].comment /\ s.comment = thread[w].comment
            BY <1>1, <1>4, <1>7
        <3>2. QED
            BY <1>0, <1>2, <3>1, AtElsewhere
    <2>2. followups'[d] = followups[d]
        BY <1>0, <1>2, <1>7 DEF SavedTypes
    <2>3. QED
        BY <1>2, <2>1, <2>2, CountedElsewhere
<1>8. Counted(c)'
    <2>1. PICK n, F, A : n = Cardinality(Pulls!Thread)
                         /\ F = Cardinality(At("followup", c))
                         /\ A = Cardinality(At("assigned", c))
        OBVIOUS
    <2>2. n \in Nat /\ F \in Nat /\ A \in Nat /\ followups[c] \in Nat /\ Allowance \in Nat
        BY <1>0, <1>3, <2>1, AtCount, PullConstants, Allowed DEF SavedTypes
    <2>3. Cardinality(At("followup", c)') = F - 1
        <3>1. w \in At("followup", c)
            BY <1>1, <1>2 DEF At
        <3>2. At("followup", c)' = At("followup", c) \ {w}
            BY <1>0, <1>2, <1>4, AtMoves
        <3>3. QED
            BY <2>1, <3>1, <3>2, AtCount, FS_RemoveElement
    <2>4. Cardinality(At("assigned", c)') = A + 1
        <3>1. w \notin At("assigned", c)
            BY <1>2 DEF At
        <3>2. At("assigned", c)' = At("assigned", c) \cup {w}
            BY <1>0, <1>2, <1>4, AtMoves
        <3>3. QED
            BY <2>1, <3>1, <3>2, AtCount, FS_AddElement
    <2>5. followups'[c] = followups[c] + 1 /\ Allowance' = Allowance
        BY <1>0, <1>2, <1>3, Allowed DEF SavedTypes
    <2>6. IF c \in linked THEN followups[c] + F <= Allowance + n
          ELSE followups[c] <= Allowance + A
        BY <1>3, <2>1 DEF PullInv, Counted
    <2>7. IF c \in linked THEN followups'[c] + (F - 1) <= Allowance' + n
          ELSE followups'[c] <= Allowance' + (A + 1)
        BY <2>2, <2>5, <2>6
    <2>8. QED
        BY <1>2, <2>1, <2>3, <2>4, <2>7 DEF Counted
<1>9. QED
    BY <1>5, <1>6, <1>7, <1>8 DEF PullInv

\* A comment that gets its assignment has as many threads before it as are not behind.
LEMMA LinkFollowupKeeps ==
    ASSUME PullInv, NEW w \in Pulls!Thread, Pulls!LinkFollowup(w)
    PROVE  PullInv'
<1>0. /\ thread[w] \in ThreadRow /\ Known(thread[w]) /\ GithubTypes /\ SavedTypes
      /\ ThreadTypes
    BY DEF PullInv, ThreadTypes
<1>1. PICK c : c = thread[w].comment
    OBVIOUS
<1>2. /\ thread[w].at = "assigned" /\ linked' = linked \cup {c} /\ Pulls!AfterComment(w)
      /\ UNCHANGED <<pull, posted, sent, record, followups, failures, restarts>>
    BY <1>1 DEF Pulls!LinkFollowup, Pulls!github, Pulls!faults
<1>3. c \in Posted /\ c \in Comment
    BY <1>0, <1>1, <1>2 DEF Known, Posted
<1>4. PICK s \in ThreadRow :
         Pulls!Becomes(w, s) /\ Known(s)' /\ s.at \in {"idle", "comments"}
    BY <1>2, AfterMoves
<1>5. GithubTypes' /\ SavedTypes'
    BY <1>0, <1>2, <1>3, AfterMoves DEF GithubTypes, SavedTypes, Posted
<1>6. ThreadTypes'
    BY <1>2, <1>4, ThreadMoves
<1>7. ASSUME NEW d \in Comment, d # c
      PROVE  Counted(d)'
    <2>1. \A x \in {"followup", "assigned"} : At(x, d)' = At(x, d)
        BY <1>0, <1>1, <1>4, <1>7, AtElsewhere
    <2>2. d \in linked' <=> d \in linked
        BY <1>2, <1>7
    <2>3. QED
        BY <1>2, <1>4, <2>1, <2>2, CountedElsewhere
<1>8. Counted(c)'
    <2>1. PICK n, F, A : n = Cardinality(Pulls!Thread)
                         /\ F = Cardinality(At("followup", c))
                         /\ A = Cardinality(At("assigned", c))
        OBVIOUS
    <2>2. n \in Nat /\ F \in Nat /\ A \in Nat /\ followups[c] \in Nat /\ Allowance \in Nat
        BY <1>0, <1>3, <2>1, AtCount, PullConstants, Allowed DEF SavedTypes
    <2>3. At("followup", c)' = At("followup", c)
        <3>1. w \notin At("followup", c)
            BY <1>2 DEF At
        <3>2. At("followup", c)' = At("followup", c) \ {w}
            BY <1>0, <1>4, AtMoves
        <3>3. QED
            BY <3>1, <3>2
    <2>4. F + A <= n
        BY <2>1, AtBoth
    <2>5. IF c \in linked THEN followups[c] + F <= Allowance + n
          ELSE followups[c] <= Allowance + A
        BY <1>3, <2>1 DEF PullInv, Counted
    <2>6. followups[c] + F <= Allowance + n
        BY <2>2, <2>4, <2>5
    <2>7. Allowance' = Allowance /\ c \in linked' /\ followups' = followups
        BY <1>0, <1>2, Allowed
    <2>8. QED
        BY <2>1, <2>3, <2>6, <2>7 DEF Counted
<1>9. QED
    BY <1>5, <1>6, <1>7, <1>8 DEF PullInv

\* A failure that clears the assignment allows each thread one more.
LEMMA FailFollowupKeeps ==
    ASSUME PullInv, NEW w \in Pulls!Thread, Pulls!FailFollowup(w)
    PROVE  PullInv'
<1>0. /\ thread[w] \in ThreadRow /\ Known(thread[w]) /\ GithubTypes /\ SavedTypes
      /\ ThreadTypes
    BY DEF PullInv, ThreadTypes
<1>1. PICK c : c = thread[w].comment
    OBVIOUS
<1>2. /\ thread[w].at \in {"followup", "assigned"} /\ failures' = failures + 1
      /\ linked' = linked \ {c} /\ Pulls!AfterComment(w)
      /\ UNCHANGED <<pull, posted, sent, record, followups, restarts>>
    BY <1>1 DEF Pulls!FailFollowup, Pulls!github
<1>3. c \in Comment
    BY <1>0, <1>1, <1>2 DEF Known, Posted
<1>4. PICK s \in ThreadRow :
         Pulls!Becomes(w, s) /\ Known(s)' /\ s.at \in {"idle", "comments"}
    BY <1>2, AfterMoves
<1>5. GithubTypes' /\ SavedTypes'
    BY <1>0, <1>2, AfterMoves DEF GithubTypes, SavedTypes, Posted
<1>6. ThreadTypes'
    BY <1>2, <1>4, ThreadMoves
<1>7. ASSUME NEW d \in Comment, d # c
      PROVE  Counted(d)'
    <2>1. \A x \in {"followup", "assigned"} : At(x, d)' = At(x, d)
        BY <1>0, <1>1, <1>4, <1>7, AtElsewhere
    <2>2. d \in linked' <=> d \in linked
        BY <1>2, <1>7
    <2>3. QED
        BY <1>2, <1>4, <2>1, <2>2, CountedElsewhere
<1>8. Counted(c)'
    <2>1. PICK n, F, A : n = Cardinality(Pulls!Thread)
                         /\ F = Cardinality(At("followup", c))
                         /\ A = Cardinality(At("assigned", c))
        OBVIOUS
    <2>2. n \in Nat /\ F \in Nat /\ A \in Nat /\ followups[c] \in Nat /\ Allowance \in Nat
        BY <1>0, <1>3, <2>1, AtCount, PullConstants, Allowed DEF SavedTypes
    <2>3. F + A <= n
        BY <2>1, AtBoth
    <2>4. IF c \in linked THEN followups[c] + F <= Allowance + n
          ELSE followups[c] <= Allowance + A
        BY <1>3, <2>1 DEF PullInv, Counted
    <2>5. Allowance' = Allowance + n /\ c \notin linked' /\ followups' = followups
        BY <1>0, <1>2, <2>1, Allowed
    <2>6. PICK B : B = Cardinality(At("assigned", c)')
        OBVIOUS
    <2>7. B \in Nat
        <3>1. At("assigned", c)' = At("assigned", c) \ {w}
            BY <1>0, <1>4, AtMoves
        <3>2. QED
            BY <2>6, <3>1, AtCount, FS_Subset, FS_CardinalityType
    <2>8. followups[c] <= (Allowance + n) + B
        BY <2>2, <2>3, <2>4, <2>7
    <2>9. QED
        BY <2>5, <2>6, <2>8 DEF Counted
<1>9. QED
    BY <1>5, <1>6, <1>7, <1>8 DEF PullInv

\* A restart frees every thread.
LEMMA RestartKeeps ==
    ASSUME PullInv, Pulls!Restart
    PROVE  PullInv'
<1>0. GithubTypes /\ SavedTypes /\ ThreadTypes
    BY DEF PullInv
<1>1. /\ restarts' = restarts + 1 /\ \A w \in Pulls!Thread : thread'[w] = Pulls!Free
      /\ thread' = [w \in Pulls!Thread |-> Pulls!Free]
      /\ UNCHANGED <<pull, posted, sent, delivery, record, linked, followups, failures>>
    BY DEF Pulls!Restart, Pulls!github, Pulls!saved
<1>2. GithubTypes' /\ SavedTypes'
    BY <1>0, <1>1 DEF GithubTypes, SavedTypes, Posted
<1>3. ThreadTypes'
    <2>1. \A w \in Pulls!Thread : Known(thread[w])'
        BY <1>1, FreeRow DEF Known
    <2>2. QED
        BY <1>0, <1>1, <2>1, FreeRow DEF ThreadTypes
<1>4. ASSUME NEW c \in Comment
      PROVE  Counted(c)'
    <2>1. At("followup", c)' = {} /\ At("assigned", c)' = {}
        BY <1>1, FreeRow DEF At
    <2>2. PICK n, F, A : n = Cardinality(Pulls!Thread)
                         /\ F = Cardinality(At("followup", c))
                         /\ A = Cardinality(At("assigned", c))
        OBVIOUS
    <2>3. n \in Nat /\ F \in Nat /\ A \in Nat /\ followups[c] \in Nat /\ Allowance \in Nat
        BY <1>0, <2>2, AtCount, PullConstants, Allowed DEF SavedTypes
    <2>4. F + A <= n
        BY <2>2, AtBoth
    <2>5. IF c \in linked THEN followups[c] + F <= Allowance + n
          ELSE followups[c] <= Allowance + A
        BY <2>2 DEF PullInv, Counted
    <2>6. Allowance' = Allowance + n
        BY <1>0, <1>1, <2>2, Allowed
    <2>7. IF c \in linked THEN followups[c] + 0 <= Allowance' + n
          ELSE followups[c] <= Allowance' + 0
        BY <2>3, <2>4, <2>5, <2>6
    <2>8. QED
        BY <1>1, <2>1, <2>2, <2>7, FS_EmptySet DEF Counted
<1>5. QED
    BY <1>2, <1>3, <1>4 DEF PullInv

\* Every step of GitHub and of a thread keeps the invariant.
LEMMA PullNext ==
    ASSUME PullInv, Pulls!Next
    PROVE  PullInv'
<1>1. ASSUME NEW t \in Task, NEW st \in {"open", "closed", "merged"}, Pulls!Change(t, st)
      PROVE  PullInv'
    BY <1>1, ChangeKeeps
<1>2. ASSUME NEW c \in Comment, Pulls!Edit(c) \/ \E t \in Task : Pulls!Post(c, t)
      PROVE  PullInv'
    BY <1>2, EditKeeps, PostKeeps
<1>3. ASSUME NEW w \in Handler,
             \/ \E t \in Task : Pulls!EnsureStart(w, t)
             \/ Pulls!EnsurePull(w) \/ Pulls!EnsureSave(w) \/ Pulls!EnsureFail(w)
             \/ \E d \in sent : Pulls!Receive(w, d)
             \/ Pulls!SyncPull(w) \/ Pulls!SyncComment(w) \/ Pulls!WebhookFail(w)
             \/ Pulls!ReviewRead(w) \/ Pulls!ReviewSave(w)
      PROVE  PullInv'
    BY <1>3, EnsureKeeps, WebhookKeeps
<1>4. ASSUME NEW w \in Pulls!Thread, Pulls!FollowupStep(w) \/ Pulls!FailFollowup(w)
      PROVE  PullInv'
    BY <1>4, CreateFollowupKeeps, LinkFollowupKeeps, FailFollowupKeeps DEF Pulls!FollowupStep
<1>5. CASE Pulls!ReconcileStep \/ Pulls!ReconcileFail
    BY <1>4, <1>5, ReconcileKeeps, PullConstants DEF Pulls!ReconcileStep
<1>6. ASSUME NEW t \in Task, Pulls!Review(t)
      PROVE  PullInv'
    BY <1>6, ReviewIsDelivered
<1>7. QED
    BY <1>1, <1>2, <1>3, <1>4, <1>5, <1>6, RestartKeeps, PullConstants DEF Pulls!Next

\* What the invariant says of the properties.
LEMMA PullKeeps ==
    ASSUME PullInv
    PROVE  Pulls!TypeOK /\ Pulls!FollowupsBounded
<1>1. Pulls!TypeOK
    <2>1. \A d \in sent : d.number \in Pulls!Deliveries
        BY DeliveryRows DEF PullInv, GithubTypes
    <2>2. QED
        BY <2>1 DEF PullInv, GithubTypes, SavedTypes, Pulls!TypeOK, PullStatus, Posted
<1>2. ASSUME NEW c \in Comment
      PROVE  followups[c] <= Pulls!Cardinality(Pulls!Thread) * (1 + failures + restarts)
    <2>1. PICK n, k, F, A : /\ n = Cardinality(Pulls!Thread) /\ k = failures + restarts
                            /\ F = Cardinality(At("followup", c))
                            /\ A = Cardinality(At("assigned", c))
        OBVIOUS
    <2>2. n \in Nat /\ F \in Nat /\ A \in Nat /\ followups[c] \in Nat /\ k \in Nat
        BY <2>1, AtCount, PullConstants DEF PullInv, SavedTypes, ThreadTypes
    <2>3. F + A <= n
        BY <2>1, AtBoth
    <2>4. IF c \in linked THEN followups[c] + F <= n * k + n ELSE followups[c] <= n * k + A
        BY <2>1 DEF PullInv, Counted, Allowance
    <2>5. n * k \in Nat /\ n * (k + 1) = n * k + n
        BY <2>2
    <2>6. followups[c] <= n * (k + 1)
        BY <2>2, <2>3, <2>4, <2>5
    <2>7. k + 1 = 1 + failures + restarts
        BY <2>1 DEF PullInv, ThreadTypes
    <2>8. QED
        BY <2>1, <2>6, <2>7, PullConstants
<1>3. QED
    BY <1>1, <1>2 DEF Pulls!FollowupsBounded
-----------------------------------------------------------------------------
(* The composition.                                                        *)

ServicesInv == LocalInv /\ RelayInv /\ IngestInv /\ PullInv

\* Every part begins with its invariant.
LEMMA ServicesInit ==
    ASSUME Init
    PROVE  ServicesInv
BY LocalInit, RelayInit, IngestInit, PullInit DEF Init, ServicesInv

\* A step is one of one part, and the others stay.
LEMMA ServicesNext ==
    ASSUME ServicesInv, [Next]_vars
    PROVE  ServicesInv'
<1>1. LocalInv'
    <2>1. CASE Local!Next
        BY <2>1, LocalNext DEF ServicesInv
    <2>2. CASE UNCHANGED localVars
        BY <2>2, LocalStays DEF ServicesInv
    <2>3. QED
        BY <2>1, <2>2 DEF Next, vars, LocalStep, RelayStep, IngestStep, PullStep
<1>2. RelayInv'
    <2>1. CASE Relay!Next
        BY <2>1, RelayNext DEF ServicesInv
    <2>2. CASE UNCHANGED relayVars
        BY <2>2, RelayStays DEF ServicesInv
    <2>3. QED
        BY <2>1, <2>2 DEF Next, vars, LocalStep, RelayStep, IngestStep, PullStep
<1>3. IngestInv'
    <2>1. CASE Ingest!Next
        BY <2>1, IngestNext DEF ServicesInv
    <2>2. CASE UNCHANGED ingestVars
        BY <2>2, IngestStays DEF ServicesInv
    <2>3. QED
        BY <2>1, <2>2 DEF Next, vars, LocalStep, RelayStep, IngestStep, PullStep
<1>4. PullInv'
    <2>1. CASE Pulls!Next
        BY <2>1, PullNext DEF ServicesInv
    <2>2. CASE UNCHANGED pullVars
        BY <2>2, PullStays DEF ServicesInv
    <2>3. QED
        BY <2>1, <2>2 DEF Next, vars, LocalStep, RelayStep, IngestStep, PullStep
<1>5. QED
    BY <1>1, <1>2, <1>3, <1>4 DEF ServicesInv

\* The invariant of the parts holds in every behaviour.
THEOREM ServicesAlways == Spec => []ServicesInv
<1>1. Init => ServicesInv
    BY ServicesInit
<1>2. ServicesInv /\ [Next]_vars => ServicesInv'
    BY ServicesNext
<1>3. QED
    BY <1>1, <1>2, PTL DEF Spec

\* Actions, requests, tokens, revisions, records and threads keep the form the code
\* gives them, for any number of peers, keys, sessions, revisions and comments.
THEOREM ServicesAreTyped == Spec => []TypeOK
<1>1. ServicesInv => TypeOK
    BY LocalKeeps, IngestKeeps, PullKeeps DEF ServicesInv, RelayInv, TypeOK
<1>2. QED
    BY <1>1, ServicesAlways, PTL

\* At most one candidate of all the revisions of a package is installed, and only an
\* allowed one; a peer that waits for its answers has one unfinished install of a
\* key; and failures, restarts and the number of threads bound the follow-ups of a
\* comment.
THEOREM RepeatedWorkIsDoneOnce == Spec => []DoneOnce
<1>1. ServicesInv => DoneOnce
    BY LocalKeeps, IngestKeeps, PullKeeps DEF ServicesInv, DoneOnce
<1>2. QED
    BY <1>1, ServicesAlways, PTL

\* What a peer that waits for its answers installed is not installed again, however
\* many requests the server works on; a lease that holds is not taken over, and an
\* action that ended stays so, whatever is claimed or reported late.
THEOREM InstallsAreNotRepeated == Spec => InstalledOnce
<1>1. ServicesInv /\ [Next]_vars =>
         [/\ timeouts = 0 => Local!InstallsAnew
          /\ Local!JobKeepsLease /\ Local!EndedStays]_vars
    <2>1. SUFFICES ASSUME ServicesInv, [Next]_vars
                   PROVE  LocalActs
        BY DEF LocalActs
    <2>2. CASE Local!Next
        BY <2>1, <2>2, LocalActsNext DEF ServicesInv
    <2>3. CASE UNCHANGED localVars
        BY <2>1, <2>3, QuietActs DEF ServicesInv, localVars
    <2>4. QED
        BY <2>1, <2>2, <2>3 DEF Next, vars, LocalStep, RelayStep, IngestStep, PullStep
<1>2. QED
    BY <1>1, ServicesAlways, PTL DEF Spec, InstalledOnce

\* A peer is marked offline after every session run that was open when its handler
\* began has ended, and the handler ends no run of another peer or of a package: for
\* any number of peers and of sessions, and heartbeats and registrations between its
\* steps.
THEOREM OfflineAfterSessions == Spec => DisconnectEndsSessions
<1>1. ServicesInv /\ [Next]_vars => [Relay!SessionsEndFirst /\ Relay!OnlyOwnEnd]_vars
    <2>1. SUFFICES ASSUME ServicesInv, [Next]_vars, ~UNCHANGED vars
                   PROVE  Relay!SessionsEndFirst /\ Relay!OnlyOwnEnd
        OBVIOUS
    <2>2. CASE Relay!Next
        BY <2>1, <2>2, RelayActs DEF ServicesInv
    <2>3. CASE UNCHANGED relayVars
        BY <2>3 DEF relayVars, Relay!SessionsEndFirst, Relay!OnlyOwnEnd
    <2>4. QED
        BY <2>1, <2>2, <2>3 DEF Next, vars, LocalStep, RelayStep, IngestStep, PullStep
<1>2. QED
    BY <1>1, ServicesAlways, PTL DEF Spec, DisconnectEndsSessions
=============================================================================
