---------------------------- MODULE WorkersProofs ----------------------------
(***************************************************************************)
(* Machine-checked proofs about what passes between a worker and the       *)
(* server while a run is executed, for every number of steers, claims,     *)
(* events, tokens, runs and calls.  Each part has an invariant of its own; *)
(* a step of one part leaves the variables of the others unchanged.        *)
(***************************************************************************)
EXTENDS Workers, FiniteSetTheorems, TLAPS

-----------------------------------------------------------------------------
(* The inductive invariants of the parts.                                  *)

\* A claim that was not handed out has no worker, and what the holder of the
\* lease received was offered to it: none of it waits to be offered again.
SteersInv ==
    /\ Steers!TypeOK /\ Steers!DeliveredByHolder /\ Steers!DeliveredWasTaken
    /\ \A c \in Steers!Claim : c > holder =>
          steerWorker[c] = "none" /\ pending[c] = {} /\ named[c] = {}
    /\ \A c \in Steers!Claim : Steers!Leased(c) =>
          \A s \in pending[c] \cup named[c] :
             steer[s].status \in {"delivering", "delivered"}

EventsTypes ==
    /\ NEvents \in Nat /\ ChannelSize \in Nat \ {0} /\ produced \in 0..NEvents
    /\ channel \in Seq(1..NEvents) /\ Len(channel) <= ChannelSize
    /\ sending \in 0..NEvents /\ replay \subseteq 1..NEvents
    /\ abandoned \subseteq givenUp /\ givenUp \subseteq 1..NEvents
    /\ dropped \subseteq 1..NEvents /\ log \in [1..NEvents -> 0..2]
    /\ executor \in {"running", "ended"}
    /\ eventWorker \in {"sending", "completing", "completed", "failed"}
    /\ cancelled \in BOOLEAN /\ claim \in BOOLEAN

\* The events in the channel, each there once.
Queued == {channel[i] : i \in 1..Len(channel)}
QueuedOnce == \A i, j \in 1..Len(channel) : i # j => channel[i] # channel[j]

\* Where the events are that the server has not got.
Places ==
    /\ Queued \cup replay \cup dropped \subseteq 1..produced
    /\ sending <= produced /\ sending \notin Queued
    /\ (Queued \cup {sending}) \cap replay = {}
    /\ givenUp \subseteq replay

\* How often the server has an event: one that is kept for the completion may
\* have been written only by a request that was given up.
Count(e) ==
    /\ e \in Queued \cup {sending} \/ e > produced => log[e] = 0
    /\ log[e] > 1 => e \in givenUp
    /\ claim /\ e \in replay => log[e] = IF e \in givenUp \ abandoned THEN 1 ELSE 0
    /\ e \notin replay => log[e] <= 1
    /\ \/ e > produced \/ log[e] > 0
       \/ e \in Queued \cup {sending} \cup replay \cup dropped

EventsInv ==
    /\ EventsTypes /\ QueuedOnce /\ Places
    /\ \A e \in 1..NEvents : Count(e)
    /\ eventWorker # "sending" => executor = "ended" /\ channel = << >> /\ sending = 0
    /\ eventWorker = "completed" =>
          ~claim /\ \A e \in 1..produced : log[e] > 0 \/ e \in dropped

\* What a frame that is the n-th of its request says: the n-th token, or that the
\* provider, which produced m tokens, has ended after n - 1 of them.
Follows(f, n, m, b) == IF f.kind = "token" THEN f.n = n ELSE b = "ended" /\ m = n - 1

\* The frames W on the wire and Q in the queue continue the k tokens that were
\* shown, without a gap, and a terminal frame comes last.
InOrder(k, W, Q, m, b) ==
    /\ W # << >> => Follows(W[1], k + 1, m, b)
    /\ W # << >> /\ W[1].kind # "token" => Q = << >>
    /\ \A i \in 1..Len(Q) : /\ Follows(Q[i], k + Len(W) + i, m, b)
                            /\ Q[i].kind # "token" => i = Len(Q)
    /\ b = "streaming" => m = k + Len(W) + Len(Q)

StreamTypes ==
    /\ Fallbacks \in Nat /\ QueueSize \in Nat \ {0} /\ MaxTokens \in Nat
    /\ attempt \in Stream!Attempt /\ made \in [Stream!Attempt -> 0..MaxTokens]
    /\ bridge \in [Stream!Attempt -> {"none", "streaming", "ended"}]
    /\ queue \in [Stream!Attempt -> Seq(Stream!Frame)]
    /\ wire \in [Stream!Attempt -> Seq(Stream!Frame)]
    /\ \A a \in Stream!Attempt : Len(queue[a]) <= QueueSize /\ Len(wire[a]) <= 1
    /\ stopEvent \in [Stream!Attempt -> BOOLEAN]
    /\ writer \in [Stream!Attempt -> {"none", "writing", "closed"}]
    /\ broken \subseteq Stream!Attempt
    /\ streamWorker \in {"reading", "completed", "interrupted", "raised"}
    /\ action \in {"none", "continue", "retry"}
    /\ heard \in Seq(Stream!Token) /\ partial \in Seq(Stream!Token)
    /\ content \in Seq(Stream!Token) /\ shown \in [Stream!Attempt -> Seq(Stream!Token)]

\* The tokens of request a, from the first to the last that was shown.
ShownInOrder(a) == \A i \in 1..Len(shown[a]) : shown[a][i] = [attempt |-> a, n |-> i]

NotBegun(a) ==
    /\ shown[a] = << >> /\ wire[a] = << >> /\ queue[a] = << >>
    /\ made[a] = 0 /\ bridge[a] = "none"

StreamInv ==
    /\ StreamTypes
    /\ \A a \in Stream!Attempt : /\ ShownInOrder(a)
                                 /\ a \in broken => wire[a] = << >>
                                 /\ a > attempt => NotBegun(a)
    /\ streamWorker = "reading" /\ attempt \notin broken =>
          InOrder(Len(shown[attempt]), wire[attempt], queue[attempt], made[attempt],
                  bridge[attempt])
    /\ heard = shown[attempt]
    /\ attempt = 1 /\ streamWorker = "reading" => action = "none"
    /\ attempt > 1 => partial = shown[1] /\ action \in {"continue", "retry"}
    /\ Stream!ContentWasShown

\* A worker's record: the events of the execution it is at.
WorkerRecord ==
    [at : {"idle", "creating", "registered", "chatting", "returned", "settled", "dead"},
     run : Run \cup {NoRun}, lease : {"none", "live", "lapsed"}, beat : BOOLEAN,
     stop : BOOLEAN, again : BOOLEAN, emitted : 0..MaxEvents,
     delivered : SUBSET Chats!Event, stored : [Chats!Event -> 0..1],
     result : {"none", "completed", "failed", "blocked"}]

Busy == {"dispatched", "running"}

\* An execution of w: what it stored is what was taken of its events, and its
\* bound leaves room for the events that are still to come.
Execution(w, x) ==
    /\ x \in WorkerRecord
    /\ x.at = "idle" <=> x = Chats!Idle
    /\ x.run = NoRun <=> x = Chats!Idle
    /\ x.run # NoRun => Chats!WorkerOf(x.run) = w
    /\ x.beat => w \in Chats!Beats
    /\ x.delivered \subseteq 1..x.emitted
    /\ x.at = "creating" => x.emitted = 0
    /\ x.at \in Chats!Executing => x.emitted < MaxEvents
    /\ x.at = "settled" => x.lease = "none"
    /\ x.at = "returned" => x.result # "none"
    /\ \A e \in Chats!Event :
          x.stored[e] = IF e \in (IF x.at = "settled" THEN 1..x.emitted ELSE x.delivered)
                        THEN 1 ELSE 0

ChatsInv ==
    /\ Chats!TypeOK
    /\ chatWorker = [w \in Chats!Worker |-> chatWorker[w]]
    /\ \A w \in Chats!Worker : Execution(w, chatWorker[w])
    /\ \A w \in Chats!Worker : chatWorker[w].run # NoRun =>
          (Chats!Held(w) <=> status[chatWorker[w].run] \in Busy)
    /\ \A r \in Run : status[r] \in Busy => chatWorker[Chats!WorkerOf(r)].run = r

\* Between an answer and the next request every call is executed.  Only the
\* summary is asked for after a stop; a compression is asked for at most where
\* the loop looks for the stop next.
TurnInv ==
    /\ Turn!TypeOK /\ Turn!CallsAnswered /\ Turn!StopIsSeen
    /\ at = "top" => dangling = 0
    /\ at \in {"compress", "asking", "answered", "tools"} => compressed = 0
    /\ at = "top" /\ ~stop => compressed = 0
    /\ at \in {"answered", "tools"} => todo = dangling /\ todo > 0
    /\ at \in {"compress", "top", "asking", "answered", "tools"} => asked = 0
    /\ at \in {"idle", "ended"} => active = Turn!None
-----------------------------------------------------------------------------
(* The invariant of FileMutations.                                         *)

\* A content holds no edits of call c.
Foreign(c, x) == \A e \in x.edits : e[1] # c

\* The files in S are as they were when c began.
Untouched(c, S) == \A f \in S : disk[f] = before[c][f]

\* The planned content of c's section i is that of the file in the beginning with
\* the section's edit, and perhaps with what the user changed.
Planned(c, i) ==
    LET s == patch[c][i]
        own == plan[c][i].edits \ {<<c, 0>>}
    IN  CASE s.kind = "add" -> plan[c][i].present /\ own = {<<c, i>>}
          [] s.kind = "delete" -> ~plan[c][i].present
          [] OTHER -> plan[c][i].present /\ own = before[c][s.path].edits \cup {<<c, i>>}

Previewing == {"planning", "asked"}
Applying == {"writing", "removing"}
Restoring == {"restoring", "restoring the rest"}

\* How far a call is.
Progress(c) ==
    /\ phase[c] = "idle" => step[c] = 1 /\ plan[c] = << >> /\ saved[c] = {}
    /\ phase[c] # "idle" => /\ patch[c] \in Patches /\ step[c] \in 1..Len(patch[c])
                            /\ saved[c] \subseteq Files!Files(c)
    /\ phase[c] \in Previewing => saved[c] = {}
    /\ phase[c] \in {"asked", "snapshotting"} => step[c] = 1
    /\ phase[c] = "planning" => Len(plan[c]) = step[c] - 1
    /\ phase[c] \in {"asked", "snapshotting"} \cup Applying => Len(plan[c]) = Len(patch[c])
    /\ phase[c] \in Applying => saved[c] = Files!Files(c)
    /\ phase[c] = "removing" =>
          patch[c][step[c]].kind = "move" /\ patch[c][step[c]].path # patch[c][step[c]].to

\* What is true of a call whose files nobody else has written.
Whole(c) ==
    /\ phase[c] \in Previewing \cup {"snapshotting", "failed"} =>
          Untouched(c, Files!Files(c))
    /\ phase[c] \in Previewing \cup {"snapshotting"} \cup Applying =>
          \A i \in 1..Len(plan[c]) : Planned(c, i)
    /\ phase[c] \in {"snapshotting"} \cup Applying \cup Restoring =>
          \A f \in saved[c] : snap[c][f] = before[c][f]
    /\ phase[c] \in Applying /\ Files!Plain(patch[c]) =>
          \A j \in 1..(step[c] - 1) : Files!Done(c, j)
    /\ phase[c] = "removing" =>
          LET s == patch[c][step[c]] IN
          Files!HasEdit(c, s.to, step[c], before[c][s.path].edits)
    /\ phase[c] = "restoring" => faults > 0 /\ Untouched(c, Files!Files(c) \ saved[c])
    /\ goesOn /\ phase[c] = "restoring the rest" =>
          Cardinality(Files!Changed(c) \ saved[c]) < faults
    /\ phase[c] = "completed" /\ Files!Plain(patch[c]) =>
          \A i \in DOMAIN patch[c] : Files!Done(c, i)
    /\ goesOn /\ phase[c] = "half restored" => Cardinality(Files!Changed(c)) < faults

\* A call that has not begun has left nothing anywhere.
Outside(c) ==
    /\ \A f \in File : Foreign(c, disk[f])
    /\ \A d \in Call : /\ \A f \in File : Foreign(c, snap[d][f])
                       /\ \A i \in DOMAIN plan[d] : Foreign(c, plan[d][i])

FilesInv ==
    /\ Files!TypeOK
    /\ \A c \in Call : Progress(c)
    /\ \A c \in Call : \A f \in File : Foreign(c, before[c][f])
    /\ \A c \in Call : phase[c] = "idle" => Outside(c)
    /\ \A c \in Call \ met : Whole(c)

-----------------------------------------------------------------------------
(* Steers.                                                                 *)

\* No steer is with a worker in the beginning.
LEMMA SteersInit ==
    ASSUME Steers!Init
    PROVE  SteersInv
<1> USE DEF Steers!Init, Steers!Claim
<1>1. MaxClaims \in Nat /\ MaxLost \in Nat
    BY WorkersAssumption DEF Steers!BoundAssumption
<1>2. Steers!TypeOK
    BY <1>1 DEF Steers!TypeOK
<1>3. Steers!DeliveredByHolder /\ Steers!DeliveredWasTaken
    BY DEF Steers!DeliveredByHolder, Steers!DeliveredWasTaken
<1>4. QED
    BY <1>1, <1>2, <1>3 DEF SteersInv, Steers!Leased

\* A steer, and the claim that delivers it.
SteerRow == [status : {"absent", "queued"}, by : {0}]
                \cup [status : {"delivering", "delivered"}, by : 1..MaxClaims]

SteersTypes ==
    /\ MaxClaims \in Nat /\ MaxLost \in Nat /\ holder \in 0..MaxClaims
    /\ activation \in {"queued", "leased", "ended"}
    /\ steer \in [Steer -> SteerRow]
    /\ steerWorker \in [1..MaxClaims -> {"none", "running", "finished", "stopped"}]
    /\ pending \in [1..MaxClaims -> SUBSET Steer]
    /\ named \in [1..MaxClaims -> SUBSET Steer]
    /\ buffer \in [1..MaxClaims -> SUBSET Steer]
    /\ used \subseteq Steer /\ lost \in 0..MaxLost

\* What the invariant says of one claim's records, as typed facts.
LEMMA SteersTyping ==
    ASSUME SteersInv
    PROVE  SteersTypes
<1>1. MaxClaims \in Nat /\ MaxLost \in Nat /\ Steers!TypeOK
    BY WorkersAssumption DEF Steers!BoundAssumption, SteersInv
<1>2. QED
    BY <1>1 DEF Steers!TypeOK, Steers!Claim, SteerRow, SteersTypes

\* What a heartbeat leaves of a steer.
Beaten(c, s, next) ==
    \/ /\ s \in named[c] /\ steer[s].status = "delivering"
       /\ next = [status |-> "delivered", by |-> steer[s].by]
       /\ steer[s].by \in 1..MaxClaims
    \/ /\ s \in Steers!Offered(c) /\ next = [status |-> "delivering", by |-> c]
    \/ s \notin Steers!Offered(c) /\ next = steer[s]

\* What a heartbeat of claim c makes of steer s.
LEMMA SteerAfterHeartbeat ==
    ASSUME SteersInv, NEW c \in 1..MaxClaims, Steers!Leased(c),
           steerWorker[c] # "none", steer' = Steers!SteersAfterHeartbeat(c),
           NEW s \in Steer
    PROVE  Beaten(c, s, steer'[s])
<1>0. steer[s] \in SteerRow /\ SteersTypes
    BY SteersTyping DEF SteersTypes
<1>1. CASE s \in Steers!Acknowledged(c)
    <2>1. s \in named[c] /\ steer[s].status = "delivering"
        BY <1>1, <1>0 DEF SteersInv, SteersTypes, Steers!Acknowledged, Steers!Claim
    <2>2. steer'[s] = [steer[s] EXCEPT !.status = "delivered"]
        BY <1>1 DEF Steers!SteersAfterHeartbeat
    <2>3. QED
        BY <1>0, <2>1, <2>2 DEF Beaten, SteerRow
<1>2. CASE s \notin Steers!Acknowledged(c) /\ s \in Steers!Offered(c)
    BY <1>2 DEF Steers!SteersAfterHeartbeat, Beaten
<1>3. CASE s \notin Steers!Acknowledged(c) /\ s \notin Steers!Offered(c)
    BY <1>3 DEF Steers!SteersAfterHeartbeat, Beaten
<1>4. QED
    BY <1>1, <1>2, <1>3

\* The heartbeat, answered or not, keeps the steers with the holder of the lease.
LEMMA SteersHeartbeat ==
    ASSUME SteersInv, NEW c \in 1..MaxClaims, Steers!Leased(c),
           steerWorker[c] # "none", steer' = Steers!SteersAfterHeartbeat(c),
           \/ pending' = pending
           \/ pending' = [pending EXCEPT ![c] = @ \cup Steers!Offered(c)],
           UNCHANGED <<activation, holder, steerWorker, named, buffer, used>>,
           lost' \in 0..MaxLost
    PROVE  SteersInv'
<1>0. SteersTypes
    BY SteersTyping
<1>1. \A s \in Steer : Beaten(c, s, steer'[s])
    BY SteerAfterHeartbeat
<1>2. ASSUME NEW s \in Steer
      PROVE  steer'[s] \in SteerRow
    <2>1. steer[s] \in SteerRow /\ MaxClaims \in Nat
        BY <1>0 DEF SteersTypes
    <2>2. PICK n : n = steer'[s]
        OBVIOUS
    <2>3. \/ n = [status |-> "delivered", by |-> steer[s].by] /\ steer[s].by \in 1..MaxClaims
          \/ n = [status |-> "delivering", by |-> c]
          \/ n = steer[s]
        BY <1>1, <2>2 DEF Beaten
    <2>4. n \in SteerRow
        BY <2>1, <2>3 DEF SteerRow
    <2>5. QED
        BY <2>2, <2>4
<1>3. steer' \in [Steer -> SteerRow]
    BY <1>2 DEF Steers!SteersAfterHeartbeat
<1>4. /\ Steers!Offered(c) \subseteq Steer
      /\ pending' \in [1..MaxClaims -> SUBSET Steer]
      /\ \A d \in 1..MaxClaims : d # c => pending'[d] = pending[d]
      /\ pending'[c] \subseteq pending[c] \cup Steers!Offered(c)
    BY <1>0 DEF Steers!Offered, SteersTypes
<1>5. Steers!TypeOK'
    BY <1>0, <1>3, <1>4 DEF Steers!TypeOK, Steers!Claim, SteerRow, SteersTypes
<1>6. ASSUME NEW s \in Steer
      PROVE  /\ steer'[s].status = "delivering" => steer'[s] = steer[s] \/ steer'[s].by = c
             /\ steer'[s].status = "delivered" =>
                  s \in named[c] \/ steer[s].status = "delivered"
    <2>1. PICK n : n = steer'[s]
        OBVIOUS
    <2>2. Beaten(c, s, n)
        BY <1>1, <2>1
    <2>3. /\ n.status = "delivering" => n = steer[s] \/ n.by = c
          /\ n.status = "delivered" => s \in named[c] \/ steer[s].status = "delivered"
        BY <2>2 DEF Beaten
    <2>4. QED
        BY <2>1, <2>3
<1>7. Steers!DeliveredByHolder' /\ Steers!DeliveredWasTaken'
    <2>1. Steers!DeliveredByHolder'
        BY <1>6 DEF SteersInv, Steers!DeliveredByHolder, Steers!Leased
    <2>2. Steers!DeliveredWasTaken'
        BY <1>6 DEF SteersInv, Steers!DeliveredWasTaken, Steers!Claim
    <2>3. QED
        BY <2>1, <2>2
<1>8. \A d \in Steers!Claim : (d > holder)' =>
          (steerWorker[d] = "none" /\ pending[d] = {} /\ named[d] = {})'
    BY <1>0, <1>4 DEF SteersInv, Steers!Claim, Steers!Leased, SteersTypes
<1>9. ASSUME NEW d \in Steers!Claim, Steers!Leased(d)'
      PROVE  \A s \in pending'[d] \cup named'[d] :
                steer'[s].status \in {"delivering", "delivered"}
    <2>1. d = c
        BY <1>9 DEF Steers!Leased
    <2>2. \A s \in pending[c] \cup named[c] : steer[s].status \in {"delivering", "delivered"}
        BY DEF SteersInv, Steers!Claim
    <2>3. ASSUME NEW s \in pending'[c] \cup named'[c]
          PROVE  steer'[s].status \in {"delivering", "delivered"}
        <3>1. s \in Steer /\ s \in pending[c] \cup named[c] \cup Steers!Offered(c)
            BY <1>0, <1>4 DEF SteersTypes
        <3>2. s \notin Steers!Offered(c) =>
                steer[s].status \in {"delivering", "delivered"}
            BY <2>2, <3>1
        <3>3. Beaten(c, s, steer'[s])
            BY <1>1, <3>1
        <3>4. QED
            BY <3>2, <3>3 DEF Beaten
    <2>4. QED
        BY <2>1, <2>3
<1>10. QED
    BY <1>5, <1>7, <1>8, <1>9 DEF SteersInv

\* Steps that leave the steers as they are.
LEMMA SteersOthers ==
    ASSUME SteersInv, Steers!TypeOK', UNCHANGED steer,
           \A c \in 1..MaxClaims : named[c] \subseteq named'[c],
           \A c \in 1..MaxClaims : Steers!Leased(c)' =>
              \/ Steers!Leased(c) /\ pending'[c] \cup named'[c] \subseteq pending[c] \cup named[c]
              \/ pending'[c] = {} /\ named'[c] = {},
           \A c \in 1..MaxClaims : c > holder' =>
              steerWorker'[c] = "none" /\ pending'[c] = {} /\ named'[c] = {},
           \A s \in Steer : steer[s].status = "delivering" /\ activation' # "ended" =>
              Steers!Leased(steer[s].by)'
    PROVE  SteersInv'
<1>1. Steers!DeliveredWasTaken'
    BY DEF SteersInv, Steers!DeliveredWasTaken, Steers!Claim
<1>2. QED
    BY <1>1 DEF SteersInv, Steers!DeliveredByHolder, Steers!Claim

\* Every step of the steers keeps their invariant.
LEMMA SteersNext ==
    ASSUME SteersInv, Steers!Next
    PROVE  SteersInv'
<1>0. SteersTypes
    BY SteersTyping
<1> USE DEF SteersTypes
<1>1. CASE Steers!ClaimActivation
    <2>1. Steers!TypeOK'
        BY <1>0, <1>1 DEF Steers!ClaimActivation, SteersInv, Steers!TypeOK, Steers!Claim
    <2>2. \A s \in Steer : steer[s].status # "delivering"
        BY <1>0, <1>1 DEF SteerRow, Steers!ClaimActivation, SteersInv, Steers!DeliveredByHolder,
           Steers!Leased
    <2>3. QED
        BY <1>0, <1>1, <2>1, <2>2, SteersOthers
           DEF Steers!ClaimActivation, SteersInv, Steers!Leased, Steers!Claim
<1>2. CASE Steers!Recover
    <2>1. ASSUME NEW s \in Steer
          PROVE  /\ steer'[s].status # "delivering"
                 /\ steer'[s].status = "delivered" => steer[s].status = "delivered"
                 /\ \/ steer'[s] = steer[s]
                    \/ steer'[s] = [status |-> "queued", by |-> 0]
        <3>1. steer[s] \in SteerRow /\ activation = "leased"
            BY <1>0, <1>2 DEF Steers!Recover
        <3>2. CASE steer[s] = [status |-> "delivering", by |-> holder]
            <4>1. steer'[s] = [status |-> "queued", by |-> 0]
                BY <1>2, <3>2 DEF Steers!Recover, Steers!Requeued
            <4>2. QED
                BY <4>1
        <3>3. CASE steer[s] # [status |-> "delivering", by |-> holder]
            <4>1. steer'[s] = steer[s]
                BY <1>2, <3>3 DEF Steers!Recover, Steers!Requeued
            <4>2. steer[s].status = "delivering" => steer[s].by = holder
                BY <3>1 DEF SteersInv, Steers!DeliveredByHolder, Steers!Leased
            <4>3. steer[s].status # "delivering"
                BY <3>1, <3>3, <4>2 DEF SteerRow
            <4>4. QED
                BY <4>1, <4>3
        <3>4. QED
            BY <3>2, <3>3
    <2>2. Steers!TypeOK'
        <3>1. steer' \in [Steer -> SteerRow]
            BY <1>0, <1>2, <2>1 DEF Steers!Recover, Steers!Requeued, SteerRow
        <3>2. QED
            BY <1>0, <1>2, <3>1 DEF Steers!Recover, SteersInv, Steers!TypeOK, Steers!Claim,
               SteerRow
    <2>3. Steers!DeliveredWasTaken' /\ Steers!DeliveredByHolder'
        BY <1>0, <1>2, <2>1 DEF Steers!Recover, SteersInv, Steers!DeliveredWasTaken,
           Steers!DeliveredByHolder, Steers!Claim
    <2>4. QED
        BY <1>0, <1>2, <2>2, <2>3 DEF Steers!Recover, SteersInv, Steers!Leased, Steers!Claim
<1>3. CASE \E s \in Steer : Steers!AppendSteer(s)
    <2>1. PICK s \in Steer : Steers!AppendSteer(s)
        BY <1>3
    <2>2. steer' = [steer EXCEPT ![s] = [status |-> "queued", by |-> 0]]
        <3>1. steer[s] \in SteerRow /\ steer[s].status = "absent"
            BY <1>0, <2>1 DEF Steers!AppendSteer
        <3>2. [steer[s] EXCEPT !.status = "queued"] = [status |-> "queued", by |-> 0]
            BY <3>1 DEF SteerRow
        <3>3. steer' = [steer EXCEPT ![s] = [steer[s] EXCEPT !.status = "queued"]]
            BY <2>1 DEF Steers!AppendSteer
        <3>4. QED
            BY <3>2, <3>3
    <2>3. Steers!TypeOK'
        <3>1. [status |-> "queued", by |-> 0] \in SteerRow
            BY DEF SteerRow
        <3>2. steer' \in [Steer -> SteerRow]
            BY <1>0, <2>2, <3>1
        <3>3. UNCHANGED <<activation, holder, steerWorker, pending, named, buffer, used, lost>>
            BY <2>1 DEF Steers!AppendSteer
        <3>4. Steers!TypeOK
            BY DEF SteersInv
        <3>5. QED
            BY <3>2, <3>3, <3>4 DEF Steers!TypeOK, Steers!Claim, SteerRow
    <2>4. Steers!DeliveredWasTaken' /\ Steers!DeliveredByHolder'
        BY <1>0, <2>1, <2>2 DEF Steers!AppendSteer, SteersInv, Steers!DeliveredWasTaken,
           Steers!DeliveredByHolder, Steers!Claim, Steers!Leased, SteerRow
    <2>5. ASSUME NEW c \in Steers!Claim, Steers!Leased(c)
          PROVE  s \notin pending[c] \cup named[c]
        <3>1. \A t \in pending[c] \cup named[c] :
                 steer[t].status \in {"delivering", "delivered"}
            BY <2>5 DEF SteersInv
        <3>2. steer[s].status = "absent"
            BY <2>1 DEF Steers!AppendSteer
        <3>3. QED
            BY <3>1, <3>2
    <2>6. QED
        BY <1>0, <2>1, <2>2, <2>3, <2>4, <2>5
           DEF Steers!AppendSteer, SteersInv, Steers!Leased, Steers!Claim
<1>4. ASSUME NEW c \in 1..MaxClaims, Steers!Heartbeat(c) \/ Steers!HeartbeatLost(c)
      PROVE  SteersInv'
    <2>1. CASE Steers!Leased(c)
        BY <1>0, <1>4, <2>1, SteersHeartbeat
           DEF Steers!Heartbeat, Steers!HeartbeatLost, Steers!Beats
    <2>2. CASE ~Steers!Leased(c)
        <3>1. Steers!TypeOK'
            BY <1>0, <1>4, <2>2 DEF Steers!Heartbeat, Steers!HeartbeatLost, SteersInv,
               Steers!TypeOK, Steers!Claim
        <3>2. QED
            BY <1>0, <1>4, <2>2, <3>1, SteersOthers
               DEF Steers!Heartbeat, Steers!HeartbeatLost, SteersInv,
                   Steers!Leased, Steers!Claim, Steers!Beats, Steers!DeliveredByHolder
    <2>3. QED
        BY <2>1, <2>2
<1>5. ASSUME NEW c \in 1..MaxClaims, NEW s \in Steer, Steers!PassOn(c, s)
      PROVE  SteersInv'
    <2>1. Steers!TypeOK'
        BY <1>0, <1>5 DEF Steers!PassOn, SteersInv, Steers!TypeOK, Steers!Claim
    <2>2. QED
        BY <1>0, <1>5, <2>1, SteersOthers
           DEF Steers!PassOn, SteersInv, Steers!Leased, Steers!Claim, Steers!Beats,
               Steers!DeliveredByHolder
<1>6. ASSUME NEW c \in 1..MaxClaims,
             Steers!TurnEnds(c) \/ Steers!Complete(c) \/ Steers!Crash(c)
      PROVE  SteersInv'
    <2>1. Steers!TypeOK'
        BY <1>0, <1>6 DEF Steers!TurnEnds, Steers!Complete, Steers!Crash, SteersInv,
           Steers!TypeOK, Steers!Claim
    <2>2. steerWorker[c] # "none" /\ c <= holder
        BY <1>0, <1>6 DEF Steers!TurnEnds, Steers!Complete, Steers!Crash, Steers!Beats,
           SteersInv, Steers!Claim
    <2>3. QED
        BY <1>0, <1>6, <2>1, <2>2, SteersOthers
           DEF Steers!TurnEnds, Steers!Complete, Steers!Crash, SteersInv,
               Steers!Leased, Steers!Claim, Steers!DeliveredByHolder
<1>7. QED
    BY <1>0, <1>1, <1>2, <1>3, <1>4, <1>5, <1>6 DEF Steers!Next, Steers!Claim

\* A step of another part keeps it.
LEMMA SteersStay ==
    ASSUME SteersInv, UNCHANGED steersVars
    PROVE  SteersInv'
BY DEF SteersInv, steersVars, Steers!TypeOK, Steers!DeliveredByHolder,
   Steers!DeliveredWasTaken, Steers!Leased

-----------------------------------------------------------------------------
(* The chats of an agent.                                                  *)

\* A session begins without open calls.
LEMMA TurnInit ==
    ASSUME Turn!Init
    PROVE  TurnInv
<1>1. MaxRounds \in Nat \ {0} /\ MaxCalls \in Nat \ {0} /\ MaxChats \in Nat
    BY WorkersAssumption DEF Turn!AgentTurnAssumption
<1>2. /\ {active, checkpoint} \subseteq [id : Draft, text : BOOLEAN] \cup {Turn!None}
      /\ drafts \in [Draft -> {"none", "streaming", "interrupted"} \cup Turn!Over]
      /\ writes \in [Draft -> Nat]
    BY DEF Turn!Init
<1>3. QED
    <2>1. /\ at = "idle" /\ round = 0 /\ calls = 0 /\ todo = 0 /\ dangling = 0
          /\ asked = 0 /\ compressed = 0 /\ chats = 0 /\ active = Turn!None
        BY DEF Turn!Init
    <2>2. stop \in BOOLEAN /\ interactive \in BOOLEAN
        BY DEF Turn!Init
    <2>3. Turn!TypeOK
        BY <1>1, <1>2, <2>1, <2>2 DEF Turn!TypeOK
    <2>4. QED
        BY <2>1, <2>3 DEF TurnInv, Turn!CallsAnswered, Turn!StopIsSeen

\* What a draft leaves of the variables when it ends.
DraftTypes ==
    /\ {active, checkpoint} \subseteq [id : Draft, text : BOOLEAN] \cup {Turn!None}
    /\ drafts \in [Draft -> {"none", "streaming", "interrupted"} \cup Turn!Over]
    /\ writes \in [Draft -> Nat]

\* The draft that is being written ends, and none is active after it.
LEMMA TurnDraftEnds ==
    ASSUME DraftTypes, NEW how \in Turn!Over \cup {"interrupted"}, Turn!DraftEnds(how)
    PROVE  /\ active' = Turn!None
           /\ drafts' \in [Draft -> {"none", "streaming", "interrupted"} \cup Turn!Over]
<1>1. active = Turn!None \/ active.id \in Draft
    BY DEF DraftTypes
<1>2. QED
    BY <1>1 DEF DraftTypes, Turn!DraftEnds

\* Committing the active draft leaves none active.
LEMMA TurnCommits ==
    ASSUME DraftTypes, Turn!CommitActive, checkpoint' \in {checkpoint, Turn!None}
    PROVE  DraftTypes' /\ active' = Turn!None
<1>1. CASE ~active.text
    BY <1>1, TurnDraftEnds DEF Turn!CommitActive, DraftTypes, Turn!Over
<1>2. CASE active.text /\ Turn!DraftEnds("cancelled") /\ UNCHANGED writes
    BY <1>2, TurnDraftEnds DEF DraftTypes, Turn!Over
<1>3. CASE active.text /\ Turn!DraftEnds("failed") /\ UNCHANGED writes
    BY <1>3, TurnDraftEnds DEF DraftTypes, Turn!Over
<1>4. CASE /\ active.text /\ Turn!DraftEnds("committed")
           /\ writes' = [writes EXCEPT ![active.id] = @ + 1]
    <2>1. writes' \in [Draft -> Nat]
        <3>1. active \in [id : Draft, text : BOOLEAN]
            BY <1>4 DEF DraftTypes, Turn!None
        <3>2. writes \in [Draft -> Nat] /\ active.id \in Draft
            BY <3>1 DEF DraftTypes
        <3>3. QED
            BY <1>4, <3>2
    <2>2. QED
        BY <1>4, <2>1, TurnDraftEnds DEF DraftTypes, Turn!Over
<1>5. QED
    BY <1>1, <1>2, <1>3, <1>4 DEF Turn!CommitActive

\* Every step of the turn keeps the calls it owes answers for counted.
LEMMA TurnNext ==
    ASSUME TurnInv, Turn!Next
    PROVE  TurnInv'
<1>0. /\ TurnInv /\ Turn!TypeOK /\ DraftTypes
      /\ MaxRounds \in Nat \ {0} /\ MaxCalls \in Nat \ {0} /\ MaxChats \in Nat
    BY WorkersAssumption DEF Turn!AgentTurnAssumption, TurnInv, Turn!TypeOK, DraftTypes
<1> USE DEF TurnInv, Turn!TypeOK, Turn!CallsAnswered, Turn!StopIsSeen, Turn!requests
<1>1. CASE Turn!Chat /\ UNCHANGED interactive
    <2>0. at = "idle" /\ chats < MaxChats /\ chats' = chats + 1
        BY <1>1 DEF Turn!Chat
    <2>1. /\ stop' = FALSE /\ dangling' = 0 /\ asked' = 0 /\ compressed' = 0
          /\ UNCHANGED <<calls, todo, checkpoint, drafts, writes, interactive>>
        BY <1>1 DEF Turn!Chat
    <2>5. active = Turn!None /\ chats' \in 0..MaxChats
        BY <1>0, <2>0
    <2>2. \/ at' = "compress" /\ round' = 0 /\ active' = checkpoint
          \/ UNCHANGED <<at, round, active>>
        BY <1>1 DEF Turn!Chat
    <2>3. DraftTypes'
        BY <1>0, <2>1, <2>2 DEF DraftTypes
    <2>4. stop' \in BOOLEAN /\ interactive' \in BOOLEAN
        BY <1>0, <2>1
    <2>6. /\ dangling' = 0 /\ asked' = 0 /\ compressed' = 0
          /\ calls' = calls /\ todo' = todo
        BY <2>1
    <2>7. Turn!TypeOK'
        BY <1>0, <2>0, <2>2, <2>3, <2>4, <2>5, <2>6 DEF DraftTypes
    <2>8. QED
        BY <1>0, <2>0, <2>2, <2>5, <2>6, <2>7
<1>2. CASE Turn!RequestStop /\ UNCHANGED interactive
    BY <1>0, <1>2 DEF Turn!RequestStop, Turn!loop, Turn!draft
<1>3. CASE Turn!Renew /\ UNCHANGED interactive
    BY <1>0, <1>3 DEF Turn!Renew, Turn!loop
<1>4. CASE Turn!Conclude /\ UNCHANGED interactive
    BY <1>0, <1>4 DEF Turn!Conclude, Turn!loop, Turn!draft
<1>5. CASE Turn!Raise /\ UNCHANGED interactive
    BY <1>0, <1>5 DEF Turn!Raise
<1>6. CASE Turn!Stream /\ UNCHANGED interactive
    <2>1. active \in [id : Draft, text : BOOLEAN] /\ active.id \in Draft
        BY <1>0, <1>6 DEF Turn!Stream
    <2>2. /\ active' \in [id : Draft, text : BOOLEAN]
          /\ drafts' \in [Draft -> {"none", "streaming", "interrupted"} \cup Turn!Over]
        BY <1>0, <1>6, <2>1 DEF Turn!Stream
    <2>3. QED
        BY <1>0, <1>6, <2>2 DEF Turn!Stream, Turn!loop
<1>7. CASE Turn!Loop /\ UNCHANGED interactive
    <2>1. CASE Turn!Round \/ Turn!Summarise
        BY <1>0, <1>7, <2>1 DEF Turn!Round, Turn!Summarise, Turn!Asks, Turn!loop, Turn!draft
    <2>2. CASE Turn!Stopped \/ Turn!BudgetExceeded \/ Turn!SummaryInterrupted
        <3>1. PICK how \in Turn!Over : Turn!DraftEnds(how)
            BY <2>2 DEF Turn!Stopped, Turn!BudgetExceeded, Turn!SummaryInterrupted,
               Turn!CancelActive, Turn!Over
        <3>2. DraftTypes' /\ active' = Turn!None
            BY <1>0, <2>2, <3>1, TurnDraftEnds DEF DraftTypes, Turn!Stopped,
               Turn!BudgetExceeded, Turn!SummaryInterrupted, Turn!CancelActive
        <3>3. QED
            BY <1>0, <1>7, <2>2, <3>2 DEF DraftTypes, Turn!Stopped, Turn!BudgetExceeded,
               Turn!SummaryInterrupted, Turn!CancelActive, Turn!Returns
    <2>3. CASE Turn!Interrupted
        <3>1. DraftTypes' /\ active' = Turn!None
            BY <1>0, <2>3, TurnDraftEnds DEF DraftTypes, Turn!Interrupted
        <3>2. QED
            BY <1>0, <1>7, <2>3, <3>1 DEF DraftTypes, Turn!Interrupted, Turn!Returns
    <2>4. CASE Turn!Final \/ Turn!SummaryFinal
        <3>1. DraftTypes' /\ active' = Turn!None
            BY <1>0, <2>4, TurnCommits DEF Turn!Final, Turn!SummaryFinal
        <3>2. QED
            BY <1>0, <1>7, <2>4, <3>1 DEF DraftTypes, Turn!Final, Turn!SummaryFinal,
               Turn!Returns
    <2>5. CASE Turn!Answer \/ Turn!Execute
        BY <1>0, <1>7, <2>5 DEF Turn!Answer, Turn!Execute, Turn!loop, Turn!draft
    <2>6. CASE Turn!Tools
        <3>1. DraftTypes'
            <4>1. CASE UNCHANGED Turn!draft
                BY <1>0, <4>1 DEF DraftTypes, Turn!draft
            <4>2. CASE \E d \in Draft : Turn!Begin(d)
                <5>1. PICK d \in Draft : Turn!Begin(d)
                    BY <4>2
                <5>2. /\ active' \in [id : Draft, text : BOOLEAN]
                      /\ checkpoint' = Turn!None /\ UNCHANGED writes
                      /\ drafts' = [drafts EXCEPT ![d] = "streaming"]
                    BY <5>1 DEF Turn!Begin
                <5>3. QED
                    BY <1>0, <5>2 DEF DraftTypes
            <4>3. QED
                BY <2>6, <4>1, <4>2 DEF Turn!Tools
        <3>2. PICK n \in {1, todo} : todo' = todo - n /\ dangling' = dangling - n
            BY <2>6 DEF Turn!Tools
        <3>3. QED
            BY <1>0, <1>7, <2>6, <3>1, <3>2 DEF DraftTypes, Turn!Tools
    <2>7. CASE Turn!Compress
        <3>1. compressed' \in 0..1 /\ (~stop => compressed' = 0)
            BY <1>0, <2>7 DEF Turn!Compress, Turn!AsksToCompress
        <3>2. QED
            BY <1>0, <1>7, <2>7, <3>1 DEF Turn!Compress, Turn!loop, Turn!draft
    <2>8. QED
        BY <1>7, <2>1, <2>2, <2>3, <2>4, <2>5, <2>6, <2>7 DEF Turn!Loop
<1>8. QED
    BY <1>1, <1>2, <1>3, <1>4, <1>5, <1>6, <1>7 DEF Turn!Next

\* A step of another part keeps it.
LEMMA TurnStays ==
    ASSUME TurnInv, UNCHANGED turnVars
    PROVE  TurnInv'
BY DEF TurnInv, turnVars, Turn!TypeOK, Turn!CallsAnswered, Turn!StopIsSeen

-----------------------------------------------------------------------------
(* The runs of chats inside the server.                                    *)

Statuses == {"absent", "queued", "dispatched", "running"} \cup Chats!Ended

\* What the invariant says of runs and workers, as typed facts.
LEMMA ChatsTypes ==
    ASSUME ChatsInv
    PROVE  /\ MaxEvents \in Nat /\ MaxEvents >= 2 /\ MaxCancels \in Nat /\ NoRun \notin Run
           /\ status \in [Run -> Statuses] /\ cancels \in 0..MaxCancels
           /\ cancelRequests \subseteq {r \in Run : status[r] \in Busy}
           /\ \A w \in Chats!Worker : Execution(w, chatWorker[w])
BY WorkersAssumption
   DEF Chats!SessionRunWorkerAssumption, ChatsInv, Chats!TypeOK, Statuses, Busy

\* A worker without a run is in order.
LEMMA IdleIsExecution ==
    ASSUME NEW w \in Chats!Worker
    PROVE  Execution(w, Chats!Idle)
<1>1. MaxEvents \in Nat /\ MaxEvents >= 2
    BY WorkersAssumption DEF Chats!SessionRunWorkerAssumption
<1>2. Chats!Idle \in WorkerRecord
    BY <1>1 DEF WorkerRecord, Chats!Idle, Chats!Event
<1>3. QED
    BY <1>1, <1>2 DEF Execution, Chats!Idle, Chats!Executing, Chats!Event

\* A record that is an execution keeps the types of the module.
LEMMA ChatsTyped ==
    ASSUME status \in [Run -> Statuses], cancels \in 0..MaxCancels,
           cancelRequests \subseteq {r \in Run : status[r] \in Busy},
           \A w \in Chats!Worker : Execution(w, chatWorker[w])
    PROVE  Chats!TypeOK
BY DEF Statuses, Busy, Execution, WorkerRecord, Chats!TypeOK

\* No chat's run is held in the beginning.
LEMMA ChatsInit ==
    ASSUME Chats!Init
    PROVE  ChatsInv
<1>1. \A w \in Chats!Worker : chatWorker[w] = Chats!Idle
    BY DEF Chats!Init
<1>2. \A w \in Chats!Worker : Execution(w, chatWorker[w])
    BY <1>1, IdleIsExecution
<1>3. /\ status \in [Run -> Statuses] /\ cancels \in 0..MaxCancels
      /\ cancelRequests = {} /\ \A r \in Run : status[r] = "absent"
    BY WorkersAssumption DEF Chats!SessionRunWorkerAssumption, Chats!Init, Statuses
<1>4. Chats!TypeOK
    BY <1>2, <1>3, ChatsTyped
<1>5. chatWorker = [w \in Chats!Worker |-> chatWorker[w]]
    BY DEF Chats!Init
<1>6. \A w \in Chats!Worker : chatWorker[w].run = NoRun
    BY <1>1 DEF Chats!Idle
<1>7. QED
    BY <1>2, <1>3, <1>4, <1>5, <1>6 DEF ChatsInv, Busy

\* A step of one worker: the run that it executes is busy as long as its lease
\* is held, and it takes up another run only without a lease.
LEMMA ChatsBecome ==
    ASSUME ChatsInv, NEW w \in Chats!Worker, NEW x, Execution(w, x), Chats!Becomes(w, x),
           status' \in [Run -> Statuses], cancels' \in 0..MaxCancels,
           cancelRequests' \subseteq {r \in Run : status'[r] \in Busy},
           \A r \in Run : r # x.run => (status'[r] \in Busy <=> status[r] \in Busy),
           x.run # NoRun => (x.lease # "none" <=> status'[x.run] \in Busy),
           x.run = chatWorker[w].run \/ ~Chats!Held(w)
    PROVE  ChatsInv'
<1>0. /\ \A v \in Chats!Worker : Execution(v, chatWorker[v])
      /\ NoRun \notin Run
    BY ChatsTypes
<1>1. /\ chatWorker'[w] = x
      /\ \A v \in Chats!Worker : v # w => chatWorker'[v] = chatWorker[v]
      /\ chatWorker' = [v \in Chats!Worker |-> chatWorker'[v]]
    BY DEF Chats!Becomes, ChatsInv
<1>2. ASSUME NEW v \in Chats!Worker
      PROVE  Execution(v, chatWorker[v])'
    <2>1. Execution(v, chatWorker'[v])
        BY <1>0, <1>1
    <2>2. QED
        BY <2>1
<1>3. Chats!TypeOK'
    BY <1>2 DEF Statuses, Busy, Execution, WorkerRecord, Chats!TypeOK
<1>4. ASSUME NEW v \in Chats!Worker, chatWorker'[v].run # NoRun
      PROVE  Chats!Held(v)' <=> status'[chatWorker'[v].run] \in Busy
    <2>1. CASE v = w
        BY <1>1, <1>4, <2>1 DEF Chats!Held
    <2>2. CASE v # w
        <3>1. PICK s : s = chatWorker[v] /\ s = chatWorker'[v]
            BY <1>1, <2>2
        <3>2. s.run \in Run /\ Chats!WorkerOf(s.run) = v
            <4>1. Execution(v, s) /\ s.run # NoRun
                BY <1>0, <1>4, <3>1
            <4>2. QED
                BY <4>1 DEF Execution, WorkerRecord
        <3>3. s.run # x.run
            BY <2>2, <3>2, <1>0 DEF Execution
        <3>4. s.lease # "none" <=> status[s.run] \in Busy
            BY <1>4, <3>1 DEF ChatsInv, Chats!Held
        <3>5. QED
            BY <3>1, <3>2, <3>3, <3>4 DEF Chats!Held
    <2>3. QED
        BY <2>1, <2>2
<1>5. ASSUME NEW r \in Run, status'[r] \in Busy
      PROVE  chatWorker'[Chats!WorkerOf(r)].run = r
    <2>1. CASE r = x.run
        <3>1. Chats!WorkerOf(r) = w
            BY <1>0, <2>1 DEF Execution
        <3>2. QED
            BY <1>1, <2>1, <3>1
    <2>2. CASE r # x.run
        <3>1. chatWorker[Chats!WorkerOf(r)].run = r /\ status[r] \in Busy
            BY <1>5, <2>2 DEF ChatsInv
        <3>2. Chats!WorkerOf(r) \in Chats!Worker
            BY DEF Chats!WorkerOf, Chats!Worker
        <3>3. Chats!WorkerOf(r) # w
            <4>1. SUFFICES ASSUME Chats!WorkerOf(r) = w PROVE FALSE
                OBVIOUS
            <4>2. chatWorker[w].run = r /\ ~Chats!Held(w)
                BY <2>2, <3>1, <4>1
            <4>3. QED
                BY <1>0, <3>1, <4>2 DEF ChatsInv
        <3>4. QED
            BY <1>1, <3>1, <3>2, <3>3
    <2>3. QED
        BY <2>1, <2>2
<1>6. QED
    BY <1>1, <1>2, <1>3, <1>4, <1>5 DEF ChatsInv, Chats!WorkerOf

\* An execution with one more event, taken by the control plane or not.
LEMMA EmitsOne ==
    ASSUME NEW w, NEW s, Execution(w, s), s.at \notin {"idle", "settled"},
           s.emitted < MaxEvents, NEW taken \in BOOLEAN,
           NEW x, x = Chats!Emits(s, taken)
    PROVE  /\ x \in WorkerRecord /\ x.emitted = s.emitted + 1
           /\ x.delivered \subseteq 1..x.emitted
           /\ x.at = s.at /\ x.run = s.run /\ x.lease = s.lease /\ x.beat = s.beat
           /\ \A e \in Chats!Event : x.stored[e] = IF e \in x.delivered THEN 1 ELSE 0
<1>1. /\ s \in WorkerRecord /\ s.delivered \subseteq 1..s.emitted
      /\ \A e \in Chats!Event : s.stored[e] = IF e \in s.delivered THEN 1 ELSE 0
      /\ MaxEvents \in Nat
    BY WorkersAssumption DEF Execution, Chats!SessionRunWorkerAssumption
<1>2. PICK n : n = s.emitted + 1 /\ n \in Chats!Event /\ n \notin s.delivered
    BY <1>1 DEF WorkerRecord, Chats!Event
<1>3. CASE taken
    <2>1. PICK f : f = [s.stored EXCEPT ![n] = @ + 1]
        OBVIOUS
    <2>2. /\ f \in [Chats!Event -> 0..1]
          /\ \A e \in Chats!Event : f[e] = IF e \in s.delivered \cup {n} THEN 1 ELSE 0
        BY <1>1, <1>2, <2>1 DEF WorkerRecord
    <2>3. x = [s EXCEPT !.emitted = n, !.delivered = s.delivered \cup {n}, !.stored = f]
        BY <1>2, <1>3, <2>1 DEF Chats!Emits
    <2>4. x \in WorkerRecord
        <3>1. s.delivered \cup {n} \in SUBSET Chats!Event /\ n \in 0..MaxEvents
            BY <1>1, <1>2 DEF WorkerRecord, Chats!Event
        <3>2. QED
            BY <1>1, <2>2, <2>3, <3>1 DEF WorkerRecord
    <2>5. /\ x.emitted = n /\ x.delivered = s.delivered \cup {n} /\ x.stored = f
          /\ x.at = s.at /\ x.run = s.run /\ x.lease = s.lease /\ x.beat = s.beat
        BY <1>1, <2>3 DEF WorkerRecord
    <2>6. QED
        BY <1>1, <1>2, <2>2, <2>4, <2>5 DEF WorkerRecord, Chats!Event
<1>4. CASE ~taken
    <2>1. x = [s EXCEPT !.emitted = n]
        BY <1>2, <1>4 DEF Chats!Emits
    <2>2. x \in WorkerRecord
        BY <1>1, <1>2, <2>1 DEF WorkerRecord, Chats!Event
    <2>3. /\ x.emitted = n /\ x.delivered = s.delivered /\ x.stored = s.stored
          /\ x.at = s.at /\ x.run = s.run /\ x.lease = s.lease /\ x.beat = s.beat
        BY <1>1, <2>1 DEF WorkerRecord
    <2>4. QED
        BY <1>1, <1>2, <2>2, <2>3 DEF WorkerRecord, Chats!Event
<1>5. QED
    BY <1>3, <1>4

\* Registering an execution, with its faults, keeps one holder per busy run.
LEMMA ChatsRegister ==
    ASSUME ChatsInv, NEW w \in Chats!Worker, Chats!Register(w)
    PROVE  ChatsInv'
<1>0. /\ MaxEvents \in Nat /\ MaxEvents >= 2 /\ MaxCancels \in Nat /\ NoRun \notin Run
      /\ status \in [Run -> Statuses] /\ cancels \in 0..MaxCancels
      /\ cancelRequests \subseteq {r \in Run : status[r] \in Busy}
      /\ \A v \in Chats!Worker : Execution(v, chatWorker[v])
    BY ChatsTypes
<1>1. PICK s : s = chatWorker[w]
    OBVIOUS
<1>2. /\ Execution(w, s) /\ s.at = "creating" /\ s.emitted = 0
      /\ UNCHANGED <<cancelRequests, cancels>>
    BY <1>0, <1>1 DEF Chats!Register, Execution
<1>3. PICK taken \in Chats!MayTake(w) :
         /\ Chats!Becomes(w, [Chats!Emits(s, taken) EXCEPT !.at = "registered"])
         /\ status' = [status EXCEPT ![s.run] = IF taken THEN "running" ELSE @]
    BY <1>1 DEF Chats!Register
<1>4. taken \in BOOLEAN /\ (taken => Chats!Held(w))
    BY DEF Chats!MayTake
<1>5. PICK y : y = Chats!Emits(s, taken)
    OBVIOUS
<1>6. /\ y \in WorkerRecord /\ y.emitted = 1 /\ y.delivered \subseteq 1..1
      /\ y.run = s.run /\ y.lease = s.lease /\ y.beat = s.beat
      /\ \A e \in Chats!Event : y.stored[e] = IF e \in y.delivered THEN 1 ELSE 0
    BY <1>0, <1>2, <1>4, <1>5, EmitsOne
<1>7. PICK x : x = [y EXCEPT !.at = "registered"]
    OBVIOUS
<1>8. /\ x \in WorkerRecord /\ x.at = "registered" /\ x.emitted = 1
      /\ x.delivered = y.delivered /\ x.stored = y.stored
      /\ x.run = s.run /\ x.lease = s.lease /\ x.beat = s.beat
    BY <1>6, <1>7 DEF WorkerRecord
<1>9. s.run \in Run /\ Chats!WorkerOf(s.run) = w /\ (s.beat => w \in Chats!Beats)
    BY <1>2 DEF Execution, WorkerRecord, Chats!Idle
<1>10. Execution(w, x)
    BY <1>0, <1>6, <1>8, <1>9 DEF Execution, Chats!Executing, Chats!Idle
<1>11. /\ status' \in [Run -> Statuses]
       /\ \A r \in Run : status'[r] \in Busy <=> status[r] \in Busy
    <2>1. taken => status[s.run] \in Busy
        BY <1>0, <1>1, <1>4, <1>9 DEF ChatsInv
    <2>2. QED
        BY <1>0, <1>3, <1>9, <2>1 DEF Busy, Statuses
<1>12. x.lease # "none" <=> status[x.run] \in Busy
    BY <1>0, <1>1, <1>8, <1>9 DEF ChatsInv, Chats!Held
<1>13. /\ Chats!Becomes(w, x) /\ status' \in [Run -> Statuses]
       /\ cancels' \in 0..MaxCancels
       /\ \A r \in Run : status'[r] \in Busy <=> status[r] \in Busy
    BY <1>0, <1>2, <1>3, <1>5, <1>7, <1>11
<1>14. cancelRequests' \subseteq {r \in Run : status'[r] \in Busy}
    BY <1>0, <1>2, <1>11
<1>15. (x.lease # "none" <=> status'[x.run] \in Busy) /\ x.run = chatWorker[w].run
    BY <1>1, <1>8, <1>9, <1>11, <1>12
<1>16. QED
    BY <1>10, <1>13, <1>14, <1>15, ChatsBecome

\* Steps of a worker that leave the runs as they are and its lease with it.
LEMMA ChatsGoOn ==
    ASSUME ChatsInv, NEW w \in Chats!Worker, NEW x, Execution(w, x), Chats!Becomes(w, x),
           UNCHANGED <<status, cancelRequests, cancels>>,
           \/ /\ x.run = chatWorker[w].run
              /\ x.lease # "none" <=> chatWorker[w].lease # "none"
           \/ x = Chats!Idle /\ chatWorker[w].lease = "none"
    PROVE  ChatsInv'
<1>0. /\ status \in [Run -> Statuses] /\ cancels \in 0..MaxCancels
      /\ cancelRequests \subseteq {r \in Run : status[r] \in Busy}
    BY ChatsTypes
<1>1. x.run # NoRun => (x.lease # "none" <=> status[x.run] \in Busy)
    BY DEF ChatsInv, Chats!Held, Chats!Idle
<1>2. x.run = chatWorker[w].run \/ ~Chats!Held(w)
    BY DEF Chats!Held
<1>3. QED
    BY <1>0, <1>1, <1>2, ChatsBecome

\* The agent is at work: rounds, and the end of its chat.
LEMMA ChatsWork ==
    ASSUME ChatsInv, NEW w \in Chats!Worker,
           Chats!Round(w) \/ Chats!ChatEnds(w) \/ Chats!CreateFails(w)
    PROVE  ChatsInv'
<1>0. MaxEvents \in Nat /\ MaxEvents >= 2 /\ \A v \in Chats!Worker : Execution(v, chatWorker[v])
    BY ChatsTypes
<1>1. PICK s : s = chatWorker[w] /\ Execution(w, s)
    BY <1>0
<1>2. s.at \in {"creating", "chatting"} /\ s.emitted < MaxEvents
      /\ UNCHANGED <<status, cancelRequests, cancels>>
    <2>1. s.at \in {"creating", "chatting"} /\ UNCHANGED <<status, cancelRequests, cancels>>
        BY <1>1 DEF Chats!Round, Chats!ChatEnds, Chats!CreateFails
    <2>2. s.emitted < MaxEvents
        BY <1>0, <1>1, <2>1 DEF Execution, Chats!Executing
    <2>3. QED
        BY <2>1, <2>2
<1>3. PICK taken \in BOOLEAN, result \in {"completed", "failed", "blocked"} :
         \/ Chats!Becomes(w, Chats!Returns(Chats!Emits(s, taken), result))
         \/ /\ s.at = "chatting" /\ s.emitted < MaxEvents - 1
            /\ Chats!Becomes(w, Chats!Emits(s, taken))
    BY <1>1 DEF Chats!Round, Chats!ChatEnds, Chats!CreateFails, Chats!MayTake
<1>4. PICK y : y = Chats!Emits(s, taken)
    OBVIOUS
<1>5. /\ y \in WorkerRecord /\ y.emitted = s.emitted + 1
      /\ y.delivered \subseteq 1..y.emitted
      /\ y.at = s.at /\ y.run = s.run /\ y.lease = s.lease /\ y.beat = s.beat
      /\ \A e \in Chats!Event : y.stored[e] = IF e \in y.delivered THEN 1 ELSE 0
    BY <1>1, <1>2, <1>4, EmitsOne
<1>6. s.run \in Run /\ Chats!WorkerOf(s.run) = w /\ (s.beat => w \in Chats!Beats)
    BY <1>1, <1>2 DEF Execution, WorkerRecord, Chats!Idle
<1>7. CASE s.at = "chatting" /\ s.emitted < MaxEvents - 1 /\ Chats!Becomes(w, y)
    <2>1. y.emitted < MaxEvents
        BY <1>0, <1>1, <1>5, <1>7 DEF Execution, WorkerRecord
    <2>2. Execution(w, y)
        BY <1>0, <1>5, <1>6, <1>7, <2>1, WorkersAssumption
           DEF Execution, Chats!Executing, Chats!Idle, Chats!SessionRunWorkerAssumption
    <2>3. QED
        BY <1>1, <1>2, <1>5, <1>7, <2>2, ChatsGoOn
<1>8. CASE Chats!Becomes(w, Chats!Returns(y, result))
    <2>1. PICK x : x = Chats!Returns(y, result)
        OBVIOUS
    <2>2. /\ x \in WorkerRecord /\ x.at = "returned" /\ x.result = result /\ x.beat = FALSE
          /\ x.emitted = y.emitted /\ x.delivered = y.delivered /\ x.stored = y.stored
          /\ x.run = s.run /\ x.lease = s.lease
        BY <1>5, <2>1 DEF WorkerRecord, Chats!Returns
    <2>3. Execution(w, x)
        BY <1>5, <1>6, <2>2, WorkersAssumption
           DEF Execution, Chats!Executing, Chats!Idle, Chats!SessionRunWorkerAssumption
    <2>4. QED
        BY <1>1, <1>2, <1>8, <2>1, <2>2, <2>3, ChatsGoOn
<1>9. QED
    BY <1>3, <1>4, <1>7, <1>8

\* The completion stores what was not taken before.
LEMMA ChatsComplete ==
    ASSUME ChatsInv, NEW w \in Chats!Worker, Chats!Complete(w)
    PROVE  ChatsInv'
<1>0. /\ MaxEvents \in Nat /\ MaxEvents >= 2 /\ MaxCancels \in Nat /\ NoRun \notin Run
      /\ status \in [Run -> Statuses] /\ cancels \in 0..MaxCancels
      /\ cancelRequests \subseteq {r \in Run : status[r] \in Busy}
      /\ \A v \in Chats!Worker : Execution(v, chatWorker[v])
    BY ChatsTypes
<1>1. PICK s : s = chatWorker[w] /\ Execution(w, s)
    BY <1>0
<1>2. s.at = "returned" /\ UNCHANGED cancels
    BY <1>1 DEF Chats!Complete
<1>3. CASE ~Chats!Held(w)
    <2>1. Chats!Becomes(w, Chats!Idle) /\ UNCHANGED <<status, cancelRequests>>
        BY <1>1, <1>3 DEF Chats!Complete
    <2>2. QED
        BY <1>1, <1>2, <1>3, <2>1, IdleIsExecution, ChatsGoOn DEF Chats!Held
<1>4. CASE Chats!Held(w)
    <2>1. PICK f : f = [e \in Chats!Event |->
                    s.stored[e] + IF e \in (1..s.emitted) \ s.delivered THEN 1 ELSE 0]
        OBVIOUS
    <2>2. PICK x : x = [s EXCEPT !.at = "settled", !.lease = "none", !.stored = f]
        OBVIOUS
    <2>3. /\ status' = [status EXCEPT ![s.run] = s.result]
          /\ cancelRequests' = cancelRequests \ {s.run} /\ Chats!Becomes(w, x)
        BY <1>1, <1>4, <2>1, <2>2 DEF Chats!Complete
    <2>4. s \in WorkerRecord /\ s.run \in Run /\ Chats!WorkerOf(s.run) = w
        BY <1>1, <1>2 DEF Execution, WorkerRecord, Chats!Idle
    <2>5. /\ f \in [Chats!Event -> 0..1]
          /\ \A e \in Chats!Event : f[e] = IF e \in 1..s.emitted THEN 1 ELSE 0
        <3>1. /\ s.delivered \subseteq 1..s.emitted
              /\ \A e \in Chats!Event : s.stored[e] = IF e \in s.delivered THEN 1 ELSE 0
            BY <1>1, <1>2 DEF Execution
        <3>2. ASSUME NEW e \in Chats!Event
              PROVE  f[e] = IF e \in 1..s.emitted THEN 1 ELSE 0
            BY <2>1, <3>1
        <3>3. f = [e \in Chats!Event |-> f[e]]
            BY <2>1
        <3>4. QED
            BY <3>2, <3>3
    <2>6. /\ x \in WorkerRecord /\ x.at = "settled" /\ x.lease = "none" /\ x.stored = f
          /\ x.emitted = s.emitted /\ x.delivered = s.delivered /\ x.run = s.run
          /\ x.beat = s.beat /\ x.result = s.result
        BY <2>2, <2>4, <2>5 DEF WorkerRecord
    <2>7. Execution(w, x)
        BY <1>0, <1>1, <2>4, <2>5, <2>6 DEF Execution, Chats!Executing, Chats!Idle
    <2>8. s.result \in Chats!Ended /\ s.result \notin Busy
        BY <1>1, <1>2, <2>4 DEF Execution, WorkerRecord, Chats!Ended, Busy
    <2>9. /\ status' \in [Run -> Statuses] /\ status'[s.run] \notin Busy
          /\ \A r \in Run : r # s.run => (status'[r] \in Busy <=> status[r] \in Busy)
        BY <1>0, <2>3, <2>4, <2>8 DEF Statuses
    <2>10. cancelRequests' \subseteq {r \in Run : status'[r] \in Busy}
        BY <1>0, <2>3, <2>9
    <2>11. QED
        BY <1>0, <1>1, <1>2, <2>3, <2>6, <2>7, <2>9, <2>10, ChatsBecome
<1>5. QED
    BY <1>3, <1>4

\* The execution s with other marks: its lease, its heartbeats and its stop.
Remarked(s, x) ==
    /\ x \in WorkerRecord /\ (x.beat => s.beat)
    /\ s.at = "settled" => x.lease = "none"
    /\ x.at = s.at /\ x.run = s.run /\ x.again = s.again /\ x.emitted = s.emitted
    /\ x.delivered = s.delivered /\ x.stored = s.stored /\ x.result = s.result

\* What the lease and heartbeat of an execution become leaves it at its run.
LEMMA Marked ==
    ASSUME NEW w \in Chats!Worker, NEW s, Execution(w, s), s.run # NoRun,
           NEW x, Remarked(s, x)
    PROVE  Execution(w, x) /\ x.run = s.run
<1>1. x # Chats!Idle /\ s # Chats!Idle
    BY DEF Remarked, Chats!Idle, Execution
<1>2. QED
    BY <1>1 DEF Remarked, Execution

\* So does a heartbeat, which passes cancels on to the workers.
LEMMA ChatsHeartbeat ==
    ASSUME ChatsInv, NEW w \in Chats!Worker, Chats!Heartbeat(w)
    PROVE  ChatsInv'
<1>0. /\ status \in [Run -> Statuses] /\ cancels \in 0..MaxCancels /\ NoRun \notin Run
      /\ cancelRequests \subseteq {r \in Run : status[r] \in Busy}
      /\ \A v \in Chats!Worker : Execution(v, chatWorker[v])
    BY ChatsTypes
<1>1. PICK s : s = chatWorker[w] /\ Execution(w, s) /\ s \in WorkerRecord
    BY <1>0 DEF Execution
<1>2. s.beat /\ s.run # NoRun /\ UNCHANGED <<cancelRequests, cancels>>
    BY <1>1 DEF Chats!Heartbeat, Execution, Chats!Idle
<1>3. s.run \in Run
    BY <1>1, <1>2 DEF WorkerRecord
<1>4. PICK x : /\ Chats!Becomes(w, x) /\ Remarked(s, x)
               /\ x.lease # "none" <=> Chats!Held(w)
    <2>1. PICK t : t = IF Chats!Held(w) THEN [s EXCEPT !.lease = "live"] ELSE s
        OBVIOUS
    <2>2. /\ t \in WorkerRecord /\ t.beat = s.beat /\ t.at = s.at /\ t.run = s.run
          /\ t.again = s.again /\ t.emitted = s.emitted /\ t.delivered = s.delivered
          /\ t.stored = s.stored /\ t.result = s.result
          /\ t.lease # "none" <=> Chats!Held(w)
        BY <1>1, <2>1 DEF WorkerRecord, Chats!Held
    <2>3. s.at = "settled" => t.lease = "none"
        BY <1>1, <2>2 DEF Execution, Chats!Held
    <2>4. \/ Chats!Becomes(w, Chats!Stopped(t))
          \/ Chats!Becomes(w, t)
          \/ Chats!Becomes(w, [t EXCEPT !.beat = FALSE])
        BY <1>1, <2>1 DEF Chats!Heartbeat
    <2>5. CASE Chats!Becomes(w, Chats!Stopped(t))
        <3>1. PICK x : x = Chats!Stopped(t)
            OBVIOUS
        <3>2. Remarked(s, x) /\ x.lease = t.lease
            BY <2>2, <2>3, <3>1 DEF Chats!Stopped, Remarked, WorkerRecord
        <3>3. QED
            BY <2>2, <2>5, <3>1, <3>2
    <2>6. CASE Chats!Becomes(w, t)
        BY <2>2, <2>3, <2>6 DEF Remarked
    <2>7. CASE Chats!Becomes(w, [t EXCEPT !.beat = FALSE])
        <3>1. PICK x : x = [t EXCEPT !.beat = FALSE]
            OBVIOUS
        <3>2. Remarked(s, x) /\ x.lease = t.lease
            BY <2>2, <2>3, <3>1 DEF Remarked, WorkerRecord
        <3>3. QED
            BY <2>2, <2>7, <3>1, <3>2
    <2>8. QED
        BY <2>4, <2>5, <2>6, <2>7
<1>6. Execution(w, x) /\ x.run = s.run
    BY <1>1, <1>2, <1>4, Marked
<1>7. /\ status' \in [Run -> Statuses]
      /\ \A r \in Run : status'[r] \in Busy <=> status[r] \in Busy
    <2>1. status' = status \/ status' = [status EXCEPT ![s.run] =
                                            IF @ = "dispatched" THEN "running" ELSE @]
        BY <1>1 DEF Chats!Heartbeat
    <2>2. QED
        BY <1>0, <1>3, <2>1 DEF Busy, Statuses
<1>8. x.lease # "none" <=> status[x.run] \in Busy
    BY <1>1, <1>2, <1>4, <1>6 DEF ChatsInv
<1>9. QED
    BY <1>0, <1>1, <1>2, <1>3, <1>4, <1>6, <1>7, <1>8, ChatsBecome

\* Steps that only mark an execution, begin a chat, or end it without a completion.
LEMMA ChatsMark ==
    ASSUME ChatsInv, NEW w \in Chats!Worker,
           \/ Chats!ChatStart(w) \/ Chats!ChatAgain(w) \/ Chats!Finalize(w)
           \/ Chats!WorkerDies(w) \/ Chats!HeartbeatDies(w) \/ Chats!Lapse(w)
    PROVE  ChatsInv'
<1>0. /\ NoRun \notin Run /\ \A v \in Chats!Worker : Execution(v, chatWorker[v])
    BY ChatsTypes
<1>1. PICK s : s = chatWorker[w] /\ Execution(w, s) /\ s \in WorkerRecord
    BY <1>0 DEF Execution
<1>2. UNCHANGED <<status, cancelRequests, cancels>>
    BY DEF Chats!ChatStart, Chats!ChatAgain, Chats!Finalize, Chats!WorkerDies,
       Chats!HeartbeatDies, Chats!Lapse
<1>3. CASE Chats!ChatStart(w) \/ Chats!ChatAgain(w) \/ Chats!WorkerDies(w)
    <2>0. PICK t \in {"chatting", "registered", "dead"}, b \in BOOLEAN, c \in BOOLEAN :
             /\ Chats!Becomes(w, [s EXCEPT !.at = t, !.stop = b, !.again = c])
             /\ s.at \in IF t = "dead" THEN {"returned"} ELSE Chats!Executing
        <3>1. CASE Chats!ChatStart(w)
            <4>1. [s EXCEPT !.at = "chatting", !.stop = FALSE]
                    = [s EXCEPT !.at = "chatting", !.stop = FALSE, !.again = s.again]
                BY <1>1 DEF WorkerRecord
            <4>2. s.again \in BOOLEAN /\ s.at \in Chats!Executing
                BY <1>1, <3>1 DEF WorkerRecord, Chats!ChatStart, Chats!Executing
            <4>3. QED
                BY <1>1, <3>1, <4>1, <4>2 DEF Chats!ChatStart
        <3>2. CASE Chats!ChatAgain(w)
            <4>1. [s EXCEPT !.at = "registered", !.again = TRUE]
                    = [s EXCEPT !.at = "registered", !.stop = s.stop, !.again = TRUE]
                BY <1>1 DEF WorkerRecord
            <4>2. s.stop \in BOOLEAN /\ s.at \in Chats!Executing
                BY <1>1, <3>2 DEF WorkerRecord, Chats!ChatAgain, Chats!Executing
            <4>3. QED
                BY <1>1, <3>2, <4>1, <4>2 DEF Chats!ChatAgain
        <3>3. CASE Chats!WorkerDies(w)
            <4>1. [s EXCEPT !.at = "dead"]
                    = [s EXCEPT !.at = "dead", !.stop = s.stop, !.again = s.again]
                BY <1>1 DEF WorkerRecord
            <4>2. s.stop \in BOOLEAN /\ s.again \in BOOLEAN /\ s.at = "returned"
                BY <1>1, <3>3 DEF WorkerRecord, Chats!WorkerDies
            <4>3. QED
                BY <1>1, <3>3, <4>1, <4>2 DEF Chats!WorkerDies
        <3>4. QED
            BY <1>3, <3>1, <3>2, <3>3
    <2>1. PICK x : /\ x = [s EXCEPT !.at = t, !.stop = b, !.again = c] /\ Chats!Becomes(w, x)
                   /\ s.at \in IF t = "dead" THEN {"returned"} ELSE Chats!Executing
        BY <2>0
    <2>2. /\ x \in WorkerRecord /\ x.at = t /\ x.stored = s.stored /\ x.lease = s.lease
          /\ x.emitted = s.emitted /\ x.delivered = s.delivered /\ x.run = s.run
          /\ x.beat = s.beat
        <3>1. s \in WorkerRecord /\ x = [s EXCEPT !.at = t, !.stop = b, !.again = c]
            BY <1>1, <2>1
        <3>2. x \in WorkerRecord
            BY <3>1 DEF WorkerRecord
        <3>3. QED
            BY <3>1, <3>2 DEF WorkerRecord
    <2>3. s.run # NoRun
        BY <1>1, <2>1 DEF Execution, Chats!Idle, Chats!Executing
    <2>4. Execution(w, x)
        <3>1. s # Chats!Idle /\ x # Chats!Idle
            BY <2>2, <2>3 DEF Chats!Idle, Execution
        <3>2. /\ Chats!WorkerOf(s.run) = w /\ (s.beat => w \in Chats!Beats)
              /\ s.delivered \subseteq 1..s.emitted
              /\ s.at \in Chats!Executing => s.emitted < MaxEvents
            BY <1>1, <2>3 DEF Execution
        <3>3. s.at # "settled" /\ t \in {"chatting", "registered", "dead"}
            BY <2>1 DEF Chats!Executing
        <3>4. t \in Chats!Executing => s.at \in Chats!Executing
            BY <2>1 DEF Chats!Executing
        <3>5. \A e \in Chats!Event : s.stored[e] = IF e \in s.delivered THEN 1 ELSE 0
            BY <1>1, <3>3 DEF Execution
        <3>6. QED
            BY <2>2, <2>3, <3>1, <3>2, <3>3, <3>4, <3>5 DEF Execution
    <2>5. QED
        BY <1>1, <1>2, <2>1, <2>2, <2>4, ChatsGoOn
<1>4. CASE Chats!Finalize(w)
    <2>1. Chats!Becomes(w, Chats!Idle) /\ s.lease = "none"
        BY <1>1, <1>4 DEF Chats!Finalize, Execution
    <2>2. QED
        BY <1>1, <1>2, <2>1, IdleIsExecution, ChatsGoOn
<1>5. CASE Chats!HeartbeatDies(w) \/ Chats!Lapse(w)
    <2>1. PICK x : /\ \/ x = [s EXCEPT !.beat = FALSE] /\ s.beat
                      \/ x = [s EXCEPT !.lease = "lapsed"] /\ s.lease = "live"
                   /\ Chats!Becomes(w, x)
        <3>1. CASE Chats!HeartbeatDies(w)
            BY <1>1, <3>1 DEF Chats!HeartbeatDies
        <3>2. CASE Chats!Lapse(w)
            BY <1>1, <3>2 DEF Chats!Lapse
        <3>3. QED
            BY <1>5, <3>1, <3>2
    <2>2. s.run # NoRun /\ (s.at = "settled" => s.lease = "none")
        BY <1>1, <2>1 DEF Execution, Chats!Idle
    <2>3. Remarked(s, x) /\ (x.lease # "none" <=> s.lease # "none")
        <3>1. CASE x = [s EXCEPT !.beat = FALSE] /\ s.beat
            BY <1>1, <2>2, <3>1 DEF Remarked, WorkerRecord
        <3>2. CASE x = [s EXCEPT !.lease = "lapsed"] /\ s.lease = "live"
            BY <1>1, <2>1, <2>2, <3>2 DEF Remarked, WorkerRecord
        <3>3. QED
            BY <2>1, <3>1, <3>2
    <2>4. Execution(w, x) /\ x.run = s.run
        BY <1>1, <2>2, <2>3, Marked
    <2>5. QED
        BY <1>1, <1>2, <2>1, <2>3, <2>4, ChatsGoOn
<1>6. QED
    BY <1>3, <1>4, <1>5

\* A worker takes a run of its own; a recovery takes it back.
LEMMA ChatsClaim ==
    ASSUME ChatsInv, NEW w \in Chats!Worker, NEW r \in Run, Chats!Claim(w, r)
    PROVE  ChatsInv'
<1>0. /\ MaxEvents \in Nat /\ MaxEvents >= 2 /\ NoRun \notin Run
      /\ status \in [Run -> Statuses] /\ cancels \in 0..MaxCancels
      /\ cancelRequests \subseteq {q \in Run : status[q] \in Busy}
      /\ \A v \in Chats!Worker : Execution(v, chatWorker[v])
    BY ChatsTypes
<1>1. /\ chatWorker[w] = Chats!Idle /\ status[r] = "queued" /\ Chats!WorkerOf(r) = w
      /\ status' = [status EXCEPT ![r] = "dispatched"]
      /\ UNCHANGED <<cancelRequests, cancels>>
    BY <1>0 DEF Chats!Claim, Execution
<1>2. PICK x : /\ x = [Chats!Idle EXCEPT !.at = "creating", !.run = r, !.lease = "live",
                                         !.beat = w \in Chats!Beats]
               /\ Chats!Becomes(w, x)
    BY DEF Chats!Claim
<1>3. PICK b : b = (w \in Chats!Beats)
    OBVIOUS
<1>4. x = [at |-> "creating", run |-> r, lease |-> "live", beat |-> b, stop |-> FALSE,
           again |-> FALSE, emitted |-> 0, delivered |-> {},
           stored |-> [e \in Chats!Event |-> 0], result |-> "none"]
    BY <1>2, <1>3 DEF Chats!Idle
<1>5. b \in BOOLEAN /\ (b => w \in Chats!Beats)
    <2>1. CASE w \in Chats!Beats
        <3>1. b = TRUE
            BY <1>3, <2>1
        <3>2. QED
            BY <2>1, <3>1
    <2>2. CASE w \notin Chats!Beats
        <3>1. b \in BOOLEAN
            BY <1>3, <2>2
        <3>2. ~b
            BY <1>3, <2>2
        <3>3. QED
            BY <3>1, <3>2
    <2>3. QED
        BY <2>1, <2>2
<1>6. Execution(w, x)
    <2>1. x \in WorkerRecord
        BY <1>0, <1>4, <1>5 DEF WorkerRecord
    <2>2. QED
        BY <1>0, <1>1, <1>4, <1>5, <2>1 DEF Execution, Chats!Idle, Chats!Executing
<1>7. ~Chats!Held(w)
    BY <1>1 DEF Chats!Held, Chats!Idle
<1>8. /\ status' \in [Run -> Statuses] /\ status'[r] \in Busy
      /\ \A q \in Run : q # r => (status'[q] \in Busy <=> status[q] \in Busy)
      /\ cancelRequests' \subseteq {q \in Run : status'[q] \in Busy}
    BY <1>0, <1>1 DEF Statuses, Busy
<1>9. x.run = r /\ x.lease # "none"
    BY <1>4
<1>10. QED
    BY <1>0, <1>1, <1>2, <1>6, <1>7, <1>8, <1>9, ChatsBecome

\* So does the recovery of a run whose lease lapsed.
LEMMA ChatsRecover ==
    ASSUME ChatsInv, NEW w \in Chats!Worker, Chats!Recover(w)
    PROVE  ChatsInv'
<1>0. /\ NoRun \notin Run /\ status \in [Run -> Statuses] /\ cancels \in 0..MaxCancels
      /\ cancelRequests \subseteq {q \in Run : status[q] \in Busy}
      /\ \A v \in Chats!Worker : Execution(v, chatWorker[v])
    BY ChatsTypes
<1>1. PICK s : s = chatWorker[w] /\ Execution(w, s) /\ s \in WorkerRecord
    BY <1>0 DEF Execution
<1>2. s.lease = "lapsed" /\ UNCHANGED cancels
    BY <1>1 DEF Chats!Recover
<1>3. s.run # NoRun /\ s.run \in Run /\ s.stop \in BOOLEAN /\ s.beat \in BOOLEAN
    BY <1>1, <1>2 DEF Execution, Chats!Idle, WorkerRecord
<1>4. status[s.run] \in Busy
    BY <1>1, <1>2, <1>3 DEF ChatsInv, Chats!Held
<1>5. /\ status' = [status EXCEPT ![s.run] = "queued"]
      /\ cancelRequests' = cancelRequests \ {s.run}
    BY <1>1, <1>4 DEF Chats!Recover, Busy
<1>6. PICK x : x = [s EXCEPT !.lease = "none"]
    OBVIOUS
<1>7. Chats!Becomes(w, x)
    BY <1>1, <1>6 DEF Chats!Recover
<1>8. Execution(w, x) /\ x.run = s.run /\ x.lease = "none"
    <2>1. Remarked(s, x) /\ x.lease = "none"
        BY <1>1, <1>6 DEF Remarked, WorkerRecord
    <2>2. QED
        BY <1>1, <1>3, <2>1, Marked
<1>9. /\ status' \in [Run -> Statuses] /\ status'[s.run] \notin Busy
      /\ \A q \in Run : q # s.run => (status'[q] \in Busy <=> status[q] \in Busy)
      /\ cancelRequests' \subseteq {q \in Run : status'[q] \in Busy}
    BY <1>0, <1>3, <1>5 DEF Statuses, Busy
<1>10. QED
    BY <1>0, <1>1, <1>2, <1>7, <1>8, <1>9, ChatsBecome

\* The message of a chat, a cancellation and a stop: a run that stops being busy
\* has no lease any more.
LEMMA ChatsDecide ==
    ASSUME ChatsInv, NEW r \in Run,
           Chats!Submit(r) \/ Chats!Cancel(r) \/ Chats!StopActivation(r)
    PROVE  ChatsInv'
<1>0. /\ NoRun \notin Run /\ status \in [Run -> Statuses] /\ cancels \in 0..MaxCancels
      /\ MaxCancels \in Nat
      /\ cancelRequests \subseteq {q \in Run : status[q] \in Busy}
      /\ \A v \in Chats!Worker : Execution(v, chatWorker[v])
      /\ chatWorker = [v \in Chats!Worker |-> chatWorker[v]]
    BY ChatsTypes DEF ChatsInv
<1>1. cancels' \in 0..MaxCancels
    BY <1>0 DEF Chats!Submit, Chats!Cancel, Chats!StopActivation
<1>2. CASE UNCHANGED <<status, chatWorker>> /\ status[r] \in Busy
           /\ cancelRequests' = cancelRequests \cup {r}
    <2>1. cancelRequests' \subseteq {q \in Run : status'[q] \in Busy}
        BY <1>0, <1>2
    <2>2. Chats!TypeOK'
        BY <1>0, <1>1, <1>2, <2>1 DEF Statuses, Busy, Execution, WorkerRecord, Chats!TypeOK
    <2>3. QED
        BY <1>2, <2>2 DEF ChatsInv, Chats!Held
<1>3. CASE /\ cancelRequests' \subseteq cancelRequests \ {r}
           /\ status' \in [Run -> Statuses] /\ status'[r] \notin Busy
           /\ \A q \in Run : q # r => status'[q] = status[q]
           /\ \/ chatWorker' = chatWorker /\ status[r] \notin Busy
              \/ Chats!ClearClaims(r)
    <2>1. ASSUME NEW v \in Chats!Worker, NEW s, s = chatWorker[v], NEW x, x = chatWorker'[v]
          PROVE  /\ Execution(v, x) /\ x.run = s.run
                 /\ s.run = r => x.lease = "none"
                 /\ s.run # r => x = s
        <3>1. Execution(v, s) /\ s \in WorkerRecord
            BY <1>0, <2>1 DEF Execution
        <3>2. CASE s.run # r
            BY <1>3, <2>1, <3>1, <3>2 DEF Chats!ClearClaims
        <3>3. CASE s.run = r
            <4>1. CASE chatWorker' = chatWorker /\ status[r] \notin Busy
                <5>1. x = s /\ s.run # NoRun
                    BY <1>0, <2>1, <3>3, <4>1
                <5>2. s.lease = "none"
                    BY <2>1, <3>3, <4>1, <5>1 DEF ChatsInv, Chats!Held
                <5>3. QED
                    BY <3>1, <5>1, <5>2
            <4>2. CASE Chats!ClearClaims(r)
                <5>1. x = [s EXCEPT !.lease = "none"]
                    BY <2>1, <3>3, <4>2 DEF Chats!ClearClaims
                <5>2. Remarked(s, x) /\ x.lease = "none"
                    BY <3>1, <5>1 DEF Remarked, WorkerRecord
                <5>3. QED
                    BY <1>0, <3>1, <3>3, <5>2, Marked
            <4>3. QED
                BY <1>3, <4>1, <4>2
        <3>4. QED
            BY <3>2, <3>3
    <2>2. chatWorker' = [v \in Chats!Worker |-> chatWorker'[v]]
        BY <1>0, <1>3 DEF Chats!ClearClaims
    <2>3. \A v \in Chats!Worker : Execution(v, chatWorker'[v])
        BY <2>1
    <2>4. cancelRequests' \subseteq {q \in Run : status'[q] \in Busy}
        BY <1>0, <1>3
    <2>5. Chats!TypeOK'
        BY <1>1, <1>3, <2>3, <2>4 DEF Statuses, Busy, Execution, WorkerRecord, Chats!TypeOK
    <2>6. ASSUME NEW v \in Chats!Worker, chatWorker'[v].run # NoRun
          PROVE  Chats!Held(v)' <=> status'[chatWorker'[v].run] \in Busy
        <3>1. PICK s, x : s = chatWorker[v] /\ x = chatWorker'[v]
            OBVIOUS
        <3>2. /\ x.run = s.run /\ (s.run = r => x.lease = "none") /\ (s.run # r => x = s)
              /\ Execution(v, s) /\ s.run # NoRun
            BY <1>0, <2>1, <2>6, <3>1
        <3>3. s.run \in Run
            BY <3>2 DEF Execution, WorkerRecord
        <3>4. s.lease # "none" <=> status[s.run] \in Busy
            BY <3>1, <3>2 DEF ChatsInv, Chats!Held
        <3>5. x.lease # "none" <=> status'[x.run] \in Busy
            BY <1>3, <3>2, <3>3, <3>4
        <3>6. QED
            BY <3>1, <3>5 DEF Chats!Held
    <2>7. ASSUME NEW q \in Run, status'[q] \in Busy
          PROVE  chatWorker'[Chats!WorkerOf(q)].run = q
        <3>1. chatWorker[Chats!WorkerOf(q)].run = q
            BY <1>3, <2>7 DEF ChatsInv
        <3>2. Chats!WorkerOf(q) \in Chats!Worker
            BY DEF Chats!WorkerOf, Chats!Worker
        <3>3. QED
            BY <2>1, <3>1, <3>2
    <2>8. QED
        BY <2>2, <2>3, <2>5, <2>6, <2>7 DEF ChatsInv, Chats!WorkerOf
<1>4. CASE Chats!Submit(r)
    <2>1. /\ status[r] \notin Busy /\ status' = [status EXCEPT ![r] = "queued"]
          /\ cancelRequests' = cancelRequests /\ chatWorker' = chatWorker
        BY <1>4 DEF Chats!Submit, Busy
    <2>2. r \notin cancelRequests
        BY <1>0, <2>1
    <2>3. QED
        BY <1>0, <1>3, <2>1, <2>2 DEF Statuses, Busy
<1>5. CASE Chats!Cancel(r)
    <2>1. \/ /\ status' = [status EXCEPT ![r] = "cancelled"] /\ Chats!ClearClaims(r)
             /\ cancelRequests' = cancelRequests \ {r}
          \/ /\ status[r] \in Busy /\ cancelRequests' = cancelRequests \cup {r}
             /\ UNCHANGED <<status, chatWorker>>
        BY <1>5 DEF Chats!Cancel, Busy
    <2>2. QED
        BY <1>0, <1>2, <1>3, <2>1 DEF Statuses, Busy, Chats!Ended
<1>6. CASE Chats!StopActivation(r)
    <2>1. /\ status' = [status EXCEPT ![r] = "completed"] /\ Chats!ClearClaims(r)
          /\ cancelRequests' = cancelRequests \ {r}
        BY <1>6 DEF Chats!StopActivation
    <2>2. QED
        BY <1>0, <1>3, <2>1 DEF Statuses, Busy, Chats!Ended
<1>7. QED
    BY <1>4, <1>5, <1>6

\* Every step of the chat workers keeps their invariant.
LEMMA ChatsNext ==
    ASSUME ChatsInv, Chats!Next
    PROVE  ChatsInv'
<1>1. CASE \E r \in Run : Chats!Submit(r) \/ Chats!Cancel(r) \/ Chats!StopActivation(r)
    BY <1>1, ChatsDecide
<1>2. ASSUME NEW w \in Chats!Worker,
             \/ Chats!Thread(w) \/ Chats!CreateFails(w) \/ Chats!Round(w)
             \/ Chats!ChatAgain(w) \/ Chats!WorkerDies(w) \/ Chats!Heartbeat(w)
             \/ Chats!HeartbeatDies(w) \/ Chats!Lapse(w) \/ Chats!Recover(w)
      PROVE  ChatsInv'
    <2>1. CASE Chats!Thread(w)
        BY <2>1, ChatsClaim, ChatsRegister, ChatsMark, ChatsWork, ChatsComplete
           DEF Chats!Thread
    <2>2. CASE Chats!CreateFails(w) \/ Chats!Round(w)
        BY <2>2, ChatsWork
    <2>3. CASE Chats!ChatAgain(w) \/ Chats!WorkerDies(w) \/ Chats!HeartbeatDies(w)
               \/ Chats!Lapse(w)
        BY <2>3, ChatsMark
    <2>4. CASE Chats!Heartbeat(w) \/ Chats!Recover(w)
        BY <2>4, ChatsHeartbeat, ChatsRecover
    <2>5. QED
        BY <1>2, <2>1, <2>2, <2>3, <2>4
<1>3. QED
    BY <1>1, <1>2 DEF Chats!Next

\* A step of another part keeps it.
LEMMA ChatsStay ==
    ASSUME ChatsInv, UNCHANGED chatsVars
    PROVE  ChatsInv'
BY DEF ChatsInv, chatsVars, Chats!TypeOK, Chats!Held

\* A run that ended keeps its status or is queued again.
Keeps == \A r \in Run : status[r] \in Chats!Ended => status'[r] \in {status[r], "queued"}

\* A worker moves the run of its claim only while it has the lease, and then the
\* run is busy: what the session decided meanwhile, which takes the lease, stays.
LEMMA DecisionKept ==
    ASSUME ChatsInv, Chats!Next \/ UNCHANGED chatsVars
    PROVE  Keeps
<1>0. status \in [Run -> Statuses]
    BY ChatsTypes
<1>1. CASE UNCHANGED status
    BY <1>1 DEF Keeps
<1>2. ASSUME NEW q \in Run, NEW x, status' = [status EXCEPT ![q] = x],
             status[q] \notin Chats!Ended \/ x \in {status[q], "queued"}
      PROVE  Keeps
    BY <1>0, <1>2 DEF Keeps
<1>3. CASE \E r \in Run : Chats!Submit(r) \/ Chats!Cancel(r) \/ Chats!StopActivation(r)
    <2>1. PICK r \in Run : Chats!Submit(r) \/ Chats!Cancel(r) \/ Chats!StopActivation(r)
        BY <1>3
    <2>2. CASE Chats!Submit(r)
        BY <1>2, <2>2 DEF Chats!Submit
    <2>3. CASE Chats!Cancel(r)
        <3>1. CASE UNCHANGED status
            BY <1>1, <3>1
        <3>2. CASE status[r] = "queued" /\ status' = [status EXCEPT ![r] = "cancelled"]
            BY <1>2, <3>2 DEF Chats!Ended
        <3>3. QED
            BY <2>3, <3>1, <3>2 DEF Chats!Cancel
    <2>4. CASE Chats!StopActivation(r)
        <3>1. /\ status[r] \in {"queued", "dispatched", "running"}
              /\ status' = [status EXCEPT ![r] = "completed"]
            BY <2>4 DEF Chats!StopActivation
        <3>2. status[r] \notin Chats!Ended
            BY <3>1 DEF Chats!Ended
        <3>3. QED
            BY <1>2, <3>1, <3>2
    <2>5. QED
        BY <2>1, <2>2, <2>3, <2>4
<1>4. ASSUME NEW w \in Chats!Worker,
             \/ Chats!Thread(w) \/ Chats!CreateFails(w) \/ Chats!Round(w)
             \/ Chats!ChatAgain(w) \/ Chats!WorkerDies(w) \/ Chats!Heartbeat(w)
             \/ Chats!HeartbeatDies(w) \/ Chats!Lapse(w) \/ Chats!Recover(w)
      PROVE  Keeps
    <2>0. PICK q : q = chatWorker[w].run
        OBVIOUS
    <2>1. ASSUME chatWorker[w] # Chats!Idle
          PROVE  q \in Run
        BY <2>0, <2>1, ChatsTypes DEF Execution, WorkerRecord
    <2>2. ASSUME Chats!Held(w)
          PROVE  q \in Run /\ status[q] \notin Chats!Ended
        <3>1. chatWorker[w] # Chats!Idle
            BY <2>2 DEF Chats!Held, Chats!Idle
        <3>2. q \in Run /\ q # NoRun
            BY <2>1, <3>1, ChatsTypes
        <3>3. status[q] \in Busy
            BY <2>0, <2>2, <3>2 DEF ChatsInv
        <3>4. QED
            BY <3>2, <3>3 DEF Busy, Chats!Ended
    <2>3. CASE \/ Chats!ChatStart(w) \/ Chats!ChatEnds(w) \/ Chats!Finalize(w)
               \/ Chats!CreateFails(w) \/ Chats!Round(w) \/ Chats!ChatAgain(w)
               \/ Chats!WorkerDies(w) \/ Chats!HeartbeatDies(w) \/ Chats!Lapse(w)
        BY <1>1, <2>3 DEF Chats!ChatStart, Chats!ChatEnds, Chats!Finalize,
           Chats!CreateFails, Chats!Round, Chats!ChatAgain, Chats!WorkerDies,
           Chats!HeartbeatDies, Chats!Lapse
    <2>4. CASE \E r \in Run : Chats!Claim(w, r)
        <3>1. PICK r \in Run : status[r] = "queued" /\
                               status' = [status EXCEPT ![r] = "dispatched"]
            BY <2>4 DEF Chats!Claim
        <3>2. QED
            BY <1>2, <3>1 DEF Chats!Ended
    <2>5. CASE Chats!Register(w)
        <3>1. chatWorker[w].at = "creating"
            BY <2>5 DEF Chats!Register
        <3>2. q \in Run
            BY <2>1, <3>1 DEF Chats!Idle
        <3>3. PICK taken \in Chats!MayTake(w) :
                  status' = [status EXCEPT ![q] = IF taken THEN "running" ELSE @]
            BY <2>0, <2>5 DEF Chats!Register
        <3>4. CASE taken
            <4>1. Chats!Held(w)
                BY <3>3, <3>4 DEF Chats!MayTake
            <4>2. status' = [status EXCEPT ![q] = "running"]
                BY <3>3, <3>4
            <4>3. QED
                BY <1>2, <2>2, <4>1, <4>2
        <3>5. CASE ~taken
            BY <1>2, <3>2, <3>3, <3>5
        <3>6. QED
            BY <3>4, <3>5
    <2>6. CASE Chats!Complete(w)
        <3>1. CASE ~Chats!Held(w)
            BY <1>1, <2>6, <3>1 DEF Chats!Complete
        <3>2. CASE Chats!Held(w)
            <4>1. status' = [status EXCEPT ![q] = chatWorker[w].result]
                BY <2>0, <2>6, <3>2 DEF Chats!Complete
            <4>2. QED
                BY <1>2, <2>2, <3>2, <4>1
        <3>3. QED
            BY <3>1, <3>2
    <2>7. CASE Chats!Heartbeat(w)
        <3>1. CASE ~Chats!Held(w)
            BY <1>1, <2>7, <3>1 DEF Chats!Heartbeat
        <3>2. CASE Chats!Held(w)
            <4>1. PICK x : status' = [status EXCEPT ![q] = x]
                BY <2>0, <2>7, <3>2 DEF Chats!Heartbeat
            <4>2. QED
                BY <1>2, <2>2, <3>2, <4>1
        <3>3. QED
            BY <3>1, <3>2
    <2>8. CASE Chats!Recover(w)
        <3>1. Chats!Held(w)
            BY <2>8 DEF Chats!Recover, Chats!Held
        <3>2. PICK x : status' = [status EXCEPT ![q] = x]
            BY <2>0, <2>8 DEF Chats!Recover
        <3>3. QED
            BY <1>2, <2>2, <3>1, <3>2
    <2>9. QED
        BY <1>4, <2>3, <2>4, <2>5, <2>6, <2>7, <2>8 DEF Chats!Thread
<1>5. QED
    BY <1>1, <1>3, <1>4 DEF Chats!Next, chatsVars

\* What the invariant says of the executions: each event of an accepted one is
\* stored once, and a busy run is held by the worker that it belongs to.
LEMMA ChatsEvents ==
    ASSUME ChatsInv
    PROVE  Chats!EventsOnce
<1>1. ASSUME NEW w \in Chats!Worker, NEW e \in Chats!Event
      PROVE  /\ chatWorker[w].stored[e] <= 1
             /\ chatWorker[w].at = "settled" =>
                  chatWorker[w].stored[e] = IF e <= chatWorker[w].emitted THEN 1 ELSE 0
    BY <1>1, ChatsTypes DEF Execution, WorkerRecord, Chats!Event
<1>2. QED
    BY <1>1 DEF Chats!EventsOnce

\* The invariant gives a busy run its one holder.
LEMMA OneIsHeld ==
    ASSUME ChatsInv
    PROVE  Chats!BusyIsHeld
<1>1. ASSUME NEW r \in Run, status[r] \in Busy
      PROVE  Chats!Cardinality({w \in Chats!Worker : chatWorker[w].run = r /\ Chats!Held(w)})
                = 1
    <2>1. PICK v : v = Chats!WorkerOf(r) /\ v \in Chats!Worker
        BY DEF Chats!WorkerOf, Chats!Worker
    <2>2. chatWorker[v].run = r /\ r # NoRun
        BY <1>1, <2>1, ChatsTypes DEF ChatsInv
    <2>3. Chats!Held(v)
        BY <1>1, <2>1, <2>2 DEF ChatsInv
    <2>4. ASSUME NEW w \in Chats!Worker, chatWorker[w].run = r
          PROVE  w = v
        BY <2>1, <2>2, <2>4, ChatsTypes DEF Execution
    <2>5. {w \in Chats!Worker : chatWorker[w].run = r /\ Chats!Held(w)} = {v}
        BY <2>1, <2>2, <2>3, <2>4
    <2>6. Cardinality({v}) = 1
        BY FS_Singleton
    <2>7. Chats!Cardinality({v}) = Cardinality({v})
        BY DEF Chats!Cardinality, Cardinality
    <2>8. QED
        BY <2>5, <2>6, <2>7
<1>2. QED
    BY <1>1 DEF Chats!BusyIsHeld, Busy

-----------------------------------------------------------------------------
(* The events of an executor.                                              *)

\* No event exists in the beginning.
LEMMA EventsInit ==
    ASSUME Events!Init
    PROVE  EventsInv
<1>1. NEvents \in Nat /\ ChannelSize \in Nat \ {0}
    BY WorkersAssumption DEF Events!BoundAssumption
<1>2. /\ produced = 0 /\ executor = "running" /\ channel = << >> /\ sending = 0
      /\ replay = {} /\ abandoned = {} /\ givenUp = {} /\ dropped = {}
      /\ eventWorker = "sending" /\ log = [e \in 1..NEvents |-> 0]
    BY DEF Events!Init, Events!Event
<1>3. cancelled \in BOOLEAN /\ claim \in BOOLEAN
    BY DEF Events!Init
<1>4. EventsTypes
    BY <1>1, <1>2, <1>3 DEF EventsTypes
<1>5. Queued = {} /\ QueuedOnce
    BY <1>2 DEF Queued, QueuedOnce
<1>6. \A e \in 1..NEvents : Count(e)
    BY <1>1, <1>2, <1>5 DEF Count
<1>7. QED
    BY <1>1, <1>2, <1>4, <1>5, <1>6 DEF EventsInv, Places

\* A step of an executor that is not at its end: the channel and the request.
LEMMA EventsEmit ==
    ASSUME EventsInv, Events!Emit
    PROVE  EventsInv'
<1>0. EventsTypes /\ QueuedOnce /\ Places /\ \A e \in 1..NEvents : Count(e)
    BY DEF EventsInv
<1>1. /\ eventWorker = "sending" /\ produced < NEvents /\ produced' = produced + 1
      /\ UNCHANGED <<executor, sending, replay, abandoned, eventWorker, log, givenUp>>
    BY DEF Events!Emit, EventsInv
<1>2. UNCHANGED <<cancelled, claim>>
    BY DEF Events!Emit
<1>3. PICK p : p = produced + 1 /\ p \in 1..NEvents
    BY <1>0, <1>1 DEF EventsTypes
<1>4. p \notin Queued \cup {sending} \cup replay \cup dropped /\ log[p] = 0
    BY <1>0, <1>3 DEF EventsTypes, Places, Count
<1>5. /\ EventsTypes' /\ QueuedOnce'
      /\ \/ Queued' = Queued \cup {p} /\ dropped' = dropped
         \/ Queued' = Queued /\ dropped' = dropped \cup {p}
    <2>1. CASE Len(channel) < ChannelSize /\ channel' = Append(channel, p) /\ UNCHANGED dropped
        <3>1. /\ channel' \in Seq(1..NEvents) /\ Len(channel') = Len(channel) + 1
              /\ \A i \in 1..Len(channel) : channel'[i] = channel[i]
              /\ channel'[Len(channel) + 1] = p /\ Len(channel) \in Nat
            BY <1>0, <1>3, <2>1 DEF EventsTypes
        <3>2. Queued' = Queued \cup {p}
            BY <3>1 DEF Queued
        <3>3. \A i \in 1..Len(channel) : channel[i] # p
            BY <1>4 DEF Queued
        <3>4. QueuedOnce'
            BY <1>0, <3>1, <3>3 DEF QueuedOnce
        <3>5. EventsTypes'
            BY <1>0, <1>1, <1>2, <2>1, <3>1 DEF EventsTypes
        <3>6. QED
            BY <2>1, <3>2, <3>4, <3>5
    <2>2. CASE dropped' = dropped \cup {p} /\ UNCHANGED channel
        <3>1. EventsTypes'
            BY <1>0, <1>1, <1>2, <1>3, <2>2 DEF EventsTypes
        <3>2. QED
            BY <1>0, <2>2, <3>1 DEF Queued, QueuedOnce
    <2>3. QED
        BY <1>3, <2>1, <2>2 DEF Events!Emit
<1>6. Places'
    BY <1>0, <1>1, <1>3, <1>4, <1>5 DEF EventsTypes, Places
<1>7. ASSUME NEW e \in 1..NEvents
      PROVE  Count(e)'
    <2>1. e > produced' => e > produced
        BY <1>0, <1>1 DEF EventsTypes
    <2>2. e = p \/ (e > produced => e > produced')
        BY <1>0, <1>1, <1>3 DEF EventsTypes
    <2>3. QED
        BY <1>0, <1>1, <1>2, <1>4, <1>5, <2>1, <2>2 DEF Count
<1>8. QED
    BY <1>1, <1>5, <1>6, <1>7 DEF EventsInv

\* Taking the next event for a live request keeps every event in one place.
LEMMA EventsSend ==
    ASSUME EventsInv, Events!Send
    PROVE  EventsInv'
<1>0. EventsTypes /\ QueuedOnce /\ Places /\ \A e \in 1..NEvents : Count(e)
    BY DEF EventsInv
<1>1. /\ eventWorker = "sending" /\ sending = 0 /\ channel # << >>
      /\ sending' = Head(channel) /\ channel' = Tail(channel)
      /\ UNCHANGED <<produced, executor, replay, abandoned, dropped, eventWorker,
                     log, givenUp>>
    BY DEF Events!Send
<1>2. UNCHANGED <<cancelled, claim>>
    BY DEF Events!Send
<1>3. /\ sending' = channel[1] /\ Len(channel) \in Nat /\ Len(channel) >= 1
      /\ channel' \in Seq(1..NEvents) /\ Len(channel') = Len(channel) - 1
      /\ \A i \in 1..(Len(channel) - 1) : channel'[i] = channel[i + 1]
    BY <1>0, <1>1 DEF EventsTypes
<1>4. EventsTypes'
    BY <1>0, <1>1, <1>2, <1>3 DEF EventsTypes
<1>5. QueuedOnce'
    BY <1>0, <1>3 DEF QueuedOnce
<1>6. /\ Queued = Queued' \cup {sending'} /\ sending' \notin Queued'
    <2>1. ASSUME NEW i \in 1..Len(channel)
          PROVE  channel[i] \in Queued' \cup {sending'}
        <3>1. i # 1 => i - 1 \in 1..Len(channel') /\ channel'[i - 1] = channel[i]
            BY <1>3
        <3>2. QED
            BY <1>3, <3>1 DEF Queued
    <2>2. ASSUME NEW i \in 1..Len(channel')
          PROVE  channel'[i] \in Queued /\ channel'[i] # sending'
        <3>1. i + 1 \in 1..Len(channel) /\ i + 1 # 1 /\ 1 \in 1..Len(channel)
            BY <1>3
        <3>2. channel'[i] = channel[i + 1]
            BY <1>3
        <3>3. QED
            BY <1>0, <1>3, <3>1, <3>2 DEF Queued, QueuedOnce
    <2>3. sending' \in Queued
        BY <1>3 DEF Queued
    <2>4. QED
        BY <2>1, <2>2, <2>3 DEF Queued
<1>7. Places'
    BY <1>0, <1>1, <1>6 DEF EventsTypes, Places
<1>8. \A e \in 1..NEvents : Count(e)'
    BY <1>0, <1>1, <1>2, <1>6 DEF Count
<1>9. QED
    BY <1>1, <1>4, <1>5, <1>7, <1>8 DEF EventsInv

\* So does the end of the request: answered, timed out, late or rejected.
LEMMA EventsSent ==
    ASSUME EventsInv, Events!SendAnswered \/ Events!SendFails
    PROVE  EventsInv'
<1>0. EventsTypes /\ QueuedOnce /\ Places /\ \A e \in 1..NEvents : Count(e)
    BY DEF EventsInv
<1>1. /\ sending # 0 /\ sending' = 0
      /\ UNCHANGED <<produced, executor, channel, dropped, eventWorker>>
    BY DEF Events!SendAnswered, Events!SendFails
<1>2. UNCHANGED <<cancelled, claim>>
    BY DEF Events!SendAnswered, Events!SendFails
<1>3. /\ sending \in 1..NEvents /\ eventWorker = "sending" /\ log[sending] = 0
      /\ sending \notin Queued \cup replay \cup givenUp
    BY <1>0, <1>1 DEF EventsTypes, EventsInv, Places, Count
<1>4. Queued' = Queued /\ QueuedOnce'
    BY <1>0, <1>1 DEF Queued, QueuedOnce
<1>5. 0 \notin Queued \cup replay
    BY <1>0 DEF EventsTypes, Places
<1>6. CASE Events!SendAnswered
    <2>1. /\ claim /\ UNCHANGED <<replay, abandoned, givenUp>>
          /\ log' = [e \in 1..NEvents |-> log[e] + IF e = sending THEN 1 ELSE 0]
        BY <1>6 DEF Events!SendAnswered, Events!Written, Events!Event
    <2>2. \A e \in 1..NEvents : log'[e] = IF e = sending THEN 1 ELSE log[e]
        <3>1. log \in [1..NEvents -> 0..2] /\ log[sending] = 0
            BY <1>0, <1>3 DEF EventsTypes
        <3>2. ASSUME NEW e \in 1..NEvents
              PROVE  log'[e] = IF e = sending THEN 1 ELSE log[e]
            <4>1. PICK x \in 0..2 : x = log[e]
                BY <3>1
            <4>2. log'[e] = x + IF e = sending THEN 1 ELSE 0
                BY <2>1, <4>1
            <4>3. QED
                BY <3>1, <4>1, <4>2
        <3>3. QED
            BY <3>2
    <2>3. EventsTypes'
        <3>1. log' \in [1..NEvents -> 0..2]
            BY <1>0, <2>1, <2>2 DEF EventsTypes
        <3>2. QED
            BY <1>0, <1>1, <1>2, <2>1, <3>1 DEF EventsTypes
    <2>4. Places'
        BY <1>0, <1>1, <1>4, <1>5, <2>1 DEF EventsTypes, Places
    <2>5. ASSUME NEW e \in 1..NEvents
          PROVE  Count(e)'
        <3>1. e = sending => ~(e > produced)
            BY <1>0, <1>3 DEF EventsTypes, Places
        <3>2. QED
            BY <1>0, <1>1, <1>2, <1>3, <1>4, <2>1, <2>2, <3>1 DEF Count
    <2>6. QED
        BY <1>1, <1>3, <1>4, <2>3, <2>4, <2>5 DEF EventsInv
<1>7. CASE Events!SendFails
    <2>1. /\ replay' = replay \cup {sending} /\ UNCHANGED log
          /\ \/ UNCHANGED <<abandoned, givenUp>>
             \/ /\ abandoned' = abandoned \cup {sending}
                /\ givenUp' = givenUp \cup {sending}
        BY <1>7 DEF Events!SendFails, Events!Keep
    <2>2. EventsTypes' /\ Places'
        <3>1. CASE UNCHANGED <<abandoned, givenUp>>
            <4>1. EventsTypes'
                BY <1>0, <1>1, <1>2, <1>3, <2>1, <3>1 DEF EventsTypes
            <4>2. Places'
                BY <1>0, <1>1, <1>3, <1>4, <1>5, <2>1, <3>1 DEF EventsTypes, Places
            <4>3. QED
                BY <4>1, <4>2
        <3>2. CASE /\ abandoned' = abandoned \cup {sending}
                   /\ givenUp' = givenUp \cup {sending}
            <4>1. EventsTypes'
                BY <1>0, <1>1, <1>2, <1>3, <2>1, <3>2 DEF EventsTypes
            <4>2. Places'
                BY <1>0, <1>1, <1>3, <1>4, <1>5, <2>1, <3>2 DEF EventsTypes, Places
            <4>3. QED
                BY <4>1, <4>2
        <3>3. QED
            BY <2>1, <3>1, <3>2
    <2>4. ASSUME NEW e \in 1..NEvents
          PROVE  Count(e)'
        BY <1>0, <1>1, <1>2, <1>3, <1>4, <2>1 DEF Count
    <2>5. QED
        BY <1>1, <1>3, <1>4, <2>2, <2>4 DEF EventsInv
<1>8. QED
    BY <1>6, <1>7

\* The completion, whether its worker learns of it or not.
LEMMA EventsComplete ==
    ASSUME EventsInv, Events!CompleteAnswered \/ Events!CompleteFails
    PROVE  EventsInv'
<1>0. EventsTypes /\ QueuedOnce /\ Places /\ \A e \in 1..NEvents : Count(e)
    BY DEF EventsInv
<1>1. /\ eventWorker = "completing" /\ eventWorker' \in {"completed", "failed"}
      /\ UNCHANGED <<produced, executor, channel, sending, replay, abandoned, dropped,
                     givenUp>>
      /\ eventWorker' = "completed" => claim /\ ~claim' /\ log' = Events!Written(replay)
      /\ \/ claim /\ ~claim' /\ log' = Events!Written(replay)
         \/ UNCHANGED log
    BY DEF Events!CompleteAnswered, Events!CompleteFails
<1>2. cancelled' \in BOOLEAN /\ claim' \in BOOLEAN /\ (claim' => claim)
    <2>1. claim \in BOOLEAN /\ cancelled \in BOOLEAN
        BY <1>0 DEF EventsTypes
    <2>2. CASE Events!CompleteAnswered
        BY <2>1, <2>2 DEF Events!CompleteAnswered
    <2>3. CASE Events!CompleteFails
        <3>1. (claim' = claim \/ claim' = FALSE) /\ cancelled' = cancelled
            BY <2>3 DEF Events!CompleteFails
        <3>2. CASE claim' = claim
            BY <2>1, <3>1, <3>2
        <3>3. CASE claim' = FALSE
            BY <2>1, <3>1, <3>3
        <3>4. QED
            BY <3>1, <3>2, <3>3
    <2>4. QED
        BY <2>2, <2>3
<1>3. executor = "ended" /\ channel = << >> /\ sending = 0
    BY <1>1 DEF EventsInv
<1>4. Queued = {} /\ Queued' = {} /\ QueuedOnce'
    BY <1>1, <1>3 DEF Queued, QueuedOnce
<1>5. Places'
    BY <1>0, <1>1, <1>4 DEF Places
<1>6. CASE claim /\ ~claim' /\ log' = Events!Written(replay)
    <2>1. \A e \in 1..NEvents : log'[e] = log[e] + IF e \in replay THEN 1 ELSE 0
        BY <1>6 DEF Events!Written, Events!Event
    <2>2. \A e \in 1..NEvents : log[e] \in 0..2 /\ Count(e)
        BY <1>0 DEF EventsTypes
    <2>3. \A e \in 1..NEvents : log'[e] \in 0..2
        BY <1>6, <2>1, <2>2 DEF Count
    <2>4. EventsTypes'
        <3>1. log' \in [1..NEvents -> 0..2]
            BY <1>6, <2>3 DEF Events!Written, Events!Event
        <3>2. QED
            BY <1>0, <1>1, <1>2, <3>1 DEF EventsTypes
    <2>5. ASSUME NEW e \in 1..NEvents
          PROVE  Count(e)'
        <3>1. e > produced => e \notin replay
            BY <1>0 DEF EventsTypes, Places
        <3>2. QED
            BY <1>1, <1>3, <1>4, <1>6, <2>1, <2>2, <3>1 DEF Count
    <2>6. ASSUME NEW e \in 1..produced
          PROVE  log'[e] > 0 \/ e \in dropped
        <3>1. e \in 1..NEvents /\ ~(e > produced) /\ e # 0
            BY <1>0 DEF EventsTypes
        <3>2. QED
            BY <1>3, <1>4, <2>1, <2>2, <3>1 DEF Count
    <2>7. QED
        BY <1>1, <1>3, <1>4, <1>5, <1>6, <2>4, <2>5, <2>6 DEF EventsInv
<1>7. CASE UNCHANGED log /\ eventWorker' = "failed"
    <2>1. EventsTypes'
        BY <1>0, <1>1, <1>2, <1>7 DEF EventsTypes
    <2>2. \A e \in 1..NEvents : Count(e)'
        BY <1>0, <1>1, <1>2, <1>3, <1>4, <1>7 DEF Count
    <2>3. QED
        BY <1>1, <1>3, <1>4, <1>5, <1>7, <2>1, <2>2 DEF EventsInv
<1>8. QED
    BY <1>1, <1>6, <1>7

\* A request that was given up is executed after all.
LEMMA EventsLate ==
    ASSUME EventsInv, NEW e \in 1..NEvents, Events!LateWrite(e)
    PROVE  EventsInv'
<1>0. EventsTypes /\ QueuedOnce /\ Places /\ \A f \in 1..NEvents : Count(f)
    BY DEF EventsInv
<1>1. /\ e \in abandoned /\ abandoned' = abandoned \ {e}
      /\ UNCHANGED <<produced, executor, channel, sending, replay, dropped,
                     eventWorker, givenUp>>
      /\ log' = IF claim THEN Events!Written({e}) ELSE log
    BY DEF Events!LateWrite
<1>2. UNCHANGED <<cancelled, claim>>
    BY DEF Events!LateWrite
<1>3. e \in replay /\ e \in givenUp
    BY <1>0, <1>1 DEF EventsTypes, Places
<1>4. \A f \in 1..NEvents : log'[f] = IF claim /\ f = e THEN 1 ELSE log[f]
    <2>1. claim => log[e] = 0
        BY <1>0, <1>1, <1>3 DEF Count
    <2>2. QED
        BY <1>0, <1>1, <2>1 DEF Events!Written, Events!Event, EventsTypes
<1>5. EventsTypes'
    <2>1. DOMAIN log' = 1..NEvents /\ log' = [f \in 1..NEvents |-> log'[f]]
        BY <1>0, <1>1 DEF Events!Written, Events!Event, EventsTypes
    <2>2. log' \in [1..NEvents -> 0..2]
        BY <1>0, <1>4, <2>1 DEF EventsTypes
    <2>3. QED
        BY <1>0, <1>1, <1>2, <2>2 DEF EventsTypes
<1>6. Queued' = Queued /\ QueuedOnce'
    BY <1>0, <1>1 DEF Queued, QueuedOnce
<1>7. Places'
    BY <1>0, <1>1, <1>6 DEF Places
<1>8. ASSUME NEW f \in 1..NEvents
      PROVE  Count(f)'
    <2>1. e \notin Queued \cup {sending} /\ ~(e > produced)
        BY <1>0, <1>3 DEF EventsTypes, Places
    <2>2. QED
        BY <1>0, <1>1, <1>2, <1>3, <1>4, <1>6, <2>1 DEF Count
<1>9. /\ eventWorker' # "sending" => executor' = "ended" /\ channel' = << >> /\ sending' = 0
      /\ eventWorker' = "completed" =>
            ~claim' /\ \A f \in 1..produced' : log'[f] > 0 \/ f \in dropped'
    BY <1>1, <1>2 DEF EventsInv
<1>10. QED
    BY <1>5, <1>6, <1>7, <1>8, <1>9 DEF EventsInv

\* Every step of the events keeps their invariant.
LEMMA EventsNext ==
    ASSUME EventsInv, Events!Next
    PROVE  EventsInv'
<1>0. EventsTypes /\ QueuedOnce /\ Places /\ \A e \in 1..NEvents : Count(e)
    BY DEF EventsInv
<1>1. CASE \/ Events!ExecutorEnds \/ Events!LoopEnds \/ Events!CancelRequested
           \/ Events!ClaimExpires
    <2>1. /\ UNCHANGED <<produced, channel, sending, replay, abandoned, dropped, log, givenUp>>
          /\ executor' \in {executor, "ended"}
          /\ \/ eventWorker' = eventWorker
             \/ /\ eventWorker' = "completing" /\ executor' = "ended"
                /\ channel = << >> /\ sending = 0
        BY <1>1 DEF Events!ExecutorEnds, Events!LoopEnds, Events!CancelRequested,
           Events!ClaimExpires
    <2>2. claim' \in BOOLEAN /\ cancelled' \in BOOLEAN /\ (claim' => claim)
        <3>1. claim \in BOOLEAN /\ cancelled \in BOOLEAN
            BY <1>0 DEF EventsTypes
        <3>2. CASE Events!ExecutorEnds
            BY <3>1, <3>2 DEF Events!ExecutorEnds
        <3>3. CASE Events!LoopEnds
            BY <3>1, <3>3 DEF Events!LoopEnds
        <3>4. CASE Events!CancelRequested
            BY <3>1, <3>4 DEF Events!CancelRequested
        <3>5. CASE Events!ClaimExpires
            BY <3>1, <3>5 DEF Events!ClaimExpires
        <3>6. QED
            BY <1>1, <3>2, <3>3, <3>4, <3>5
    <2>3. EventsTypes'
        BY <1>0, <2>1, <2>2 DEF EventsTypes
    <2>4. Queued' = Queued /\ QueuedOnce'
        BY <1>0, <2>1 DEF Queued, QueuedOnce
    <2>5. Places' /\ \A e \in 1..NEvents : Count(e)'
        BY <1>0, <2>1, <2>2, <2>4 DEF Places, Count
    <2>6. QED
        BY <2>1, <2>2, <2>3, <2>4, <2>5 DEF EventsInv
<1>2. CASE \E e \in Events!Event : Events!LateWrite(e)
    BY <1>2, EventsLate DEF Events!Event
<1>3. QED
    BY <1>1, <1>2, EventsEmit, EventsSend, EventsSent, EventsComplete DEF Events!Next

\* A step of another part keeps it.
LEMMA EventsStay ==
    ASSUME EventsInv, UNCHANGED eventsVars
    PROVE  EventsInv'
BY DEF EventsInv, eventsVars, EventsTypes, Queued, QueuedOnce, Places, Count

\* What the invariant says of the log.
LEMMA EventsAreThere ==
    ASSUME EventsInv
    PROVE  Events!TypeOK /\ Events!NothingLost /\ Events!TwiceOnlyIfGivenUp
BY DEF EventsInv, EventsTypes, Events!TypeOK, Events!NothingLost, Events!TwiceOnlyIfGivenUp,
       Places, Count, Events!Event

-----------------------------------------------------------------------------
(* The stream of a model's response.                                       *)

\* What a step of the provider, of the writer and of the reader makes of frames
\* in order.
LEMMA TokenAppended ==
    ASSUME NEW k \in Nat, NEW W \in Seq(Stream!Frame), NEW Q \in Seq(Stream!Frame),
           NEW m \in Nat, InOrder(k, W, Q, m, "streaming")
    PROVE  InOrder(k, W, Append(Q, [kind |-> "token", n |-> m + 1]), m + 1, "streaming")
<1>1. PICK f, R : f = [kind |-> "token", n |-> m + 1] /\ R = Append(Q, f)
    OBVIOUS
<1>2. /\ f.kind = "token" /\ f.n = m + 1 /\ Len(R) = Len(Q) + 1 /\ Len(Q) \in Nat
      /\ Len(W) \in Nat /\ R[Len(Q) + 1] = f /\ \A i \in 1..Len(Q) : R[i] = Q[i]
    BY <1>1
<1>3. m = k + Len(W) + Len(Q)
    BY DEF InOrder
<1>4. W # << >> => Follows(W[1], k + 1, m + 1, "streaming") /\ W[1].kind = "token"
    BY DEF InOrder, Follows
<1>5. ASSUME NEW i \in 1..Len(R)
      PROVE  Follows(R[i], k + Len(W) + i, m + 1, "streaming") /\ R[i].kind = "token"
    <2>1. CASE i = Len(Q) + 1
        BY <1>2, <1>3, <2>1 DEF Follows
    <2>2. CASE i \in 1..Len(Q)
        BY <1>2, <2>2 DEF InOrder, Follows
    <2>3. QED
        BY <1>2, <2>1, <2>2
<1>6. m + 1 = k + Len(W) + Len(R)
    BY <1>2, <1>3
<1>7. InOrder(k, W, R, m + 1, "streaming")
    BY <1>4, <1>5, <1>6 DEF InOrder
<1>8. QED
    BY <1>1, <1>7

\* Frames in order stay in order when the provider ends, whatever it had made.
LEMMA StreamCut ==
    ASSUME NEW k \in Nat, NEW W \in Seq(Stream!Frame), NEW Q \in Seq(Stream!Frame),
           NEW m \in Nat, InOrder(k, W, Q, m, "streaming"), NEW n \in Nat
    PROVE  InOrder(k, W, Q, n, "ended")
<1>1. W # << >> => W[1].kind = "token" /\ W[1].n = k + 1
    BY DEF InOrder, Follows
<1>2. \A i \in 1..Len(Q) : Q[i].kind = "token" /\ Q[i].n = k + Len(W) + i
    BY DEF InOrder, Follows
<1>3. QED
    BY <1>1, <1>2 DEF InOrder, Follows

\* A terminal frame may follow where the provider has ended.
LEMMA TerminalAppended ==
    ASSUME NEW k \in Nat, NEW W \in Seq(Stream!Frame), NEW Q \in Seq(Stream!Frame),
           NEW m \in Nat, InOrder(k, W, Q, m, "streaming"), NEW kind \in Stream!Terminal
    PROVE  InOrder(k, W, Append(Q, [kind |-> kind, n |-> 0]), m, "ended")
<1>1. PICK f, R : f = [kind |-> kind, n |-> 0] /\ R = Append(Q, f)
    OBVIOUS
<1>2. /\ f.kind = kind /\ f.kind # "token" /\ Len(R) = Len(Q) + 1 /\ Len(Q) \in Nat
      /\ Len(W) \in Nat /\ R[Len(Q) + 1] = f /\ \A i \in 1..Len(Q) : R[i] = Q[i]
    BY <1>1 DEF Stream!Terminal
<1>3. m = k + Len(W) + Len(Q)
    BY DEF InOrder
<1>4. W # << >> => W[1].kind = "token" /\ W[1].n = k + 1
    BY DEF InOrder, Follows
<1>5. \A i \in 1..Len(Q) : Q[i].kind = "token" /\ Q[i].n = k + Len(W) + i
    BY DEF InOrder, Follows
<1>6. ASSUME NEW i \in 1..Len(R)
      PROVE  /\ Follows(R[i], k + Len(W) + i, m, "ended")
             /\ R[i].kind # "token" => i = Len(R)
    <2>1. CASE i = Len(Q) + 1
        BY <1>2, <1>3, <2>1 DEF Follows
    <2>2. CASE i \in 1..Len(Q)
        BY <1>2, <1>5, <2>2 DEF Follows
    <2>3. QED
        BY <1>2, <2>1, <2>2
<1>7. QED
    BY <1>1, <1>4, <1>6 DEF InOrder, Follows

\* A frame that moves from the queue to the wire keeps the order.
LEMMA FrameWritten ==
    ASSUME NEW k \in Nat, NEW Q \in Seq(Stream!Frame), NEW m \in Nat, NEW b,
           InOrder(k, << >>, Q, m, b), Q # << >>
    PROVE  InOrder(k, <<Head(Q)>>, Tail(Q), m, b)
<1>1. PICK W, R : W = <<Head(Q)>> /\ R = Tail(Q)
    OBVIOUS
<1>2. /\ W[1] = Q[1] /\ Len(W) = 1 /\ W # << >> /\ Len(R) = Len(Q) - 1 /\ Len(Q) \in Nat
      /\ Len(Q) >= 1 /\ Len(R) \in Nat /\ (Len(R) = 0 => R = << >>)
      /\ \A i \in 1..Len(R) : R[i] = Q[i + 1]
    BY <1>1
<1>3. /\ Follows(Q[1], k + 1, m, b) /\ (Q[1].kind # "token" => Len(Q) = 1)
      /\ b = "streaming" => m = k + Len(Q)
      /\ \A i \in 1..Len(Q) : /\ Follows(Q[i], k + i, m, b)
                              /\ Q[i].kind # "token" => i = Len(Q)
    <2>1. Len(<< >>) = 0
        OBVIOUS
    <2>2. \A i \in 1..Len(Q) : k + 0 + i = k + i
        OBVIOUS
    <2>3. \A i \in 1..Len(Q) : /\ Follows(Q[i], k + i, m, b)
                               /\ Q[i].kind # "token" => i = Len(Q)
        BY <2>1, <2>2 DEF InOrder
    <2>4. QED
        BY <1>2, <2>1, <2>3 DEF InOrder
<1>4. ASSUME NEW i \in 1..Len(R)
      PROVE  /\ Follows(R[i], k + Len(W) + i, m, b)
             /\ R[i].kind # "token" => i = Len(R)
    <2>1. PICK j : j = i + 1
        OBVIOUS
    <2>2. /\ j \in 1..Len(Q) /\ k + Len(W) + i = k + j
          /\ R[i] = Q[j] /\ (j = Len(Q) => i = Len(R))
        BY <1>2, <2>1
    <2>3. Follows(Q[j], k + j, m, b) /\ (Q[j].kind # "token" => j = Len(Q))
        BY <1>3, <2>2
    <2>4. QED
        BY <2>2, <2>3
<1>5. /\ b = "streaming" => m = k + Len(W) + Len(R)
      /\ W[1].kind # "token" => R = << >>
    <2>1. PICK l, r : l = Len(Q) /\ r = Len(R)
        OBVIOUS
    <2>2. l \in Nat /\ r = l - 1 /\ Len(W) = 1 /\ (b = "streaming" => m = k + l)
        BY <1>2, <1>3, <2>1
    <2>3. b = "streaming" => m = k + Len(W) + r
        BY <2>2
    <2>4. W[1].kind # "token" => l = 1
        BY <1>2, <1>3, <2>1
    <2>5. W[1].kind # "token" => r = 0
        BY <2>2, <2>4
    <2>6. QED
        BY <1>2, <2>1, <2>3, <2>5
<1>6. Follows(W[1], k + 1, m, b)
    BY <1>2, <1>3
<1>7. InOrder(k, W, R, m, b)
    BY <1>4, <1>5, <1>6 DEF InOrder
<1>8. QED
    BY <1>1, <1>7

\* A token that is read is the next one.
LEMMA TokenRead ==
    ASSUME NEW k \in Nat, NEW W \in Seq(Stream!Frame), NEW Q \in Seq(Stream!Frame),
           NEW m \in Nat, NEW b, InOrder(k, W, Q, m, b), Len(W) = 1, W[1].kind = "token"
    PROVE  InOrder(k + 1, << >>, Q, m, b) /\ W[1].n = k + 1
<1>1. W # << >> /\ Len(<< >>) = 0 /\ Len(Q) \in Nat
    <2>1. Len(<< >>) = 0
        OBVIOUS
    <2>2. W # << >>
        <3>1. SUFFICES ASSUME W = << >> PROVE FALSE
            OBVIOUS
        <3>2. Len(W) = 0
            BY <2>1, <3>1
        <3>3. QED
            BY <3>2
    <2>3. Len(Q) \in Nat
        OBVIOUS
    <2>4. QED
        BY <2>1, <2>2, <2>3
<1>2. \A i \in 1..Len(Q) : k + Len(W) + i = k + 1 + 0 + i
    OBVIOUS
<1>3. \A i \in 1..Len(Q) : /\ Follows(Q[i], k + 1 + 0 + i, m, b)
                           /\ Q[i].kind # "token" => i = Len(Q)
    BY <1>2 DEF InOrder
<1>4. b = "streaming" => m = k + 1 + 0 + Len(Q)
    BY DEF InOrder
<1>5. W[1].n = k + 1
    BY <1>1 DEF InOrder, Follows
<1>6. QED
    BY <1>1, <1>3, <1>4, <1>5 DEF InOrder

\* Nothing is on the wire in the beginning.
LEMMA StreamInit ==
    ASSUME Stream!Init
    PROVE  StreamInv
<1>1. /\ Fallbacks \in Nat /\ QueueSize \in Nat \ {0} /\ MaxTokens \in Nat
      /\ 1 \in Stream!Attempt
    BY WorkersAssumption DEF Stream!PolicyAssumption, Stream!Attempt
<1>2. /\ attempt = 1 /\ broken = {} /\ streamWorker = "reading" /\ action = "none"
      /\ heard = << >> /\ partial = << >> /\ content = << >>
      /\ made = [a \in Stream!Attempt |-> 0] /\ shown = [a \in Stream!Attempt |-> << >>]
      /\ queue = [a \in Stream!Attempt |-> << >>] /\ wire = [a \in Stream!Attempt |-> << >>]
      /\ stopEvent = [a \in Stream!Attempt |-> FALSE]
      /\ bridge = [a \in Stream!Attempt |-> IF a = 1 THEN "streaming" ELSE "none"]
      /\ writer = [a \in Stream!Attempt |-> IF a = 1 THEN "writing" ELSE "none"]
    BY DEF Stream!Init, Stream!Only
<1>3. << >> \in Seq(Stream!Frame) /\ << >> \in Seq(Stream!Token) /\ Len(<< >>) = 0
    OBVIOUS
<1>4. StreamTypes
    BY <1>1, <1>2, <1>3 DEF StreamTypes
<1>5. \A a \in Stream!Attempt : /\ ShownInOrder(a)
                                /\ a \in broken => wire[a] = << >>
                                /\ a > attempt => NotBegun(a)
    BY <1>1, <1>2, <1>3 DEF ShownInOrder, NotBegun, Stream!Attempt
<1>6. InOrder(0, << >>, << >>, 0, "streaming")
    BY <1>3 DEF InOrder
<1>7. QED
    BY <1>1, <1>2, <1>3, <1>4, <1>5, <1>6 DEF StreamInv, Stream!ContentWasShown

\* A step of the server: it changes the frames of one request only, and keeps
\* those of the newest one in order.
LEMMA StreamServes ==
    ASSUME StreamInv, StreamTypes', NEW a \in Stream!Attempt,
           UNCHANGED Stream!client,
           \A c \in Stream!Attempt : c # a =>
              /\ queue'[c] = queue[c] /\ wire'[c] = wire[c] /\ made'[c] = made[c]
              /\ bridge'[c] = bridge[c] /\ (c \in broken' <=> c \in broken),
           bridge[a] # "none" \/ a <= attempt,
           a \in broken => a \in broken',
           a \in broken' => wire'[a] = << >>,
           /\ streamWorker = "reading" /\ a = attempt /\ a \notin broken'
              => InOrder(Len(shown[a]), wire'[a], queue'[a], made'[a], bridge'[a])
    PROVE  StreamInv'
<1>1. UNCHANGED <<attempt, streamWorker, heard, partial, action, shown, content>>
    BY DEF Stream!client
<1>2. attempt \in Stream!Attempt
    BY DEF StreamInv, StreamTypes
<1>3. ~(a > attempt)
    BY <1>2 DEF StreamInv, NotBegun, Stream!Attempt
<1>4. ASSUME NEW c \in Stream!Attempt
      PROVE  /\ ShownInOrder(c)' /\ (c \in broken' => wire'[c] = << >>)
             /\ c > attempt' => NotBegun(c)'
    <2>1. ShownInOrder(c)'
        BY <1>1 DEF StreamInv, ShownInOrder
    <2>2. c \in broken' => wire'[c] = << >>
        BY DEF StreamInv
    <2>3. c > attempt => NotBegun(c)'
        BY <1>1, <1>3 DEF StreamInv, NotBegun
    <2>4. QED
        BY <1>1, <2>1, <2>2, <2>3
<1>5. ASSUME streamWorker = "reading", attempt \notin broken'
      PROVE  InOrder(Len(shown[attempt]), wire'[attempt], queue'[attempt], made'[attempt],
                     bridge'[attempt])
    <2>1. CASE a = attempt
        BY <1>5, <2>1
    <2>2. CASE a # attempt
        BY <1>2, <1>5, <2>2 DEF StreamInv
    <2>3. QED
        BY <2>1, <2>2
<1>6. Stream!ContentWasShown'
    BY <1>1 DEF StreamInv, Stream!ContentWasShown
<1>7. QED
    BY <1>1, <1>4, <1>5, <1>6 DEF StreamInv

\* The model bridge's steps keep the frames in order.
LEMMA StreamBridge ==
    ASSUME StreamInv, NEW a \in Stream!Attempt, Stream!Bridge(a)
    PROVE  StreamInv'
<1>0. StreamTypes
    BY DEF StreamInv
<1>1. /\ bridge[a] = "streaming" /\ UNCHANGED <<writer, wire, broken>>
      /\ UNCHANGED Stream!client
    BY DEF Stream!Bridge, Stream!ProviderStreams, Stream!ProviderEnds
<1>2. /\ attempt \in Stream!Attempt /\ made[a] \in 0..MaxTokens /\ made[a] \in Nat
      /\ queue[a] \in Seq(Stream!Frame) /\ wire[a] \in Seq(Stream!Frame)
      /\ Len(shown[a]) \in Nat
    BY <1>0 DEF StreamTypes
<1>3. a = attempt /\ streamWorker = "reading" /\ a \notin broken =>
         InOrder(Len(shown[a]), wire[a], queue[a], made[a], "streaming")
    BY <1>1 DEF StreamInv
<1>4. CASE Stream!ProviderStreams(a)
    <2>1. PICK m, f : m = made[a] + 1 /\ f = [kind |-> "token", n |-> m]
        OBVIOUS
    <2>2. m \in 1..MaxTokens /\ made' = [made EXCEPT ![a] = m] /\ made'[a] = m
        BY <1>0, <1>2, <1>4, <2>1 DEF Stream!ProviderStreams, StreamTypes
    <2>3. f \in Stream!Frame
        BY <2>1, <2>2 DEF Stream!Frame
    <2>4. CASE /\ Stream!Room(a) /\ queue' = [queue EXCEPT ![a] = Append(queue[a], f)]
               /\ UNCHANGED <<bridge, stopEvent>>
        <3>1. Append(queue[a], f) \in Seq(Stream!Frame) /\
              Len(Append(queue[a], f)) = Len(queue[a]) + 1
            BY <1>2, <2>3
        <3>2. Len(queue[a]) + 1 <= QueueSize
            BY <1>0, <1>2, <2>4 DEF Stream!Room, StreamTypes
        <3>3. StreamTypes'
            <4>1. /\ queue' \in [Stream!Attempt -> Seq(Stream!Frame)]
                  /\ \A c \in Stream!Attempt : Len(queue'[c]) <= QueueSize
                <5>1. queue \in [Stream!Attempt -> Seq(Stream!Frame)]
                    BY <1>0 DEF StreamTypes
                <5>2. \A c \in Stream!Attempt : Len(queue[c]) <= QueueSize
                    BY <1>0 DEF StreamTypes
                <5>3. PICK R : R = Append(queue[a], f)
                    OBVIOUS
                <5>4. queue' = [queue EXCEPT ![a] = R] /\ R \in Seq(Stream!Frame)
                    BY <2>4, <3>1, <5>3
                <5>5. Len(R) <= QueueSize
                    BY <3>1, <3>2, <5>3
                <5>6. QED
                    BY <5>1, <5>2, <5>4, <5>5
            <4>2. made' \in [Stream!Attempt -> 0..MaxTokens]
                BY <1>0, <1>2, <2>2 DEF StreamTypes
            <4>3. UNCHANGED <<bridge, stopEvent, writer, wire, broken>> /\ UNCHANGED Stream!client
                BY <1>1, <2>4
            <4>4. \A c \in Stream!Attempt : Len(queue'[c]) <= QueueSize /\ Len(wire'[c]) <= 1
                BY <1>0, <4>1, <4>3 DEF StreamTypes
            <4>5. wire' \in [Stream!Attempt -> Seq(Stream!Frame)] /\ UNCHANGED Stream!client
                BY <1>0, <4>3 DEF StreamTypes
            <4>6. /\ stopEvent' \in [Stream!Attempt -> BOOLEAN]
                  /\ bridge' \in [Stream!Attempt -> {"none", "streaming", "ended"}]
                  /\ writer' \in [Stream!Attempt -> {"none", "writing", "closed"}]
                  /\ broken' \subseteq Stream!Attempt
                BY <1>0, <4>3 DEF StreamTypes
            <4>7. QED
                BY <1>0, <4>1, <4>2, <4>4, <4>5, <4>6 DEF StreamTypes, Stream!client
        <3>4. queue'[a] = Append(queue[a], f) /\ wire'[a] = wire[a] /\ bridge'[a] = "streaming"
            BY <1>0, <1>1, <2>4 DEF StreamTypes
        <3>5. a = attempt /\ streamWorker = "reading" /\ a \notin broken =>
                InOrder(Len(shown[a]), wire[a], Append(queue[a], f), m, "streaming")
            BY <1>2, <1>3, <2>1, TokenAppended
        <3>6. \A c \in Stream!Attempt : c # a =>
                 /\ queue'[c] = queue[c] /\ wire'[c] = wire[c] /\ made'[c] = made[c]
                 /\ bridge'[c] = bridge[c]
            BY <1>0, <1>1, <2>2, <2>4 DEF StreamTypes
        <3>7. a \in broken => wire[a] = << >>
            BY DEF StreamInv
        <3>8. QED
            BY <1>1, <2>2, <3>3, <3>4, <3>5, <3>6, <3>7, StreamServes
    <2>5. CASE /\ stopEvent' = [stopEvent EXCEPT ![a] = TRUE]
               /\ bridge' = [bridge EXCEPT ![a] = "ended"] /\ UNCHANGED queue
        <3>1. StreamTypes'
            BY <1>0, <1>1, <2>2, <2>5 DEF StreamTypes, Stream!client
        <3>2. queue'[a] = queue[a] /\ wire'[a] = wire[a] /\ bridge'[a] = "ended"
            BY <1>0, <1>1, <2>5 DEF StreamTypes
        <3>3. a = attempt /\ streamWorker = "reading" /\ a \notin broken =>
                InOrder(Len(shown[a]), wire[a], queue[a], m, "ended")
            <4>1. m \in Nat
                BY <1>0, <2>2 DEF StreamTypes
            <4>2. QED
                BY <1>2, <1>3, <4>1, StreamCut
        <3>4. \A c \in Stream!Attempt : c # a =>
                 /\ queue'[c] = queue[c] /\ wire'[c] = wire[c] /\ made'[c] = made[c]
                 /\ bridge'[c] = bridge[c]
            BY <1>0, <1>1, <2>2, <2>5 DEF StreamTypes
        <3>5. a \in broken => wire[a] = << >>
            BY DEF StreamInv
        <3>6. QED
            BY <1>1, <2>2, <3>1, <3>2, <3>3, <3>4, <3>5, StreamServes
    <2>6. QED
        BY <1>4, <2>1, <2>2, <2>4, <2>5 DEF Stream!ProviderStreams, Stream!EnqueueToken
<1>5. ASSUME NEW kind \in Stream!Terminal, Stream!ProviderEnds(a, kind)
      PROVE  StreamInv'
    <2>1. PICK f : f = [kind |-> kind, n |-> 0]
        OBVIOUS
    <2>2. f \in Stream!Frame
        BY <2>1 DEF Stream!Frame
    <2>3. bridge' = [bridge EXCEPT ![a] = "ended"] /\ UNCHANGED made /\ bridge'[a] = "ended"
        BY <1>0, <1>5 DEF Stream!ProviderEnds, StreamTypes
    <2>4. CASE /\ Stream!Room(a) /\ queue' = [queue EXCEPT ![a] = Append(queue[a], f)]
               /\ UNCHANGED stopEvent
        <3>1. Append(queue[a], f) \in Seq(Stream!Frame) /\
              Len(Append(queue[a], f)) = Len(queue[a]) + 1
            BY <1>2, <2>2
        <3>2. Len(queue[a]) + 1 <= QueueSize
            BY <1>0, <1>2, <2>4 DEF Stream!Room, StreamTypes
        <3>3. StreamTypes'
            BY <1>0, <1>1, <2>3, <2>4, <3>1, <3>2 DEF StreamTypes, Stream!client
        <3>4. queue'[a] = Append(queue[a], f) /\ wire'[a] = wire[a]
            BY <1>0, <1>1, <2>4 DEF StreamTypes
        <3>5. a = attempt /\ streamWorker = "reading" /\ a \notin broken =>
                InOrder(Len(shown[a]), wire[a], Append(queue[a], f), made[a], "ended")
            BY <1>2, <1>3, <2>1, TerminalAppended
        <3>6. \A c \in Stream!Attempt : c # a =>
                 /\ queue'[c] = queue[c] /\ wire'[c] = wire[c] /\ made'[c] = made[c]
                 /\ bridge'[c] = bridge[c]
            BY <1>0, <1>1, <2>3, <2>4 DEF StreamTypes
        <3>7. a \in broken => wire[a] = << >>
            BY DEF StreamInv
        <3>8. QED
            BY <1>1, <2>3, <3>3, <3>4, <3>5, <3>6, <3>7, StreamServes
    <2>5. CASE stopEvent' = [stopEvent EXCEPT ![a] = TRUE] /\ UNCHANGED queue
        <3>1. StreamTypes'
            BY <1>0, <1>1, <2>3, <2>5 DEF StreamTypes, Stream!client
        <3>2. a = attempt /\ streamWorker = "reading" /\ a \notin broken =>
                InOrder(Len(shown[a]), wire[a], queue[a], made[a], "ended")
            BY <1>2, <1>3, StreamCut
        <3>3. \A c \in Stream!Attempt : c # a =>
                 /\ queue'[c] = queue[c] /\ wire'[c] = wire[c] /\ made'[c] = made[c]
                 /\ bridge'[c] = bridge[c]
            BY <1>0, <1>1, <2>3, <2>5 DEF StreamTypes
        <3>4. /\ (a \in broken => wire[a] = << >>) /\ queue'[a] = queue[a]
              /\ wire'[a] = wire[a]
            BY <1>1, <2>5 DEF StreamInv
        <3>5. QED
            BY <1>1, <2>3, <3>1, <3>2, <3>3, <3>4, StreamServes
    <2>6. QED
        BY <1>5, <2>1, <2>4, <2>5 DEF Stream!ProviderEnds
<1>6. QED
    BY <1>4, <1>5 DEF Stream!Bridge

\* So do the steps of the response's writer.
LEMMA StreamWriter ==
    ASSUME StreamInv, NEW a \in Stream!Attempt, Stream!Writer(a) \/ Stream!Break(a)
    PROVE  StreamInv'
<1>0. StreamTypes
    BY DEF StreamInv
<1>1. writer[a] # "none" /\ UNCHANGED <<made, bridge>> /\ UNCHANGED Stream!client
    BY DEF Stream!Writer, Stream!Write, Stream!WriteFails, Stream!Break
<1>2. CASE Stream!Write(a)
    <2>1. /\ a = attempt /\ streamWorker = "reading" /\ a \notin broken
          /\ queue[a] # << >> /\ wire[a] = << >> /\ UNCHANGED broken
          /\ queue' = [queue EXCEPT ![a] = Tail(queue[a])]
          /\ wire' = [wire EXCEPT ![a] = <<Head(queue[a])>>]
        BY <1>2 DEF Stream!Write, Stream!Gone
    <2>2. /\ queue[a] \in Seq(Stream!Frame) /\ Len(shown[a]) \in Nat /\ made[a] \in Nat
          /\ Tail(queue[a]) \in Seq(Stream!Frame) /\ Len(Tail(queue[a])) <= QueueSize
          /\ <<Head(queue[a])>> \in Seq(Stream!Frame) /\ Len(<<Head(queue[a])>>) = 1
        BY <1>0, <2>1 DEF StreamTypes
    <2>3. /\ writer' \in [Stream!Attempt -> {"none", "writing", "closed"}]
          /\ stopEvent' \in [Stream!Attempt -> BOOLEAN]
        BY <1>0, <1>2 DEF StreamTypes, Stream!Write, Stream!Close
    <2>4. StreamTypes'
        <3>1. PICK R, V : R = Tail(queue[a]) /\ V = <<Head(queue[a])>>
            OBVIOUS
        <3>2. /\ R \in Seq(Stream!Frame) /\ Len(R) <= QueueSize
              /\ V \in Seq(Stream!Frame) /\ Len(V) = 1
            BY <2>2, <3>1
        <3>3. queue' = [queue EXCEPT ![a] = R] /\ wire' = [wire EXCEPT ![a] = V]
            BY <2>1, <3>1
        <3>4. UNCHANGED <<attempt, streamWorker, heard, partial, action, shown, content,
                          made, bridge, broken>>
            BY <1>1, <2>1 DEF Stream!client
        <3>5. QED
            <4>1. /\ queue' \in [Stream!Attempt -> Seq(Stream!Frame)]
                  /\ \A c \in Stream!Attempt : Len(queue'[c]) <= QueueSize
                BY <1>0, <3>2, <3>3 DEF StreamTypes
            <4>2. /\ wire' \in [Stream!Attempt -> Seq(Stream!Frame)]
                  /\ \A c \in Stream!Attempt : Len(wire'[c]) <= 1
                <5>1. wire \in [Stream!Attempt -> Seq(Stream!Frame)]
                    BY <1>0 DEF StreamTypes
                <5>2. ASSUME NEW c \in Stream!Attempt
                      PROVE  wire'[c] = IF c = a THEN V ELSE wire[c]
                    BY <3>3, <5>1
                <5>3. \A c \in Stream!Attempt : Len(wire[c]) <= 1
                    BY <1>0 DEF StreamTypes
                <5>4. wire' \in [Stream!Attempt -> Seq(Stream!Frame)]
                    BY <3>2, <3>3, <5>1
                <5>5. QED
                    BY <3>2, <5>2, <5>3, <5>4
            <4>3. QED
                BY <1>0, <2>3, <3>4, <4>1, <4>2 DEF StreamTypes
    <2>5. InOrder(Len(shown[a]), << >>, queue[a], made[a], bridge[a])
        BY <2>1 DEF StreamInv
    <2>6. InOrder(Len(shown[a]), <<Head(queue[a])>>, Tail(queue[a]), made[a], bridge[a])
        BY <2>1, <2>2, <2>5, FrameWritten
    <2>7. wire'[a] = <<Head(queue[a])>> /\ queue'[a] = Tail(queue[a])
        BY <1>0, <2>1 DEF StreamTypes
    <2>8. a <= attempt
        BY <2>1 DEF Stream!Attempt
    <2>9. QED
        BY <1>0, <1>1, <2>1, <2>4, <2>6, <2>7, <2>8, StreamServes DEF StreamTypes
<1>3. CASE Stream!WriteFails(a)
    <2>1. /\ UNCHANGED <<queue, wire, broken>>
          /\ writer' \in [Stream!Attempt -> {"none", "writing", "closed"}]
          /\ stopEvent' \in [Stream!Attempt -> BOOLEAN]
        BY <1>0, <1>3 DEF Stream!WriteFails, Stream!Close, StreamTypes
    <2>2. StreamTypes'
        BY <1>0, <1>1, <2>1 DEF StreamTypes, Stream!client
    <2>3. QED
        BY <1>1, <2>1, <2>2 DEF StreamInv, Stream!client, ShownInOrder, NotBegun,
           Stream!ContentWasShown
<1>4. CASE Stream!Break(a)
    <2>1. /\ a = attempt /\ broken' = broken \cup {a} /\ wire' = [wire EXCEPT ![a] = << >>]
          /\ UNCHANGED <<queue, stopEvent, writer>>
        BY <1>4 DEF Stream!Break, Stream!Gone
    <2>2. wire'[a] = << >> /\ << >> \in Seq(Stream!Frame) /\ Len(<< >>) = 0
        BY <1>0, <2>1 DEF StreamTypes
    <2>3. StreamTypes'
        BY <1>0, <1>1, <2>1, <2>2 DEF StreamTypes, Stream!client
    <2>4. a <= attempt
        BY <2>1 DEF Stream!Attempt
    <2>5. QED
        BY <1>0, <1>1, <2>1, <2>2, <2>3, <2>4, StreamServes DEF StreamTypes
<1>5. QED
    BY <1>2, <1>3, <1>4 DEF Stream!Writer

\* A step of the reader that begins no request leaves the frames of the requests
\* alone, or takes the one frame that is on the wire of the newest.
LEMMA StreamRead ==
    ASSUME StreamInv, Stream!ReadToken
    PROVE  StreamInv'
<1>0. StreamTypes
    BY DEF StreamInv
<1>1. PICK k, W, n : k = Len(shown[attempt]) /\ W = wire[attempt] /\ n = W[1].n
    OBVIOUS
<1>2. /\ streamWorker = "reading" /\ W # << >> /\ W[1].kind = "token" /\ k \in Nat
      /\ W \in Seq(Stream!Frame) /\ Len(W) = 1 /\ W[1] \in Stream!Frame
      /\ attempt \in Stream!Attempt /\ made[attempt] \in Nat
      /\ queue[attempt] \in Seq(Stream!Frame)
    <2>1. /\ streamWorker = "reading" /\ W # << >> /\ Head(W).kind = "token"
        BY <1>1 DEF Stream!ReadToken
    <2>2. /\ attempt \in Stream!Attempt /\ made[attempt] \in Nat
          /\ queue[attempt] \in Seq(Stream!Frame) /\ W \in Seq(Stream!Frame)
          /\ Len(W) <= 1 /\ shown[attempt] \in Seq(Stream!Token)
        BY <1>0, <1>1 DEF StreamTypes
    <2>3. Len(W) = 1 /\ Head(W) = W[1] /\ W[1] \in Stream!Frame /\ k \in Nat
        <3>1. Len(W) = 0 => W = << >>
            BY <2>2
        <3>2. Len(W) = 1
            <4>1. PICK l : l = Len(W) /\ l \in Nat /\ l <= 1
                BY <2>2
            <4>2. l # 0
                BY <2>1, <3>1, <4>1
            <4>3. QED
                BY <4>1, <4>2
        <3>3. Head(W) = W[1] /\ W[1] \in Stream!Frame
            <4>1. 1 \in 1..Len(W)
                BY <3>2
            <4>2. W[1] \in Stream!Frame
                BY <2>2, <4>1
            <4>3. QED
                BY <2>1, <2>2, <4>2
        <3>4. QED
            BY <1>1, <2>2, <3>2, <3>3
    <2>4. QED
        BY <2>1, <2>2, <2>3
<1>3. attempt \notin broken
    BY <1>1, <1>2 DEF StreamInv
<1>4. /\ InOrder(k + 1, << >>, queue[attempt], made[attempt], bridge[attempt]) /\ n = k + 1
    <2>1. InOrder(k, W, queue[attempt], made[attempt], bridge[attempt])
        BY <1>1, <1>2, <1>3 DEF StreamInv
    <2>2. QED
        BY <1>1, <1>2, <2>1, TokenRead
<1>5. PICK t : t = [attempt |-> attempt, n |-> k + 1]
    OBVIOUS
<1>6. t \in Stream!Token
    <2>1. n \in 1..MaxTokens
        BY <1>1, <1>2 DEF Stream!Frame, Stream!Terminal
    <2>2. QED
        BY <1>2, <1>4, <1>5, <2>1 DEF Stream!Token
<1>7. /\ heard' = Append(heard, t)
      /\ shown' = [shown EXCEPT ![attempt] = Append(shown[attempt], t)]
      /\ wire' = [wire EXCEPT ![attempt] = << >>]
      /\ UNCHANGED <<attempt, streamWorker, partial, action, content>>
      /\ UNCHANGED <<made, bridge, queue, stopEvent, writer, broken>>
    <2>1. Head(wire[attempt]).n = k + 1
        <3>1. Head(W) = W[1]
            BY <1>2
        <3>2. QED
            BY <1>1, <1>4, <3>1
    <2>2. QED
        BY <1>1, <1>5, <2>1 DEF Stream!ReadToken
<1>8. /\ Append(shown[attempt], t) \in Seq(Stream!Token) /\ shown[attempt] \in Seq(Stream!Token)
      /\ Append(heard, t) \in Seq(Stream!Token) /\ << >> \in Seq(Stream!Frame)
      /\ Len(<< >>) = 0
    BY <1>0, <1>2, <1>6 DEF StreamTypes
<1>9. StreamTypes'
    BY <1>0, <1>2, <1>7, <1>8 DEF StreamTypes
<1>10. /\ shown'[attempt] = Append(shown[attempt], t) /\ Len(shown'[attempt]) = k + 1
       /\ shown'[attempt][k + 1] = t
       /\ \A i \in 1..k : shown'[attempt][i] = shown[attempt][i]
       /\ \A a \in Stream!Attempt : a # attempt => shown'[a] = shown[a] /\ wire'[a] = wire[a]
       /\ wire'[attempt] = << >>
    BY <1>0, <1>1, <1>2, <1>7, <1>8 DEF StreamTypes
<1>11. ASSUME NEW a \in Stream!Attempt
       PROVE  /\ ShownInOrder(a)' /\ (a \in broken' => wire'[a] = << >>)
              /\ a > attempt' => NotBegun(a)'
    <2>1. CASE a = attempt
        <3>1. ShownInOrder(attempt)
            BY <1>2 DEF StreamInv
        <3>2. \A i \in 1..(k + 1) : shown'[attempt][i] = [attempt |-> attempt, n |-> i]
            BY <1>1, <1>2, <1>5, <1>10, <3>1 DEF ShownInOrder
        <3>3. ShownInOrder(a)'
            BY <1>7, <1>10, <2>1, <3>2 DEF ShownInOrder
        <3>4. ~(a > attempt')
            BY <1>2, <1>7, <2>1 DEF Stream!Attempt
        <3>5. QED
            BY <1>10, <2>1, <3>3, <3>4
    <2>2. CASE a # attempt
        BY <1>7, <1>10, <2>2 DEF StreamInv, ShownInOrder, NotBegun
    <2>3. QED
        BY <2>1, <2>2
<1>12. attempt > 1 => 1 \in Stream!Attempt /\ 1 # attempt
    BY <1>0 DEF StreamTypes, Stream!Attempt
<1>13. /\ heard' = shown'[attempt'] /\ (attempt' > 1 => partial' = shown'[1])
    BY <1>2, <1>7, <1>10, <1>12 DEF StreamInv
<1>14. Stream!ContentWasShown'
    BY <1>2, <1>7 DEF Stream!ContentWasShown
<1>15. InOrder(Len(shown[attempt]), wire[attempt], queue[attempt], made[attempt],
               bridge[attempt])'
    BY <1>4, <1>7, <1>10
<1>16. QED
    BY <1>7, <1>9, <1>11, <1>13, <1>14, <1>15 DEF StreamInv

\* The worker's loop is over: the response holds what was shown.
LEMMA StreamEnds ==
    ASSUME StreamInv, streamWorker = "reading",
           streamWorker' \in {"completed", "interrupted", "raised"},
           partial' \in Seq(Stream!Token), content' \in Seq(Stream!Token),
           wire' = [wire EXCEPT ![attempt] = << >>],
           UNCHANGED <<attempt, heard, action, shown>>,
           UNCHANGED <<made, bridge, queue, stopEvent, writer, broken>>,
           attempt > 1 => partial' = partial,
           Stream!ContentWasShown'
    PROVE  StreamInv'
<1>0. StreamTypes
    BY DEF StreamInv
<1>1. << >> \in Seq(Stream!Frame) /\ Len(<< >>) = 0
    OBVIOUS
<1>2. StreamTypes'
    BY <1>0, <1>1 DEF StreamTypes
<1>3. \A a \in Stream!Attempt : wire'[a] = wire[a] \/ wire'[a] = << >>
    BY <1>0 DEF StreamTypes
<1>4. ASSUME NEW a \in Stream!Attempt
      PROVE  /\ ShownInOrder(a)' /\ (a \in broken' => wire'[a] = << >>)
             /\ a > attempt' => NotBegun(a)'
    BY <1>3 DEF StreamInv, ShownInOrder, NotBegun
<1>5. heard' = shown'[attempt'] /\
      (attempt' > 1 => partial' = shown'[1] /\ action' \in {"continue", "retry"})
    BY DEF StreamInv
<1>6. QED
    BY <1>2, <1>4, <1>5 DEF StreamInv

\* A response that is done holds what was shown of its requests.
LEMMA StreamDone ==
    ASSUME StreamInv, Stream!ReadDone
    PROVE  StreamInv'
<1>0. StreamTypes
    BY DEF StreamInv
<1>1. PICK k, W, m : k = Len(shown[attempt]) /\ W = wire[attempt] /\ m = made[attempt]
    OBVIOUS
<1>2. /\ streamWorker = "reading" /\ W # << >> /\ W[1].kind = "done" /\ k \in Nat
      /\ W \in Seq(Stream!Frame) /\ attempt \in Stream!Attempt /\ m \in 0..MaxTokens
      /\ shown[attempt] \in Seq(Stream!Token)
    BY <1>0, <1>1 DEF Stream!ReadDone, StreamTypes
<1>3. attempt \notin broken
    BY <1>1, <1>2 DEF StreamInv
<1>4. m = k
    <2>1. InOrder(k, W, queue[attempt], m, bridge[attempt])
        BY <1>1, <1>2, <1>3 DEF StreamInv
    <2>2. m = k + 1 - 1
        BY <1>2, <2>1 DEF InOrder, Follows
    <2>3. QED
        BY <1>2, <2>2
<1>5. Stream!Reply = shown[attempt]
    <2>1. ShownInOrder(attempt)
        BY <1>2 DEF StreamInv
    <2>2. shown[attempt] = [i \in 1..k |-> shown[attempt][i]]
        BY <1>1, <1>2
    <2>3. \A i \in 1..k : shown[attempt][i] = [attempt |-> attempt, n |-> i]
        BY <1>1, <2>1 DEF ShownInOrder
    <2>4. shown[attempt] = [i \in 1..k |-> [attempt |-> attempt, n |-> i]]
        BY <2>2, <2>3
    <2>5. QED
        BY <1>1, <1>4, <2>4 DEF Stream!Reply
<1>6. /\ streamWorker' = "completed"
      /\ content' = IF action = "continue" THEN partial \o shown[attempt] ELSE shown[attempt]
      /\ wire' = [wire EXCEPT ![attempt] = << >>]
      /\ UNCHANGED <<attempt, heard, partial, action, shown>>
      /\ UNCHANGED <<made, bridge, queue, stopEvent, writer, broken>>
    BY <1>5 DEF Stream!ReadDone, Stream!Merged
<1>7. partial \in Seq(Stream!Token) /\ content' \in Seq(Stream!Token)
    <2>1. partial \in Seq(Stream!Token)
        BY <1>0 DEF StreamTypes
    <2>2. partial \o shown[attempt] \in Seq(Stream!Token)
        BY <1>2, <2>1
    <2>3. QED
        BY <1>2, <1>6, <2>1, <2>2
<1>8. action = "continue" => partial = shown[1]
    <2>1. action = "continue" => attempt # 1
        BY <1>2 DEF StreamInv
    <2>2. attempt > 1 \/ attempt = 1
        BY <1>0 DEF StreamTypes, Stream!Attempt
    <2>3. QED
        BY <2>1, <2>2 DEF StreamInv
<1>9. Stream!ContentWasShown'
    BY <1>6, <1>8 DEF Stream!ContentWasShown
<1>10. QED
    BY <1>2, <1>6, <1>7, <1>9, StreamEnds

\* The next request goes on from what was shown of the first.
LEMMA StreamAgain ==
    ASSUME StreamInv, streamWorker = "reading", NEW text, text = shown[1],
           attempt <= Fallbacks + 1, Stream!Request(text)
    PROVE  StreamInv'
<1>0. StreamTypes
    BY DEF StreamInv
<1>1. PICK n : n = attempt + 1
    OBVIOUS
<1>2. /\ n \in Stream!Attempt /\ attempt \in Stream!Attempt /\ 1 \in Stream!Attempt
      /\ n > attempt /\ n > 1
      /\ \A a \in Stream!Attempt : a > n => a > attempt
      /\ \A a \in Stream!Attempt : a > n => a # n
    BY <1>0, <1>1 DEF StreamTypes, Stream!Attempt
<1>3. /\ attempt' = n /\ heard' = << >> /\ partial' = text
      /\ action' \in {"continue", "retry"}
      /\ bridge' = [bridge EXCEPT ![n] = "streaming"]
      /\ writer' = [writer EXCEPT ![n] = "writing"]
      /\ wire' = [wire EXCEPT ![attempt] = << >>]
      /\ UNCHANGED <<streamWorker, shown, content, made, queue, stopEvent, broken>>
    BY <1>1 DEF Stream!Request
<1>4. /\ << >> \in Seq(Stream!Frame) /\ << >> \in Seq(Stream!Token) /\ Len(<< >>) = 0
      /\ text \in Seq(Stream!Token)
    BY <1>0, <1>2 DEF StreamTypes
<1>5. StreamTypes'
    <2>1. bridge' \in [Stream!Attempt -> {"none", "streaming", "ended"}]
        BY <1>0, <1>2, <1>3 DEF StreamTypes
    <2>2. writer' \in [Stream!Attempt -> {"none", "writing", "closed"}]
        BY <1>0, <1>2, <1>3 DEF StreamTypes
    <2>3. wire' \in [Stream!Attempt -> Seq(Stream!Frame)]
        BY <1>0, <1>2, <1>3, <1>4 DEF StreamTypes
    <2>4. \A a \in Stream!Attempt : Len(queue'[a]) <= QueueSize /\ Len(wire'[a]) <= 1
        <3>1. \A a \in Stream!Attempt : wire'[a] = wire[a] \/ wire'[a] = << >>
            BY <1>0, <1>2, <1>3 DEF StreamTypes
        <3>2. QED
            BY <1>0, <1>3, <1>4, <3>1 DEF StreamTypes
    <2>5. QED
        BY <1>0, <1>2, <1>3, <1>4, <2>1, <2>2, <2>3, <2>4 DEF StreamTypes
<1>6. /\ shown[n] = << >> /\ wire[n] = << >> /\ queue[n] = << >> /\ made[n] = 0
    BY <1>2 DEF StreamInv, NotBegun
<1>7. /\ wire'[n] = << >> /\ bridge'[n] = "streaming"
      /\ \A a \in Stream!Attempt : wire'[a] = wire[a] \/ wire'[a] = << >>
    BY <1>0, <1>2, <1>3, <1>6 DEF StreamTypes
<1>8. ASSUME NEW a \in Stream!Attempt
      PROVE  /\ ShownInOrder(a)' /\ (a \in broken' => wire'[a] = << >>)
             /\ a > attempt' => NotBegun(a)'
    <2>1. ShownInOrder(a)' /\ (a \in broken' => wire'[a] = << >>)
        BY <1>3, <1>7 DEF StreamInv, ShownInOrder
    <2>2. ASSUME a > n
          PROVE  NotBegun(a)'
        <3>1. NotBegun(a) /\ a # n
            BY <1>2, <2>2 DEF StreamInv
        <3>2. bridge'[a] = bridge[a]
            BY <1>0, <1>3, <3>1 DEF StreamTypes
        <3>3. QED
            BY <1>3, <1>7, <3>1, <3>2 DEF NotBegun
    <2>3. QED
        BY <1>3, <2>1, <2>2
<1>9. InOrder(0, << >>, << >>, 0, "streaming")
    BY <1>4 DEF InOrder
<1>10. InOrder(Len(shown[attempt]), wire[attempt], queue[attempt], made[attempt],
               bridge[attempt])'
    BY <1>3, <1>4, <1>6, <1>7, <1>9
<1>11. heard' = shown'[attempt'] /\ partial' = shown'[1]
    BY <1>3, <1>6
<1>12. Stream!ContentWasShown'
    BY <1>3 DEF Stream!ContentWasShown
<1>13. attempt' # 1
    BY <1>2, <1>3 DEF Stream!Attempt
<1>14. QED
    BY <1>3, <1>5, <1>8, <1>10, <1>11, <1>12, <1>13 DEF StreamInv

\* The client's steps keep the content to what was shown.
LEMMA StreamClient ==
    ASSUME StreamInv, Stream!Client
    PROVE  StreamInv'
<1>0. StreamTypes
    BY DEF StreamInv
<1>1. ASSUME streamWorker = "reading", NEW text, text = shown[1], Stream!GiveUp(text),
             attempt > 1 => partial = shown[1]
      PROVE  StreamInv'
    <2>1. text \in Seq(Stream!Token)
        BY <1>0, <1>1 DEF StreamTypes, Stream!Attempt
    <2>2. /\ streamWorker' = "interrupted" /\ content' = text /\ partial' = text
          /\ wire' = [wire EXCEPT ![attempt] = << >>]
          /\ UNCHANGED <<attempt, heard, action, shown>>
          /\ UNCHANGED <<made, bridge, queue, stopEvent, writer, broken>>
        BY <1>1 DEF Stream!GiveUp
    <2>3. Stream!ContentWasShown'
        BY <1>1, <2>2 DEF Stream!ContentWasShown
    <2>4. QED
        BY <1>1, <2>1, <2>2, <2>3, StreamEnds
<1>2. \A text : Stream!Recoveries(text) \in {0, 1 + Fallbacks}
    BY DEF Stream!Recoveries
<1>3. CASE Stream!FirstInterrupted
    <2>1. /\ streamWorker = "reading" /\ attempt = 1 /\ heard = shown[1]
          /\ IF Stream!Recoveries(heard) > 0 THEN Stream!Request(heard) ELSE Stream!GiveUp(heard)
        BY <1>3 DEF Stream!FirstInterrupted, StreamInv
    <2>2. Fallbacks \in Nat
        BY <1>0 DEF StreamTypes
    <2>3. CASE Stream!Request(heard)
        BY <2>1, <2>2, <2>3, StreamAgain
    <2>4. CASE Stream!GiveUp(heard)
        BY <1>1, <2>1, <2>4
    <2>5. QED
        BY <2>1, <2>3, <2>4
<1>4. CASE Stream!RecoveryFails
    <2>1. /\ streamWorker = "reading" /\ attempt > 1 /\ partial = shown[1]
          /\ \/ attempt <= Stream!Recoveries(partial) /\ Stream!Request(partial)
             \/ Stream!GiveUp(partial)
        BY <1>4 DEF Stream!RecoveryFails, StreamInv
    <2>2. Fallbacks \in Nat /\ attempt \in Nat
        BY <1>0 DEF StreamTypes, Stream!Attempt
    <2>3. CASE attempt <= Stream!Recoveries(partial) /\ Stream!Request(partial)
        <3>1. attempt <= Fallbacks + 1
            BY <1>2, <2>1, <2>2, <2>3
        <3>2. QED
            BY <2>1, <2>3, <3>1, StreamAgain
    <2>4. CASE Stream!GiveUp(partial)
        BY <1>1, <2>1, <2>4
    <2>5. QED
        BY <2>1, <2>3, <2>4
<1>5. CASE Stream!FirstFails
    <2>1. /\ streamWorker = "reading" /\ streamWorker' = "raised" /\ attempt = 1
          /\ wire' = [wire EXCEPT ![attempt] = << >>]
          /\ UNCHANGED <<attempt, heard, partial, action, shown, content>>
          /\ UNCHANGED <<made, bridge, queue, stopEvent, writer, broken>>
        BY <1>5 DEF Stream!FirstFails
    <2>2. Stream!ContentWasShown' /\ partial' \in Seq(Stream!Token)
          /\ content' \in Seq(Stream!Token)
        BY <1>0, <2>1 DEF Stream!ContentWasShown, StreamTypes
    <2>3. QED
        BY <2>1, <2>2, StreamEnds
<1>6. QED
    BY <1>3, <1>4, <1>5, StreamRead, StreamDone DEF Stream!Client

\* Every step of the stream keeps its invariant.
LEMMA StreamNext ==
    ASSUME StreamInv, Stream!Next
    PROVE  StreamInv'
BY StreamBridge, StreamWriter, StreamClient DEF Stream!Next

\* A step of another part keeps it.
LEMMA StreamStays ==
    ASSUME StreamInv, UNCHANGED streamVars
    PROVE  StreamInv'
BY DEF StreamInv, streamVars, StreamTypes, ShownInOrder, NotBegun, Stream!ContentWasShown

\* The invariant types the stream's variables.
LEMMA StreamTyped ==
    ASSUME StreamInv
    PROVE  Stream!TypeOK
BY DEF StreamInv, StreamTypes, Stream!TypeOK

-----------------------------------------------------------------------------
(* The files of patches.                                                   *)

FilesConst ==
    /\ Patches \subseteq Seq(Files!Section) \ {<< >>} /\ MaxFaults \in Nat
    /\ IsFiniteSet(File) /\ "base" \notin Call
    /\ \A p \in FirstFiles : p \subseteq File

\* The assumption on the constants, with the operators of this module.
LEMMA FilesConstants == FilesConst
<1>1. Files!IsFiniteSet(File) => IsFiniteSet(File)
    BY DEF Files!IsFiniteSet, IsFiniteSet
<1>2. QED
    BY <1>1, WorkersAssumption DEF Files!FileMutationsAssumption, FilesConst

\* The files that a patch names.
FilesOf(p) == UNION {Files!Named(p[i]) : i \in DOMAIN p}

\* A patch has a section, and its sections name finitely many files.
LEMMA PatchFiles ==
    ASSUME NEW p \in Patches
    PROVE  /\ Len(p) \in Nat /\ Len(p) >= 1 /\ DOMAIN p = 1..Len(p)
           /\ FilesOf(p) \subseteq File /\ IsFiniteSet(FilesOf(p))
           /\ \A i \in DOMAIN p :
                 /\ p[i] \in Files!Section
                 /\ p[i].path \in FilesOf(p) /\ Files!Target(p[i]) \in FilesOf(p)
<1>1. p \in Seq(Files!Section) /\ p # << >>
    BY FilesConstants DEF FilesConst
<1>2. Len(p) \in Nat /\ DOMAIN p = 1..Len(p) /\ \A i \in DOMAIN p : p[i] \in Files!Section
    BY <1>1
<1>3. Len(p) >= 1
    <2>1. Len(p) = 0 => p = << >>
        BY <1>1
    <2>2. QED
        BY <1>1, <1>2, <2>1
<1>4. \A i \in DOMAIN p : /\ p[i].path \in File /\ Files!Target(p[i]) \in File
    BY <1>2 DEF Files!Section, Files!Target
<1>5. FilesOf(p) \subseteq File
    BY <1>4 DEF FilesOf, Files!Named
<1>6. IsFiniteSet(FilesOf(p))
    BY <1>5, FS_Subset, FilesConstants DEF FilesConst
<1>7. \A i \in DOMAIN p : p[i].path \in FilesOf(p) /\ Files!Target(p[i]) \in FilesOf(p)
    BY DEF FilesOf, Files!Named
<1>8. QED
    BY <1>2, <1>3, <1>5, <1>6, <1>7

\* The files of a call are those of its patch.
LEMMA FilesAre ==
    ASSUME NEW c
    PROVE  Files!Files(c) = FilesOf(patch[c])
BY DEF Files!Files, FilesOf

\* The size of a set in the instance is its size.
LEMMA FilesCount ==
    ASSUME NEW S
    PROVE  Files!Cardinality(S) = Cardinality(S)
BY DEF Files!Cardinality, Cardinality

\* No call has left anything in the beginning.
LEMMA FilesInit ==
    ASSUME Files!Init
    PROVE  FilesInv
<1>0. FilesConst
    BY FilesConstants
<1>1. PICK p \in FirstFiles :
         disk = [f \in File |-> IF f \in p THEN Files!Present({<<"base", 0>>})
                                           ELSE Files!Absent]
    BY DEF Files!Init
<1>2. /\ patch = [c \in Call |-> << >>] /\ phase = [c \in Call |-> "idle"]
      /\ step = [c \in Call |-> 1] /\ plan = [c \in Call |-> << >>]
      /\ saved = [c \in Call |-> {}] /\ snap = [c \in Call |-> disk]
      /\ before = [c \in Call |-> disk] /\ met = {} /\ faults = 0
    BY DEF Files!Init
<1>3. goesOn \in BOOLEAN
    BY DEF Files!Init
<1>4. \A f \in File : disk[f] \in {Files!Present({<<"base", 0>>}), Files!Absent}
    BY <1>1
<1>5. {Files!Present({<<"base", 0>>}), Files!Absent} \subseteq Files!Content
    BY DEF Files!Present, Files!Absent, Files!Content, Files!Edits
<1>6. disk \in [File -> Files!Content]
    BY <1>1, <1>5
<1>7. << >> \in Seq(Files!Content) /\ DOMAIN << >> = {}
    OBVIOUS
<1>8. Files!TypeOK
    BY <1>0, <1>2, <1>3, <1>6, <1>7 DEF Files!TypeOK, Files!Phases, FilesConst
<1>9. \A c \in Call : \A f \in File : Foreign(c, disk[f])
    BY <1>0, <1>4 DEF Foreign, Files!Present, Files!Absent, FilesConst
<1>10. \A c \in Call : Progress(c)
    BY <1>2 DEF Progress, Previewing, Applying
<1>11. \A c \in Call : Whole(c)
    BY <1>2 DEF Whole, Previewing, Applying, Restoring
<1>12. \A c \in Call : Outside(c)
    BY <1>2, <1>7, <1>9 DEF Outside
<1>13. QED
    BY <1>2, <1>8, <1>9, <1>10, <1>11, <1>12 DEF FilesInv

\* What a step leaves to a call.
Same(c) ==
    /\ patch'[c] = patch[c] /\ phase'[c] = phase[c] /\ step'[c] = step[c]
    /\ plan'[c] = plan[c] /\ saved'[c] = saved[c] /\ snap'[c] = snap[c]
    /\ before'[c] = before[c]

\* Planned and done sections of a call whose plan and files are left alone.
LEMMA PlansStay ==
    ASSUME NEW c, NEW i, patch'[c] = patch[c], plan'[c][i] = plan[c][i],
           before'[c] = before[c]
    PROVE  Planned(c, i) <=> Planned(c, i)'
BY DEF Planned

\* A section is done as long as its files are left alone.
LEMMA DoneStays ==
    ASSUME NEW c, patch'[c] = patch[c], before'[c] = before[c], NEW i,
           disk'[patch[c][i].path] = disk[patch[c][i].path],
           patch[c][i].kind = "move" => disk'[patch[c][i].to] = disk[patch[c][i].to]
    PROVE  Files!Done(c, i) <=> Files!Done(c, i)'
<1>1. PICK s : s = patch[c][i] /\ s = patch'[c][i]
    OBVIOUS
<1>2. /\ disk'[s.path] = disk[s.path] /\ (s.kind = "move" => disk'[s.to] = disk[s.to])
    BY <1>1
<1>3. QED
    BY <1>1, <1>2 DEF Files!Done, Files!HasEdit

\* A step of another call that leaves c's files alone keeps what is true of c.
LEMMA FilesLeft ==
    ASSUME FilesInv, NEW c \in Call, Same(c), UNCHANGED goesOn, faults \in Nat,
           faults' \in Nat, faults <= faults', phase[c] # "idle",
           \A f \in Files!Files(c) : disk'[f] = disk[f], Whole(c)
    PROVE  Whole(c)'
<1>1. /\ patch[c] \in Patches /\ step[c] \in 1..Len(patch[c]) /\ patch'[c] = patch[c]
      /\ saved[c] \subseteq Files!Files(c)
    BY DEF FilesInv, Progress, Same
<1>2. /\ Files!Files(c)' = Files!Files(c) /\ Files!Files(c) = FilesOf(patch[c])
      /\ Files!Plain(patch'[c]) <=> Files!Plain(patch[c])
    BY <1>1, FilesAre DEF Files!Files
<1>3. \A S \in SUBSET Files!Files(c) : Untouched(c, S) <=> Untouched(c, S)'
    BY DEF Untouched, Same
<1>4. \A i : Planned(c, i) <=> Planned(c, i)'
    BY PlansStay DEF Same
<1>5. ASSUME NEW i \in 1..Len(patch[c])
      PROVE  /\ Files!Done(c, i) <=> Files!Done(c, i)'
             /\ patch[c][i].kind = "move" =>
                  disk'[patch[c][i].to] = disk[patch[c][i].to]
    <2>1. /\ patch[c][i].path \in Files!Files(c) /\ Files!Target(patch[c][i]) \in Files!Files(c)
        BY <1>1, <1>2, PatchFiles
    <2>2. patch[c][i].kind = "move" => Files!Target(patch[c][i]) = patch[c][i].to
        BY DEF Files!Target
    <2>3. QED
        BY <1>1, <2>1, <2>2, DoneStays DEF Same
<1>6. Files!Changed(c)' = Files!Changed(c)
    BY <1>2 DEF Files!Changed, Same
<1>7. /\ Files!Changed(c) \subseteq Files!Files(c) /\ IsFiniteSet(Files!Files(c))
    BY <1>1, <1>2, PatchFiles DEF Files!Changed
<1>8. /\ Cardinality(Files!Changed(c)) \in Nat
      /\ Cardinality(Files!Changed(c) \ saved[c]) \in Nat
    BY <1>7, FS_Subset, FS_CardinalityType, FS_Difference
<1>9. phase[c] = "removing" => patch[c][step[c]].kind = "move"
    BY DEF FilesInv, Progress
<1>10. phase'[c] = "removing" =>
         Files!HasEdit(c, patch[c][step[c]].to, step[c], before[c][patch[c][step[c]].path].edits)'
    <2>1. SUFFICES ASSUME phase[c] = "removing"
                   PROVE  Files!HasEdit(c, patch[c][step[c]].to, step[c],
                                        before[c][patch[c][step[c]].path].edits)'
        BY DEF Same
    <2>2. Files!HasEdit(c, patch[c][step[c]].to, step[c],
                        before[c][patch[c][step[c]].path].edits)
        BY <2>1 DEF Whole
    <2>3. disk'[patch[c][step[c]].to] = disk[patch[c][step[c]].to]
        BY <1>1, <1>5, <1>9, <2>1
    <2>4. QED
        BY <2>2, <2>3 DEF Files!HasEdit, Same
<1>11. DOMAIN patch[c] = 1..Len(patch[c]) /\ Len(patch[c]) \in Nat
    BY <1>1, PatchFiles
<1>12. \A j \in 1..(step[c] - 1) : j \in 1..Len(patch[c])
    BY <1>1, <1>11
<1>13. QED
    <2>1. /\ phase'[c] \in Previewing \cup {"snapshotting", "failed"} =>
                Untouched(c, Files!Files(c))'
          /\ phase'[c] \in Previewing \cup {"snapshotting"} \cup Applying =>
                \A i \in 1..Len(plan'[c]) : Planned(c, i)'
          /\ phase'[c] \in {"snapshotting"} \cup Applying \cup Restoring =>
                \A f \in saved'[c] : snap'[c][f] = before'[c][f]
        BY <1>2, <1>3, <1>4 DEF Whole, Same
    <2>2. /\ phase'[c] \in Applying /\ Files!Plain(patch'[c]) =>
                \A j \in 1..(step'[c] - 1) : Files!Done(c, j)'
          /\ phase'[c] = "completed" /\ Files!Plain(patch'[c]) =>
                \A i \in DOMAIN patch'[c] : Files!Done(c, i)'
        BY <1>2, <1>5, <1>11, <1>12 DEF Whole, Same
    <2>3. phase'[c] = "restoring" => faults' > 0 /\ Untouched(c, Files!Files(c) \ saved[c])'
        BY <1>2, <1>3 DEF Whole, Same
    <2>4. /\ goesOn' /\ phase'[c] = "restoring the rest" =>
                Cardinality(Files!Changed(c)' \ saved'[c]) < faults'
          /\ goesOn' /\ phase'[c] = "half restored" => Cardinality(Files!Changed(c)') < faults'
        <3>1. PICK n, m : /\ n = Cardinality(Files!Changed(c))
                          /\ m = Cardinality(Files!Changed(c) \ saved[c])
            OBVIOUS
        <3>2. n = Cardinality(Files!Changed(c)') /\ m = Cardinality(Files!Changed(c)' \ saved'[c])
            BY <1>6, <3>1 DEF Same
        <3>3. (goesOn /\ phase[c] = "restoring the rest" => m < faults)
              /\ (goesOn /\ phase[c] = "half restored" => n < faults)
            BY <3>1 DEF Whole
        <3>4. n \in Nat /\ m \in Nat
            BY <1>8, <3>1
        <3>5. (goesOn' => goesOn) /\ phase'[c] = phase[c]
            BY DEF Same
        <3>6. (m < faults => m < faults') /\ (n < faults => n < faults')
            BY <3>4
        <3>7. QED
            BY <3>2, <3>3, <3>5, <3>6
    <2>5. QED
        BY <1>10, <2>1, <2>2, <2>3, <2>4 DEF Whole

\* What a step of c leaves to the other calls.
Others(c) ==
    /\ \A d \in Call \ {c} : Same(d)
    /\ goesOn' = goesOn /\ faults' \in Nat /\ faults <= faults' /\ met \subseteq met'
    /\ \A d \in Call \ {c} : phase[d] # "idle" /\ d \notin met' =>
          \A f \in Files!Files(d) : disk'[f] = disk[f]

\* What a step of c has to keep for the invariant to hold after it.
LEMMA FilesMoved ==
    ASSUME FilesInv, Files!TypeOK', NEW c \in Call, Others(c), phase'[c] # "idle",
           \A d \in Call \ {c} : phase[d] = "idle" =>
              /\ \A f \in File : Foreign(d, disk'[f]) /\ Foreign(d, snap'[c][f])
              /\ \A i \in DOMAIN plan'[c] : Foreign(d, plan'[c][i]),
           \A f \in File : Foreign(c, before'[c][f]),
           Progress(c)', c \notin met' => Whole(c)'
    PROVE  FilesInv'
<1>1. faults \in Nat
    BY FilesConstants DEF FilesInv, Files!TypeOK, FilesConst
<1>2. ASSUME NEW d \in Call \ {c} PROVE Progress(d)' /\ Same(d)
    <2>1. Progress(d) /\ Same(d)
        BY DEF FilesInv, Others
    <2>2. Files!Files(d)' = Files!Files(d)
        BY <2>1 DEF Files!Files, Same
    <2>3. QED
        BY <2>1, <2>2 DEF Progress, Same
<1>3. ASSUME NEW d \in Call \ {c}, d \notin met' PROVE Whole(d)'
    <2>1. d \notin met /\ Whole(d) /\ Same(d)
        BY <1>3 DEF FilesInv, Others
    <2>2. CASE phase[d] = "idle"
        BY <2>1, <2>2 DEF Whole, Same, Previewing, Applying, Restoring
    <2>3. CASE phase[d] # "idle"
        <3>1. \A f \in Files!Files(d) : disk'[f] = disk[f]
            BY <1>3, <2>3 DEF Others
        <3>2. /\ goesOn' = goesOn /\ faults' \in Nat /\ faults <= faults'
            BY DEF Others
        <3>3. QED
            BY <1>1, <2>1, <2>3, <3>1, <3>2, FilesLeft
    <2>4. QED
        BY <2>2, <2>3
<1>4. ASSUME NEW d \in Call, phase'[d] = "idle" PROVE Outside(d)'
    <2>1. d # c /\ phase[d] = "idle"
        BY <1>2, <1>4 DEF Same
    <2>2. Outside(d)
        BY <2>1 DEF FilesInv
    <2>3. ASSUME NEW e \in Call
          PROVE  /\ \A f \in File : Foreign(d, snap'[e][f])
                 /\ \A i \in DOMAIN plan'[e] : Foreign(d, plan'[e][i])
        <3>1. CASE e = c
            BY <2>1, <3>1
        <3>2. CASE e # c
            BY <1>2, <2>2, <3>2 DEF Outside, Same
        <3>3. QED
            BY <3>1, <3>2
    <2>4. QED
        BY <2>1, <2>3 DEF Outside, Foreign
<1>5. \A d \in Call : \A f \in File : Foreign(d, before'[d][f])
    BY <1>2 DEF FilesInv, Same
<1>6. QED
    BY <1>2, <1>3, <1>4, <1>5 DEF FilesInv, Foreign

\* The same for a step that writes no file and takes no snapshot.
LEMMA FilesRead ==
    ASSUME FilesInv, Files!TypeOK', NEW c \in Call, phase'[c] # "idle",
           \A d \in Call \ {c} : Same(d), UNCHANGED <<disk, met, goesOn>>,
           snap'[c] = snap[c], before'[c] = before[c],
           faults' = faults \/ faults' = faults + 1,
           plan'[c] = plan[c] \/ \A d \in Call \ {c} : phase[d] = "idle" =>
                                    \A i \in DOMAIN plan'[c] : Foreign(d, plan'[c][i]),
           Progress(c)', c \notin met => Whole(c)'
    PROVE  FilesInv'
<1>1. faults \in Nat
    BY FilesConstants DEF FilesInv, Files!TypeOK, FilesConst
<1>2. Others(c)
    BY <1>1 DEF Others
<1>3. \A d \in Call \ {c} : phase[d] = "idle" =>
              /\ \A f \in File : Foreign(d, disk'[f]) /\ Foreign(d, snap'[c][f])
              /\ \A i \in DOMAIN plan'[c] : Foreign(d, plan'[c][i])
    BY DEF FilesInv, Outside
<1>4. \A f \in File : Foreign(c, before'[c][f])
    BY DEF FilesInv
<1>5. QED
    BY <1>2, <1>3, <1>4, FilesMoved

\* A call begins: its files are as they are.
LEMMA FilesStart ==
    ASSUME FilesInv, NEW c \in Call, NEW p \in Patches, Files!Start(c, p), UNCHANGED goesOn
    PROVE  FilesInv'
<1>1. /\ phase[c] = "idle" /\ phase' = [phase EXCEPT ![c] = "planning"]
      /\ patch' = [patch EXCEPT ![c] = p] /\ before' = [before EXCEPT ![c] = disk]
      /\ UNCHANGED <<disk, step, plan, saved, snap, met, faults>>
    BY DEF Files!Start, Files!Enter
<1>2. Files!TypeOK /\ Progress(c) /\ Outside(c)
    BY <1>1 DEF FilesInv
<1>3. Files!TypeOK'
    <2>1. phase' \in [Call -> Files!Phases]
        BY <1>1, <1>2 DEF Files!TypeOK, Files!Phases
    <2>2. patch' \in [Call -> Patches \cup {<< >>}]
        BY <1>1, <1>2 DEF Files!TypeOK
    <2>3. before' \in [Call -> [File -> Files!Content]]
        BY <1>1, <1>2 DEF Files!TypeOK
    <2>4. QED
        BY <1>1, <1>2, <2>1, <2>2, <2>3 DEF Files!TypeOK
<1>4. /\ phase'[c] = "planning" /\ patch'[c] = p /\ before'[c] = disk
      /\ \A d \in Call \ {c} : Same(d)
    BY <1>1, <1>2 DEF Files!TypeOK, Same
<1>5. Progress(c)'
    BY <1>1, <1>2, <1>4, PatchFiles DEF Progress, Previewing, Applying
<1>6. Whole(c)'
    <2>1. plan'[c] = << >> /\ Len(<< >>) = 0
        BY <1>1, <1>2 DEF Progress
    <2>2. Untouched(c, Files!Files(c))'
        BY <1>1, <1>4 DEF Untouched
    <2>3. QED
        BY <1>4, <2>1, <2>2 DEF Whole, Previewing, Applying, Restoring
<1>7. Others(c)
    BY <1>1, <1>2, <1>4, FilesConstants DEF Others, Files!TypeOK, FilesConst
<1>8. \A d \in Call \ {c} : phase[d] = "idle" =>
              /\ \A f \in File : Foreign(d, disk'[f]) /\ Foreign(d, snap'[c][f])
              /\ \A i \in DOMAIN plan'[c] : Foreign(d, plan'[c][i])
    BY <1>1 DEF FilesInv, Outside
<1>9. \A f \in File : Foreign(c, before'[c][f])
    BY <1>2, <1>4 DEF Outside
<1>10. QED
    BY <1>3, <1>4, <1>5, <1>6, <1>7, <1>8, <1>9, FilesMoved

\* A call fails before it has written.
LEMMA FilesPreviewFails ==
    ASSUME FilesInv, NEW c \in Call, UNCHANGED goesOn,
           Files!PreviewFails(c) \/ Files!Deny(c) \/ Files!SnapshotFails(c)
    PROVE  FilesInv'
<1>1. /\ phase[c] \in Previewing \cup {"snapshotting"}
      /\ phase' = [phase EXCEPT ![c] = "failed"]
      /\ UNCHANGED <<disk, patch, step, plan, saved, snap, before, met>>
      /\ faults' = faults \/ (faults < MaxFaults /\ faults' = faults + 1)
    BY DEF Files!PreviewFails, Files!Deny, Files!SnapshotFails, Files!Enter, Files!Fault,
           Previewing
<1>2. Files!TypeOK /\ Progress(c) /\ FilesConst
    BY FilesConstants DEF FilesInv
<1>3. Files!TypeOK'
    <2>1. phase' \in [Call -> Files!Phases]
        BY <1>1, <1>2 DEF Files!TypeOK, Files!Phases
    <2>2. faults' \in 0..MaxFaults
        BY <1>1, <1>2 DEF Files!TypeOK, FilesConst
    <2>3. QED
        BY <1>1, <1>2, <2>1, <2>2 DEF Files!TypeOK
<1>4. phase'[c] = "failed" /\ \A d \in Call \ {c} : Same(d)
    BY <1>1, <1>2 DEF Files!TypeOK, Same
<1>5. phase[c] # "idle" /\ Files!Files(c)' = Files!Files(c)
    BY <1>1 DEF Previewing, Files!Files
<1>6. Progress(c)'
    BY <1>1, <1>2, <1>4, <1>5 DEF Progress, Previewing, Applying
<1>7. ASSUME c \notin met PROVE Whole(c)'
    <2>1. Untouched(c, Files!Files(c))
        BY <1>1, <1>7 DEF FilesInv, Whole
    <2>2. Untouched(c, Files!Files(c))'
        BY <1>1, <1>5, <2>1 DEF Untouched
    <2>3. QED
        BY <1>4, <2>2 DEF Whole, Previewing, Applying, Restoring
<1>8. QED
    BY <1>1, <1>3, <1>4, <1>6, <1>7, FilesRead

\* A section is planned on a file that nobody has changed.
LEMMA FilesPlanSection ==
    ASSUME FilesInv, NEW c \in Call, Files!PlanSection(c), UNCHANGED goesOn
    PROVE  FilesInv'
<1>1. PICK i, s, x : i = step[c] /\ s = patch[c][i] /\ x = Files!NewContent(c, i)
    OBVIOUS
<1>2. /\ phase[c] = "planning" /\ ~Files!Refused(s)
      /\ plan' = [plan EXCEPT ![c] = Append(@, x)]
      /\ Files!Advance(c, "planning", "asked")
      /\ UNCHANGED <<disk, patch, saved, snap, before, met, faults>>
    BY <1>1 DEF Files!PlanSection
<1>3. Files!TypeOK /\ Progress(c) /\ FilesConst
    BY FilesConstants DEF FilesInv
<1>4. /\ patch[c] \in Patches /\ i \in 1..Len(patch[c]) /\ Len(plan[c]) = i - 1
      /\ saved[c] = {} /\ plan[c] \in Seq(Files!Content)
    BY <1>1, <1>2, <1>3 DEF Progress, Previewing, Files!TypeOK
<1>5. /\ Len(patch[c]) \in Nat /\ DOMAIN patch[c] = 1..Len(patch[c])
      /\ s \in Files!Section /\ s.path \in File
    BY <1>1, <1>4, PatchFiles DEF Files!Section
<1>6. disk[s.path] \in Files!Content /\ <<c, i>> \in Files!Edits
    BY <1>3, <1>4, <1>5 DEF Files!TypeOK, Files!Edits
<1>7. x \in {Files!Present({<<c, i>>}), Files!Absent,
             Files!Present(disk[s.path].edits \cup {<<c, i>>})}
    BY <1>1 DEF Files!NewContent
<1>8. x \in Files!Content
    <2>1. disk[s.path].edits \cup {<<c, i>>} \subseteq Files!Edits
        BY <1>6 DEF Files!Content
    <2>2. \A e \in SUBSET Files!Edits : Files!Present(e) \in Files!Content
        BY DEF Files!Present, Files!Content
    <2>3. Files!Absent \in Files!Content
        BY DEF Files!Absent, Files!Content
    <2>4. QED
        BY <1>6, <1>7, <2>1, <2>2, <2>3
<1>9. /\ plan'[c] = Append(plan[c], x) /\ plan'[c] \in Seq(Files!Content)
      /\ Len(plan'[c]) = i /\ DOMAIN plan'[c] = 1..i /\ plan'[c][i] = x
      /\ \A j \in 1..(i - 1) : plan'[c][j] = plan[c][j]
    <2>1. plan'[c] = Append(plan[c], x)
        BY <1>2, <1>3 DEF Files!TypeOK
    <2>2. PICK l : l = plan[c]
        OBVIOUS
    <2>3. l \in Seq(Files!Content) /\ Len(l) = i - 1 /\ i \in Nat
        BY <1>4, <1>5, <2>2
    <2>4. /\ Append(l, x) \in Seq(Files!Content) /\ Len(Append(l, x)) = i
          /\ DOMAIN Append(l, x) = 1..i /\ Append(l, x)[i] = x
          /\ \A j \in 1..(i - 1) : Append(l, x)[j] = l[j]
        BY <1>8, <2>3
    <2>5. QED
        BY <2>1, <2>2, <2>4
<1>10. /\ phase'[c] \in Previewing /\ step'[c] \in 1..Len(patch[c])
       /\ phase'[c] = "planning" => step'[c] = i + 1
       /\ phase'[c] = "asked" => step'[c] = 1 /\ i = Len(patch[c])
       /\ phase' \in [Call -> Files!Phases] /\ step' \in [Call -> Nat]
       /\ \A d \in Call \ {c} : phase'[d] = phase[d] /\ step'[d] = step[d]
    <2>1. CASE i = Len(patch[c])
        <3>1. phase' = [phase EXCEPT ![c] = "asked"] /\ step' = [step EXCEPT ![c] = 1]
            BY <1>1, <1>2, <2>1 DEF Files!Advance, Files!Enter
        <3>2. step' \in [Call -> Nat] /\ step'[c] = 1 /\ 1 \in 1..Len(patch[c])
            BY <1>3, <1>4, <1>5, <3>1 DEF Files!TypeOK
        <3>3. phase' \in [Call -> Files!Phases] /\ phase'[c] = "asked"
            BY <1>3, <3>1 DEF Files!TypeOK, Files!Phases
        <3>4. \A d \in Call \ {c} : phase'[d] = phase[d] /\ step'[d] = step[d]
            BY <1>3, <3>1 DEF Files!TypeOK
        <3>5. QED
            BY <2>1, <3>2, <3>3, <3>4 DEF Previewing
    <2>2. CASE i # Len(patch[c])
        <3>1. phase' = [phase EXCEPT ![c] = "planning"] /\ step' = [step EXCEPT ![c] = i + 1]
            BY <1>1, <1>2, <2>2 DEF Files!Advance, Files!Enter
        <3>2. i + 1 \in 1..Len(patch[c]) /\ i + 1 \in Nat
            BY <1>4, <1>5, <2>2
        <3>3. step' \in [Call -> Nat] /\ step'[c] = i + 1
            BY <1>3, <3>1, <3>2 DEF Files!TypeOK
        <3>4. phase' \in [Call -> Files!Phases] /\ phase'[c] = "planning"
            BY <1>3, <3>1 DEF Files!TypeOK, Files!Phases
        <3>5. \A d \in Call \ {c} : phase'[d] = phase[d] /\ step'[d] = step[d]
            BY <1>3, <3>1 DEF Files!TypeOK
        <3>6. QED
            BY <3>2, <3>3, <3>4, <3>5 DEF Previewing
    <2>3. QED
        BY <2>1, <2>2
<1>11. plan' \in [Call -> Seq(Files!Content)] /\ \A d \in Call \ {c} : plan'[d] = plan[d]
    BY <1>2, <1>3, <1>9 DEF Files!TypeOK
<1>12. Files!TypeOK'
    BY <1>2, <1>3, <1>10, <1>11 DEF Files!TypeOK
<1>13. \A d \in Call \ {c} : Same(d)
    BY <1>2, <1>10, <1>11 DEF Same
<1>14. Progress(c)'
    BY <1>2, <1>4, <1>9, <1>10 DEF Progress, Previewing, Applying
<1>15. ASSUME c \notin met PROVE Whole(c)'
    <2>1. Whole(c) /\ \A f \in File : Foreign(c, before[c][f])
        BY <1>15 DEF FilesInv
    <2>2. Untouched(c, Files!Files(c)) /\ \A j \in 1..(i - 1) : Planned(c, j)
        BY <1>2, <1>4, <2>1 DEF Whole, Previewing
    <2>3. Files!Files(c)' = Files!Files(c)
        BY <1>2 DEF Files!Files
    <2>4. Untouched(c, Files!Files(c))'
        BY <1>2, <2>2, <2>3 DEF Untouched
    <2>5. disk[s.path] = before[c][s.path]
        BY <1>1, <1>4, <1>5, <2>2, PatchFiles, FilesAre DEF Untouched
    <2>6. ASSUME NEW j \in 1..(i - 1) PROVE Planned(c, j)'
        <3>1. plan'[c][j] = plan[c][j] /\ patch'[c] = patch[c] /\ before'[c] = before[c]
            BY <1>2, <1>9
        <3>2. QED
            BY <2>2, <3>1, PlansStay
    <2>7. Planned(c, i)'
        <3>1. PICK b : b = before[c][s.path].edits
            OBVIOUS
        <3>2. <<c, 0>> \notin b /\ <<c, 0>> # <<c, i>>
            BY <1>4, <1>5, <2>1, <3>1 DEF Foreign
        <3>3. /\ Files!Present({<<c, i>>}).edits \ {<<c, 0>>} = {<<c, i>>}
              /\ Files!Present(b \cup {<<c, i>>}).edits \ {<<c, 0>>} = b \cup {<<c, i>>}
            BY <3>2 DEF Files!Present
        <3>4. /\ \A e : Files!Present(e).present
              /\ ~Files!Absent.present
            BY DEF Files!Present, Files!Absent
        <3>5. x = CASE s.kind = "add" -> Files!Present({<<c, i>>})
                    [] s.kind = "delete" -> Files!Absent
                    [] OTHER -> Files!Present(b \cup {<<c, i>>})
            BY <1>1, <2>5, <3>1 DEF Files!NewContent
        <3>6. plan'[c][i] = x /\ patch'[c][i] = s /\ before'[c][s.path].edits = b
            BY <1>1, <1>2, <1>9, <3>1
        <3>7. QED
            BY <3>3, <3>4, <3>5, <3>6 DEF Planned
    <2>8. \A j \in 1..i : j = i \/ j \in 1..(i - 1)
        BY <1>4, <1>5
    <2>9. \A j \in 1..Len(plan'[c]) : Planned(c, j)'
        BY <1>9, <2>6, <2>7, <2>8
    <2>10. QED
        BY <1>10, <2>4, <2>9 DEF Whole, Previewing, Applying, Restoring
<1>16. \A d \in Call \ {c} : phase[d] = "idle" =>
          \A j \in DOMAIN plan'[c] : Foreign(d, plan'[c][j])
    <2>1. SUFFICES ASSUME NEW d \in Call \ {c}, phase[d] = "idle", NEW j \in 1..i
                   PROVE  Foreign(d, plan'[c][j])
        BY <1>9
    <2>2. Outside(d)
        BY <2>1 DEF FilesInv
    <2>3. CASE j = i
        <3>1. Foreign(d, disk[s.path]) /\ <<c, i>>[1] = c
            BY <1>5, <2>2 DEF Outside
        <3>2. Foreign(d, x)
            BY <1>7, <3>1 DEF Foreign, Files!Present, Files!Absent
        <3>3. QED
            BY <1>9, <2>3, <3>2
    <2>4. CASE j # i
        <3>1. j \in 1..(i - 1) /\ j \in DOMAIN plan[c]
            BY <1>4, <1>5, <2>4
        <3>2. QED
            BY <1>9, <2>2, <3>1 DEF Outside
    <2>5. QED
        BY <2>3, <2>4
<1>17. phase'[c] # "idle" /\ snap'[c] = snap[c] /\ before'[c] = before[c]
    BY <1>2, <1>10 DEF Previewing
<1>18. QED
    BY <1>2, <1>12, <1>13, <1>14, <1>15, <1>16, <1>17, FilesRead

\* What the user changes in the candidate is no section's edit.
LEMMA FilesAllow ==
    ASSUME FilesInv, NEW c \in Call, NEW edited \in BOOLEAN, Files!Allow(c, edited),
           UNCHANGED goesOn
    PROVE  FilesInv'
<1>1. /\ phase[c] = "asked" /\ phase' = [phase EXCEPT ![c] = "snapshotting"]
      /\ plan' = [plan EXCEPT ![c] = [i \in 1..Len(plan[c]) |->
                    IF edited /\ plan[c][i].present
                    THEN [plan[c][i] EXCEPT !.edits = @ \cup {<<c, 0>>}]
                    ELSE plan[c][i]]]
      /\ UNCHANGED <<disk, patch, step, saved, snap, before, met, faults>>
    BY DEF Files!Allow, Files!Enter
<1>2. Files!TypeOK /\ Progress(c) /\ FilesConst
    BY FilesConstants DEF FilesInv
<1>3. /\ patch[c] \in Patches /\ step[c] = 1 /\ Len(plan[c]) = Len(patch[c]) /\ saved[c] = {}
      /\ plan[c] \in Seq(Files!Content)
    BY <1>1, <1>2 DEF Progress, Previewing, Files!TypeOK
<1>4. plan'[c] = [i \in 1..Len(plan[c]) |->
                    IF edited /\ plan[c][i].present
                    THEN [plan[c][i] EXCEPT !.edits = @ \cup {<<c, 0>>}]
                    ELSE plan[c][i]]
    BY <1>1, <1>2 DEF Files!TypeOK
<1>5. Len(plan[c]) \in Nat /\ DOMAIN plan[c] = 1..Len(plan[c])
    BY <1>3
<1>6. ASSUME NEW i \in 1..Len(plan[c])
      PROVE  /\ plan[c][i] \in Files!Content /\ plan'[c][i] \in Files!Content
             /\ plan'[c][i].present = plan[c][i].present
             /\ plan'[c][i].edits \ {<<c, 0>>} = plan[c][i].edits \ {<<c, 0>>}
             /\ \A d \in Call \ {c} : Foreign(d, plan[c][i]) => Foreign(d, plan'[c][i])
    <2>1. PICK x : x = plan[c][i]
        OBVIOUS
    <2>2. x \in Files!Content /\ <<c, 0>> \in Files!Edits /\ <<c, 0>>[1] = c
        BY <1>3, <2>1 DEF Files!Edits
    <2>3. plan'[c][i] = x \/ plan'[c][i] = [x EXCEPT !.edits = @ \cup {<<c, 0>>}]
        BY <1>4, <2>1
    <2>4. PICK y : y = plan'[c][i]
        OBVIOUS
    <2>5. \/ y = x
          \/ /\ y.present = x.present /\ y.edits = x.edits \cup {<<c, 0>>}
             /\ y \in Files!Content
        BY <2>2, <2>3, <2>4 DEF Files!Content
    <2>6. y \in Files!Content /\ y.present = x.present
          /\ y.edits \ {<<c, 0>>} = x.edits \ {<<c, 0>>}
        BY <2>2, <2>5
    <2>7. \A d \in Call \ {c} : Foreign(d, x) => Foreign(d, y)
        BY <2>2, <2>5 DEF Foreign
    <2>8. QED
        BY <2>1, <2>2, <2>4, <2>6, <2>7
<1>7. /\ plan'[c] \in Seq(Files!Content) /\ Len(plan'[c]) = Len(plan[c])
      /\ DOMAIN plan'[c] = 1..Len(plan[c])
    <2>1. PICK q : q = plan'[c]
        OBVIOUS
    <2>2. DOMAIN q = 1..Len(plan[c])
        BY <1>4, <2>1
    <2>3. \A i \in 1..Len(plan[c]) : q[i] \in Files!Content
        BY <1>6, <2>1
    <2>4. q = [i \in 1..Len(plan[c]) |-> q[i]]
        BY <1>4, <2>1, <2>2
    <2>5. q \in Seq(Files!Content) /\ Len(q) = Len(plan[c])
        BY <1>5, <2>2, <2>3, <2>4
    <2>6. QED
        BY <2>1, <2>2, <2>5
<1>8. plan' \in [Call -> Seq(Files!Content)]
    BY <1>1, <1>2, <1>7 DEF Files!TypeOK
<1>9. Files!TypeOK'
    <2>1. phase' \in [Call -> Files!Phases]
        BY <1>1, <1>2 DEF Files!TypeOK, Files!Phases
    <2>2. QED
        BY <1>1, <1>2, <1>8, <2>1 DEF Files!TypeOK
<1>10. phase'[c] = "snapshotting" /\ \A d \in Call \ {c} : Same(d)
    BY <1>1, <1>2 DEF Files!TypeOK, Same
<1>11. Files!Files(c)' = Files!Files(c)
    BY <1>1 DEF Files!Files
<1>12. Progress(c)'
    BY <1>1, <1>2, <1>3, <1>7, <1>10, <1>11 DEF Progress, Previewing, Applying
<1>13. ASSUME c \notin met PROVE Whole(c)'
    <2>1. Untouched(c, Files!Files(c)) /\ \A i \in 1..Len(plan[c]) : Planned(c, i)
        BY <1>1, <1>13 DEF FilesInv, Whole, Previewing
    <2>2. Untouched(c, Files!Files(c))'
        BY <1>1, <1>11, <2>1 DEF Untouched
    <2>3. \A i \in 1..Len(plan'[c]) : Planned(c, i)'
        BY <1>1, <1>6, <1>7, <2>1 DEF Planned
    <2>4. saved'[c] = {}
        BY <1>1, <1>3
    <2>5. QED
        BY <1>10, <2>2, <2>3, <2>4 DEF Whole, Previewing, Applying, Restoring
<1>14. \A d \in Call \ {c} : phase[d] = "idle" =>
          \A j \in DOMAIN plan'[c] : Foreign(d, plan'[c][j])
    BY <1>5, <1>6, <1>7 DEF FilesInv, Outside
<1>15. QED
    BY <1>1, <1>9, <1>10, <1>12, <1>13, <1>14, FilesRead

\* A snapshot holds the file as it was when the call began.
LEMMA FilesSnapshot ==
    ASSUME FilesInv, NEW c \in Call, NEW f \in File, Files!Snapshot(c, f), UNCHANGED goesOn
    PROVE  FilesInv'
<1>1. /\ phase[c] = "snapshotting" /\ f \in Files!Files(c) \ saved[c]
      /\ saved' = [saved EXCEPT ![c] = @ \cup {f}]
      /\ snap' = [snap EXCEPT ![c][f] = disk[f]]
      /\ phase' = [phase EXCEPT ![c] = IF saved'[c] = Files!Files(c) THEN "writing"
                                                                    ELSE "snapshotting"]
      /\ UNCHANGED <<disk, patch, step, plan, before, met, faults>>
    BY DEF Files!Snapshot, Files!Enter
<1>2. Files!TypeOK /\ Progress(c) /\ FilesConst
    BY FilesConstants DEF FilesInv
<1>3. /\ patch[c] \in Patches /\ step[c] = 1 /\ Len(plan[c]) = Len(patch[c])
      /\ saved[c] \subseteq Files!Files(c) /\ 1 \in 1..Len(patch[c])
    BY <1>1, <1>2 DEF Progress
<1>4. /\ saved'[c] = saved[c] \cup {f} /\ snap'[c] = [snap[c] EXCEPT ![f] = disk[f]]
      /\ phase'[c] \in {"writing", "snapshotting"}
      /\ phase'[c] = "writing" => saved'[c] = Files!Files(c)
      /\ \A d \in Call \ {c} : Same(d)
    BY <1>1, <1>2 DEF Files!TypeOK, Same
<1>5. snap[c] \in [File -> Files!Content] /\ disk[f] \in Files!Content
    BY <1>2 DEF Files!TypeOK
<1>6. /\ snap'[c] \in [File -> Files!Content] /\ snap'[c][f] = disk[f]
      /\ \A g \in File \ {f} : snap'[c][g] = snap[c][g]
    BY <1>4, <1>5
<1>7. Files!TypeOK'
    <2>1. phase' \in [Call -> Files!Phases]
        BY <1>1, <1>2 DEF Files!TypeOK, Files!Phases
    <2>2. saved' \in [Call -> SUBSET File]
        BY <1>1, <1>2 DEF Files!TypeOK
    <2>3. snap' \in [Call -> [File -> Files!Content]]
        BY <1>1, <1>2, <1>5 DEF Files!TypeOK
    <2>4. QED
        BY <1>1, <1>2, <2>1, <2>2, <2>3 DEF Files!TypeOK
<1>8. Files!Files(c)' = Files!Files(c)
    BY <1>1 DEF Files!Files
<1>9. Progress(c)'
    BY <1>1, <1>3, <1>4, <1>8 DEF Progress, Previewing, Applying
<1>10. ASSUME c \notin met PROVE Whole(c)'
    <2>1. /\ Untouched(c, Files!Files(c)) /\ \A i \in 1..Len(plan[c]) : Planned(c, i)
          /\ \A g \in saved[c] : snap[c][g] = before[c][g]
        BY <1>1, <1>10 DEF FilesInv, Whole, Previewing
    <2>2. Untouched(c, Files!Files(c))'
        BY <1>1, <1>8, <2>1 DEF Untouched
    <2>3. \A i \in 1..Len(plan'[c]) : Planned(c, i)'
        BY <1>1, <2>1 DEF Planned
    <2>4. disk[f] = before[c][f]
        BY <1>1, <2>1 DEF Untouched
    <2>5. \A g \in saved'[c] : snap'[c][g] = before'[c][g]
        BY <1>1, <1>2, <1>4, <1>6, <2>1, <2>4 DEF Files!TypeOK
    <2>6. \A j \in 1..(step'[c] - 1) : FALSE
        BY <1>1, <1>3
    <2>7. QED
        BY <1>4, <2>2, <2>3, <2>5, <2>6 DEF Whole, Previewing, Applying, Restoring
<1>11. Others(c)
    BY <1>1, <1>2, <1>4 DEF Others, Files!TypeOK, FilesConst
<1>12. \A d \in Call \ {c} : phase[d] = "idle" =>
              /\ \A g \in File : Foreign(d, disk'[g]) /\ Foreign(d, snap'[c][g])
              /\ \A i \in DOMAIN plan'[c] : Foreign(d, plan'[c][i])
    <2>1. SUFFICES ASSUME NEW d \in Call \ {c}, phase[d] = "idle"
                   PROVE  /\ \A g \in File : Foreign(d, disk'[g]) /\ Foreign(d, snap'[c][g])
                          /\ \A i \in DOMAIN plan'[c] : Foreign(d, plan'[c][i])
        OBVIOUS
    <2>2. Outside(d)
        BY <2>1 DEF FilesInv
    <2>3. ASSUME NEW g \in File PROVE Foreign(d, snap'[c][g])
        BY <1>6, <2>2 DEF Outside
    <2>4. QED
        BY <1>1, <2>2, <2>3 DEF Outside
<1>13. \A g \in File : Foreign(c, before'[c][g])
    BY <1>1 DEF FilesInv
<1>14. phase'[c] # "idle"
    BY <1>4
<1>15. QED
    BY <1>1, <1>7, <1>9, <1>10, <1>11, <1>12, <1>13, <1>14, FilesMoved

\* A file that is written is met by the calls that know it, and by no other.
LEMMA FilePut ==
    ASSUME FilesInv, NEW c \in Call, NEW f \in Files!Files(c), NEW x \in Files!Content,
           Files!Put(c, f, x), phase[c] # "idle",
           \A d \in Call \ {c} : phase[d] = "idle" => Foreign(d, x)
    PROVE  /\ f \in File /\ disk' \in [File -> Files!Content] /\ disk'[f] = x
           /\ \A g \in File \ {f} : disk'[g] = disk[g]
           /\ met \subseteq met' /\ met' \subseteq Call /\ (c \in met' => c \in met)
           /\ \A d \in Call \ {c} : phase[d] # "idle" /\ d \notin met' =>
                 \A g \in Files!Files(d) : disk'[g] = disk[g]
           /\ \A d \in Call \ {c} : phase[d] = "idle" =>
                 \A g \in File : Foreign(d, disk'[g])
<1>1. /\ disk' = [disk EXCEPT ![f] = x]
      /\ met' = met \cup {d \in Call \ {c} : phase[d] # "idle" /\ f \in Files!Files(d)}
    BY DEF Files!Put
<1>2. disk \in [File -> Files!Content] /\ met \subseteq Call
    BY DEF FilesInv, Files!TypeOK
<1>3. ASSUME NEW d \in Call, phase[d] # "idle" PROVE Files!Files(d) \subseteq File
    <2>1. patch[d] \in Patches
        BY <1>3 DEF FilesInv, Progress
    <2>2. QED
        BY <2>1, PatchFiles, FilesAre
<1>4. f \in File
    BY <1>3
<1>5. disk' \in [File -> Files!Content] /\ disk'[f] = x /\ \A g \in File \ {f} : disk'[g] = disk[g]
    BY <1>1, <1>2, <1>4
<1>6. ASSUME NEW d \in Call \ {c}, phase[d] # "idle", d \notin met', NEW g \in Files!Files(d)
      PROVE  disk'[g] = disk[g]
    <2>1. g # f /\ g \in File
        BY <1>1, <1>3, <1>6
    <2>2. QED
        BY <1>5, <2>1
<1>7. ASSUME NEW d \in Call \ {c}, phase[d] = "idle", NEW g \in File
      PROVE  Foreign(d, disk'[g])
    <2>1. Foreign(d, disk[g]) /\ Foreign(d, x)
        BY <1>7 DEF FilesInv, Outside
    <2>2. CASE g = f
        BY <1>5, <2>1, <2>2
    <2>3. CASE g # f
        <3>1. disk'[g] = disk[g]
            BY <1>5, <2>3
        <3>2. QED
            BY <2>1, <3>1
    <2>4. QED
        BY <2>2, <2>3
<1>8. met \subseteq met' /\ met' \subseteq Call /\ (c \in met' => c \in met)
    BY <1>1, <1>2
<1>9. QED
    BY <1>4, <1>5, <1>6, <1>7, <1>8

\* A section has been written: the call goes on with the next one.
LEMMA FilesSaved ==
    ASSUME FilesInv, NEW c \in Call, phase[c] \in Applying,
           Files!Advance(c, "writing", "completed"),
           UNCHANGED <<patch, plan, saved, snap, before, faults, goesOn>>,
           NEW f \in {patch[c][step[c]].path, Files!Target(patch[c][step[c]])},
           NEW x \in Files!Content, Files!Put(c, f, x),
           \A d \in Call \ {c} : phase[d] = "idle" => Foreign(d, x),
           NEW i, i = step[c], c \notin met => Files!Done(c, i)'
    PROVE  FilesInv'
<1>1. PICK s : i = step[c] /\ s = patch[c][i]
    OBVIOUS
<1>2. Files!TypeOK /\ Progress(c) /\ FilesConst /\ phase[c] # "idle"
    BY FilesConstants DEF FilesInv, Applying
<1>3. /\ patch[c] \in Patches /\ i \in 1..Len(patch[c]) /\ Len(plan[c]) = Len(patch[c])
      /\ saved[c] = Files!Files(c)
    BY <1>1, <1>2 DEF Progress
<1>4. /\ Len(patch[c]) \in Nat /\ DOMAIN patch[c] = 1..Len(patch[c])
      /\ \A j \in 1..Len(patch[c]) :
            /\ patch[c][j].path \in File /\ patch[c][j].to \in File
            /\ patch[c][j].kind \in {"add", "update", "delete", "move"}
      /\ f \in Files!Files(c)
    BY <1>1, <1>3, PatchFiles, FilesAre DEF Files!Section
<1>5. /\ f \in File /\ disk' \in [File -> Files!Content] /\ disk'[f] = x
      /\ \A g \in File \ {f} : disk'[g] = disk[g]
      /\ met \subseteq met' /\ met' \subseteq Call /\ (c \in met' => c \in met)
      /\ \A d \in Call \ {c} : phase[d] # "idle" /\ d \notin met' =>
            \A g \in Files!Files(d) : disk'[g] = disk[g]
      /\ \A d \in Call \ {c} : phase[d] = "idle" => \A g \in File : Foreign(d, disk'[g])
    BY <1>2, <1>4, FilePut
<1>6. /\ phase' \in [Call -> Files!Phases] /\ step' \in [Call -> Nat]
      /\ \A d \in Call \ {c} : phase'[d] = phase[d] /\ step'[d] = step[d]
      /\ step'[c] \in 1..Len(patch[c])
      /\ \/ phase'[c] = "completed" /\ i = Len(patch[c])
         \/ phase'[c] = "writing" /\ step'[c] = i + 1
    <2>1. CASE i = Len(patch[c])
        <3>1. phase' = [phase EXCEPT ![c] = "completed"] /\ step' = [step EXCEPT ![c] = 1]
            BY <1>1, <2>1 DEF Files!Advance, Files!Enter
        <3>2. step' \in [Call -> Nat] /\ step'[c] \in 1..Len(patch[c])
            BY <1>2, <1>3, <1>4, <3>1 DEF Files!TypeOK
        <3>3. phase' \in [Call -> Files!Phases] /\ phase'[c] = "completed"
            BY <1>2, <3>1 DEF Files!TypeOK, Files!Phases
        <3>4. \A d \in Call \ {c} : phase'[d] = phase[d] /\ step'[d] = step[d]
            BY <1>2, <3>1 DEF Files!TypeOK
        <3>5. QED
            BY <2>1, <3>2, <3>3, <3>4
    <2>2. CASE i # Len(patch[c])
        <3>1. phase' = [phase EXCEPT ![c] = "writing"] /\ step' = [step EXCEPT ![c] = i + 1]
            BY <1>1, <2>2 DEF Files!Advance, Files!Enter
        <3>2. i + 1 \in 1..Len(patch[c]) /\ i + 1 \in Nat
            BY <1>3, <1>4, <2>2
        <3>3. step' \in [Call -> Nat] /\ step'[c] = i + 1
            BY <1>2, <3>1, <3>2 DEF Files!TypeOK
        <3>4. phase' \in [Call -> Files!Phases] /\ phase'[c] = "writing"
            BY <1>2, <3>1 DEF Files!TypeOK, Files!Phases
        <3>5. \A d \in Call \ {c} : phase'[d] = phase[d] /\ step'[d] = step[d]
            BY <1>2, <3>1 DEF Files!TypeOK
        <3>6. QED
            BY <3>2, <3>3, <3>4, <3>5
    <2>3. QED
        BY <2>1, <2>2
<1>7. Files!TypeOK'
    BY <1>2, <1>5, <1>6 DEF Files!TypeOK
<1>8. Files!Files(c)' = Files!Files(c)
    BY DEF Files!Files
<1>9. Progress(c)'
    BY <1>3, <1>6, <1>8 DEF Progress, Previewing, Applying
<1>10. ASSUME c \notin met' PROVE Whole(c)'
    <2>1. c \notin met /\ Whole(c)
        BY <1>5, <1>10 DEF FilesInv
    <2>2. /\ \A j \in 1..Len(plan[c]) : Planned(c, j)
          /\ \A g \in saved[c] : snap[c][g] = before[c][g]
          /\ Files!Plain(patch[c]) => \A j \in 1..(i - 1) : Files!Done(c, j)
        BY <1>1, <2>1 DEF Whole
    <2>3. \A j \in 1..Len(plan'[c]) : Planned(c, j)'
        BY <2>2 DEF Planned
    <2>4. \A g \in saved'[c] : snap'[c][g] = before'[c][g]
        BY <2>2
    <2>5. ASSUME Files!Plain(patch[c]), NEW j \in 1..(i - 1) PROVE Files!Done(c, j)'
        <3>1. j # i /\ j \in 1..Len(patch[c]) /\ i \in 1..Len(patch[c])
            BY <1>3, <1>4
        <3>2. {patch[c][j].path, patch[c][j].to} \cap {s.path, s.to} = {}
            BY <1>1, <1>4, <2>5, <3>1 DEF Files!Plain
        <3>3. f \in {s.path, s.to}
            BY <1>1 DEF Files!Target
        <3>4. disk'[patch[c][j].path] = disk[patch[c][j].path]
            BY <1>4, <1>5, <3>1, <3>2, <3>3
        <3>5. disk'[patch[c][j].to] = disk[patch[c][j].to]
            BY <1>4, <1>5, <3>1, <3>2, <3>3
        <3>6. QED
            BY <2>2, <2>5, <3>4, <3>5, DoneStays
    <2>6. Files!Done(c, i)'
        BY <1>1, <2>1
    <2>7. \A j \in 1..i : j = i \/ j \in 1..(i - 1)
        BY <1>3, <1>4
    <2>8. Files!Plain(patch'[c]) => \A j \in 1..i : Files!Done(c, j)'
        BY <2>5, <2>6, <2>7
    <2>9. CASE phase'[c] = "completed" /\ i = Len(patch[c])
        <3>1. Files!Plain(patch'[c]) => \A j \in DOMAIN patch'[c] : Files!Done(c, j)'
            BY <1>4, <2>8, <2>9
        <3>2. QED
            BY <2>9, <3>1 DEF Whole, Previewing, Applying, Restoring
    <2>10. CASE phase'[c] = "writing" /\ step'[c] = i + 1
        <3>1. (i + 1) - 1 = i
            BY <1>3, <1>4
        <3>2. Files!Plain(patch'[c]) => \A j \in 1..(step'[c] - 1) : Files!Done(c, j)'
            BY <2>8, <2>10, <3>1
        <3>3. QED
            BY <2>3, <2>4, <2>10, <3>2 DEF Whole, Previewing, Applying, Restoring
    <2>11. QED
        BY <1>6, <2>9, <2>10
<1>11. Others(c)
    <2>1. \A d \in Call \ {c} : Same(d)
        BY <1>6 DEF Same
    <2>2. faults \in Nat
        BY <1>2 DEF Files!TypeOK, FilesConst
    <2>3. QED
        BY <1>5, <2>1, <2>2 DEF Others
<1>12. \A d \in Call \ {c} : phase[d] = "idle" =>
              /\ \A g \in File : Foreign(d, disk'[g]) /\ Foreign(d, snap'[c][g])
              /\ \A j \in DOMAIN plan'[c] : Foreign(d, plan'[c][j])
    BY <1>5 DEF FilesInv, Outside
<1>13. \A g \in File : Foreign(c, before'[c][g])
    BY DEF FilesInv
<1>14. phase'[c] # "idle"
    BY <1>6
<1>15. QED
    BY <1>7, <1>9, <1>10, <1>11, <1>12, <1>13, <1>14, FilesMoved

\* A write makes the change that its section asks for.
LEMMA FilesWrite ==
    ASSUME FilesInv, NEW c \in Call, Files!Write(c), UNCHANGED goesOn
    PROVE  FilesInv'
<1>1. PICK i, s, x, t : /\ i = step[c] /\ s = patch[c][i] /\ x = plan[c][i]
                        /\ t = Files!Target(s)
    OBVIOUS
<1>2. /\ phase[c] = "writing" /\ Files!Put(c, t, x)
      /\ IF s.path # t THEN Files!Enter(c, "removing") /\ UNCHANGED step
                       ELSE Files!Advance(c, "writing", "completed")
      /\ UNCHANGED <<patch, plan, saved, snap, before, faults>>
    BY <1>1 DEF Files!Write
<1>3. Files!TypeOK /\ Progress(c) /\ FilesConst
    BY FilesConstants DEF FilesInv
<1>4. /\ patch[c] \in Patches /\ i \in 1..Len(patch[c]) /\ Len(plan[c]) = Len(patch[c])
      /\ saved[c] = Files!Files(c) /\ plan[c] \in Seq(Files!Content)
    BY <1>1, <1>2, <1>3 DEF Progress, Applying, Files!TypeOK
<1>5. /\ Len(patch[c]) \in Nat /\ DOMAIN patch[c] = 1..Len(patch[c])
      /\ s.path \in File /\ s.to \in File /\ s.kind \in {"add", "update", "delete", "move"}
      /\ t \in Files!Files(c)
    BY <1>1, <1>4, PatchFiles, FilesAre DEF Files!Section
<1>6. x \in Files!Content /\ i \in DOMAIN plan[c] /\ i \in 1..Len(plan[c])
    BY <1>1, <1>4, <1>5
<1>7. \A d \in Call \ {c} : phase[d] = "idle" => Foreign(d, x)
    BY <1>1, <1>6 DEF FilesInv, Outside
<1>8. /\ disk' \in [File -> Files!Content] /\ disk'[t] = x
      /\ \A g \in File \ {t} : disk'[g] = disk[g]
      /\ met \subseteq met' /\ met' \subseteq Call /\ (c \in met' => c \in met)
      /\ \A d \in Call \ {c} : phase[d] # "idle" /\ d \notin met' =>
            \A g \in Files!Files(d) : disk'[g] = disk[g]
      /\ \A d \in Call \ {c} : phase[d] = "idle" => \A g \in File : Foreign(d, disk'[g])
    BY <1>2, <1>5, <1>6, <1>7, FilePut
<1>9. ASSUME c \notin met
      PROVE  /\ Whole(c) /\ Planned(c, i)
             /\ s.kind = "move" =>
                  Files!HasEdit(c, s.to, i, before[c][s.path].edits)'
    <2>1. Whole(c)
        BY <1>9 DEF FilesInv
    <2>2. Planned(c, i)
        BY <1>2, <1>6, <2>1 DEF Whole, Applying
    <2>3. ASSUME s.kind = "move"
          PROVE  Files!HasEdit(c, s.to, i, before[c][s.path].edits)'
        <3>1. x.present /\ x.edits \ {<<c, 0>>} = before[c][s.path].edits \cup {<<c, i>>}
            BY <1>1, <2>2, <2>3 DEF Planned
        <3>2. disk'[s.to] = x
            BY <1>1, <1>8, <2>3 DEF Files!Target
        <3>3. QED
            BY <1>2, <3>1, <3>2 DEF Files!HasEdit
    <2>4. QED
        BY <2>1, <2>2, <2>3
<1>10. CASE s.path = t
    <2>1. Files!Advance(c, "writing", "completed")
        BY <1>2, <1>10
    <2>2. ASSUME c \notin met PROVE Files!Done(c, i)'
        <3>1. Planned(c, i) /\ disk'[s.path] = x /\ patch'[c][i] = s
            BY <1>1, <1>2, <1>8, <1>9, <1>10, <2>2
        <3>2. CASE s.kind = "add"
            <4>1. x.present /\ x.edits \ {<<c, 0>>} = {<<c, i>>}
                BY <1>1, <3>1, <3>2 DEF Planned
            <4>2. Files!HasEdit(c, s.path, i, {})'
                BY <3>1, <4>1 DEF Files!HasEdit
            <4>3. QED
                BY <3>1, <3>2, <4>2 DEF Files!Done
        <3>3. CASE s.kind = "delete"
            BY <1>1, <3>1, <3>3 DEF Planned, Files!Done
        <3>4. CASE s.kind = "update"
            <4>1. x.present /\ x.edits \ {<<c, 0>>} = before[c][s.path].edits \cup {<<c, i>>}
                BY <1>1, <3>1, <3>4 DEF Planned
            <4>2. Files!HasEdit(c, s.path, i, before[c][s.path].edits)'
                BY <1>2, <3>1, <4>1 DEF Files!HasEdit
            <4>3. QED
                BY <1>2, <3>1, <3>4, <4>2 DEF Files!Done
        <3>5. CASE s.kind = "move"
            <4>1. s.to = s.path
                BY <1>1, <1>10, <3>5 DEF Files!Target
            <4>2. Files!HasEdit(c, s.to, i, before[c][s.path].edits)'
                BY <1>9, <2>2, <3>5
            <4>3. QED
                BY <1>2, <3>1, <3>5, <4>1, <4>2 DEF Files!Done
        <3>6. QED
            BY <1>5, <3>2, <3>3, <3>4, <3>5
    <2>3. phase[c] \in Applying /\ t \in {patch[c][step[c]].path, Files!Target(patch[c][step[c]])}
        BY <1>1, <1>2 DEF Applying
    <2>4. UNCHANGED <<patch, plan, saved, snap, before, faults, goesOn>> /\ Files!Put(c, t, x)
        BY <1>2
    <2>5. QED
        BY <1>1, <1>6, <1>7, <2>1, <2>2, <2>3, <2>4, FilesSaved
<1>11. CASE s.path # t
    <2>1. phase' = [phase EXCEPT ![c] = "removing"] /\ UNCHANGED step
        BY <1>2, <1>11 DEF Files!Enter
    <2>2. s.kind = "move" /\ s.path # s.to
        BY <1>1, <1>11 DEF Files!Target
    <2>3. phase' \in [Call -> Files!Phases] /\ phase'[c] = "removing"
        BY <1>3, <2>1 DEF Files!TypeOK, Files!Phases
    <2>4. \A d \in Call \ {c} : Same(d)
        BY <1>2, <1>3, <2>1 DEF Files!TypeOK, Same
    <2>5. Files!TypeOK'
        BY <1>2, <1>3, <1>8, <2>1, <2>3 DEF Files!TypeOK
    <2>6. Files!Files(c)' = Files!Files(c)
        BY <1>2 DEF Files!Files
    <2>7. Progress(c)'
        BY <1>1, <1>2, <1>4, <2>1, <2>2, <2>3, <2>6 DEF Progress, Previewing, Applying
    <2>8. ASSUME c \notin met' PROVE Whole(c)'
        <3>1. c \notin met /\ Whole(c)
            BY <1>8, <2>8 DEF FilesInv
        <3>2. /\ \A j \in 1..Len(plan[c]) : Planned(c, j)
              /\ \A g \in saved[c] : snap[c][g] = before[c][g]
              /\ Files!Plain(patch[c]) => \A j \in 1..(i - 1) : Files!Done(c, j)
            BY <1>1, <1>2, <3>1 DEF Whole, Applying
        <3>3. \A j \in 1..Len(plan'[c]) : Planned(c, j)'
            BY <1>2, <3>2 DEF Planned
        <3>4. \A g \in saved'[c] : snap'[c][g] = before'[c][g]
            BY <1>2, <3>2
        <3>5. ASSUME Files!Plain(patch[c]), NEW j \in 1..(i - 1) PROVE Files!Done(c, j)'
            <4>1. /\ j # i /\ j \in DOMAIN patch[c] /\ i \in DOMAIN patch[c]
                  /\ patch[c][j] \in Files!Section
                BY <1>4, <1>5, PatchFiles
            <4>2. {patch[c][j].path, patch[c][j].to} \cap {s.path, s.to} = {}
                BY <1>1, <3>5, <4>1 DEF Files!Plain
            <4>3. t \in {s.path, s.to} /\ patch[c][j].path \in File /\ patch[c][j].to \in File
                BY <1>1, <4>1 DEF Files!Target, Files!Section
            <4>4. disk'[patch[c][j].path] = disk[patch[c][j].path]
                BY <1>8, <4>2, <4>3
            <4>5. disk'[patch[c][j].to] = disk[patch[c][j].to]
                BY <1>8, <4>2, <4>3
            <4>6. QED
                BY <1>2, <3>2, <3>5, <4>4, <4>5, DoneStays
        <3>6. Files!HasEdit(c, s.to, i, before[c][s.path].edits)'
            BY <1>9, <2>2, <3>1
        <3>7. Files!HasEdit(c, patch[c][step[c]].to, step[c],
                            before[c][patch[c][step[c]].path].edits)'
            BY <1>1, <1>2, <2>1, <3>6
        <3>8. Files!Plain(patch'[c]) => \A j \in 1..(step'[c] - 1) : Files!Done(c, j)'
            BY <1>1, <1>2, <2>1, <3>5
        <3>9. QED
            BY <2>3, <3>3, <3>4, <3>7, <3>8 DEF Whole, Previewing, Applying, Restoring
    <2>9. Others(c)
        <3>1. faults \in Nat
            BY <1>3 DEF Files!TypeOK, FilesConst
        <3>2. QED
            BY <1>2, <1>8, <2>4, <3>1 DEF Others
    <2>10. \A d \in Call \ {c} : phase[d] = "idle" =>
              /\ \A g \in File : Foreign(d, disk'[g]) /\ Foreign(d, snap'[c][g])
              /\ \A j \in DOMAIN plan'[c] : Foreign(d, plan'[c][j])
        BY <1>2, <1>8 DEF FilesInv, Outside
    <2>11. \A g \in File : Foreign(c, before'[c][g])
        BY <1>2 DEF FilesInv
    <2>12. phase'[c] # "idle"
        BY <2>3
    <2>13. QED
        BY <2>5, <2>7, <2>8, <2>9, <2>10, <2>11, <2>12, FilesMoved
<1>12. QED
    BY <1>10, <1>11

\* The second half of a move completes it.
LEMMA FilesRemove ==
    ASSUME FilesInv, NEW c \in Call, Files!Remove(c), UNCHANGED goesOn
    PROVE  FilesInv'
<1>1. PICK i, s, x : /\ i = step[c] /\ s = patch[c][i] /\ x = Files!Absent
    OBVIOUS
<1>2. /\ phase[c] = "removing" /\ Files!Put(c, s.path, x)
      /\ Files!Advance(c, "writing", "completed")
      /\ UNCHANGED <<patch, plan, saved, snap, before, faults, goesOn>>
    BY <1>1 DEF Files!Remove
<1>3. Files!TypeOK /\ Progress(c) /\ FilesConst
    BY FilesConstants DEF FilesInv
<1>4. /\ patch[c] \in Patches /\ i \in 1..Len(patch[c])
      /\ s.kind = "move" /\ s.path # s.to
    BY <1>1, <1>2, <1>3 DEF Progress
<1>5. /\ s.path \in File /\ s.to \in File /\ s.path \in Files!Files(c)
    BY <1>1, <1>4, PatchFiles, FilesAre DEF Files!Section
<1>6. x \in Files!Content /\ x.edits = {} /\ ~x.present
    BY <1>1 DEF Files!Absent, Files!Content
<1>7. \A d \in Call \ {c} : phase[d] = "idle" => Foreign(d, x)
    BY <1>6 DEF Foreign
<1>8. /\ disk'[s.path] = x /\ \A g \in File \ {s.path} : disk'[g] = disk[g]
    BY <1>2, <1>5, <1>6, <1>7, FilePut
<1>9. ASSUME c \notin met PROVE Files!Done(c, i)'
    <2>1. Files!HasEdit(c, s.to, i, before[c][s.path].edits)
        BY <1>1, <1>2, <1>9 DEF FilesInv, Whole
    <2>2. disk'[s.to] = disk[s.to]
        BY <1>4, <1>5, <1>8
    <2>3. Files!HasEdit(c, s.to, i, before[c][s.path].edits)'
        BY <1>2, <2>1, <2>2 DEF Files!HasEdit
    <2>4. ~disk'[s.path].present /\ patch'[c][i] = s
        BY <1>1, <1>2, <1>6, <1>8
    <2>5. QED
        BY <1>2, <1>4, <2>3, <2>4 DEF Files!Done
<1>10. phase[c] \in Applying /\ s.path \in {patch[c][step[c]].path, Files!Target(patch[c][step[c]])}
    BY <1>1, <1>2 DEF Applying
<1>11. QED
    BY <1>1, <1>2, <1>6, <1>7, <1>9, <1>10, FilesSaved

\* What a failed write or a restoration of c leaves: its step, its plan and its
\* snapshots, and the files but f.
Restores(c, f) ==
    /\ UNCHANGED <<patch, step, plan, snap, before, goesOn>>
    /\ faults' = faults \/ (faults < MaxFaults /\ faults' = faults + 1)
    /\ saved' = saved \/ saved' = [saved EXCEPT ![c] = @ \ {f}]
    /\ phase[c] \in Applying \cup Restoring
    /\ \E q \in Restoring \cup {"failed", "half restored"} :
          phase' = [phase EXCEPT ![c] = q]
    /\ \/ UNCHANGED <<disk, met>>
       \/ Files!Put(c, f, Files!Present({}))
       \/ Files!Put(c, f, snap[c][f])

\* Faults stay within their bound.
LEMMA FaultBounds ==
    ASSUME NEW m \in Nat, NEW n \in 0..m, NEW k, k = n \/ (n < m /\ k = n + 1)
    PROVE  n \in Nat /\ k \in Nat /\ k \in 0..m /\ n <= k
OBVIOUS

\* The same for every step of this kind, but for Whole(c).
LEMMA FilesRestored ==
    ASSUME FilesInv, NEW c \in Call, NEW f \in Files!Files(c), Restores(c, f)
    PROVE  /\ f \in File /\ Files!Files(c)' = Files!Files(c) /\ saved[c] \subseteq Files!Files(c)
           /\ IsFiniteSet(Files!Files(c)) /\ faults \in Nat
           /\ \A g \in Files!Files(c) \ {f} : disk'[g] = disk[g]
           /\ \/ UNCHANGED disk
              \/ disk'[f] = Files!Present({})
              \/ disk'[f] = snap[c][f]
           /\ Files!Put(c, f, snap[c][f]) => disk'[f] = snap[c][f]
           /\ c \in met => c \in met'
           /\ (c \notin met' => Whole(c)') => FilesInv'
<1>1. PICK q \in Restoring \cup {"failed", "half restored"} :
         phase' = [phase EXCEPT ![c] = q]
    BY DEF Restores
<1>2. /\ UNCHANGED <<patch, step, plan, snap, before, goesOn>>
      /\ faults' = faults \/ (faults < MaxFaults /\ faults' = faults + 1)
      /\ saved' = saved \/ saved' = [saved EXCEPT ![c] = @ \ {f}]
      /\ phase[c] \in Applying \cup Restoring
    BY DEF Restores
<1>3. Files!TypeOK /\ Progress(c) /\ FilesConst /\ phase[c] # "idle"
    BY <1>2, FilesConstants DEF FilesInv, Applying, Restoring
<1>4. /\ patch[c] \in Patches /\ step[c] \in 1..Len(patch[c])
      /\ saved[c] \subseteq Files!Files(c)
    BY <1>3 DEF Progress
<1>5. f \in File /\ IsFiniteSet(Files!Files(c)) /\ Files!Files(c) \subseteq File
    BY <1>4, PatchFiles, FilesAre
<1>6. Files!Files(c)' = Files!Files(c)
    BY <1>2 DEF Files!Files
<1>7. Files!Present({}) \in Files!Content /\ snap[c][f] \in Files!Content
    <2>1. Files!Present({}) \in Files!Content
        BY DEF Files!Present, Files!Content
    <2>2. snap \in [Call -> [File -> Files!Content]]
        BY <1>3 DEF Files!TypeOK
    <2>3. QED
        BY <1>5, <2>1, <2>2
<1>8. ASSUME NEW d \in Call \ {c}, phase[d] = "idle"
      PROVE  Foreign(d, Files!Present({})) /\ Foreign(d, snap[c][f])
    BY <1>5, <1>8 DEF FilesInv, Outside, Foreign, Files!Present
<1>9. /\ disk' \in [File -> Files!Content]
      /\ \A g \in File \ {f} : disk'[g] = disk[g]
      /\ \/ UNCHANGED disk
         \/ disk'[f] = Files!Present({})
         \/ disk'[f] = snap[c][f]
      /\ Files!Put(c, f, snap[c][f]) => disk'[f] = snap[c][f]
      /\ met \subseteq met' /\ met' \subseteq Call /\ (c \in met' => c \in met)
      /\ \A d \in Call \ {c} : phase[d] # "idle" /\ d \notin met' =>
            \A g \in Files!Files(d) : disk'[g] = disk[g]
      /\ \A d \in Call \ {c} : phase[d] = "idle" => \A g \in File : Foreign(d, disk'[g])
    <2>1. CASE Files!Put(c, f, snap[c][f])
        BY <1>3, <1>7, <1>8, <2>1, FilePut
    <2>2. CASE Files!Put(c, f, Files!Present({})) /\ ~Files!Put(c, f, snap[c][f])
        BY <1>3, <1>7, <1>8, <2>2, FilePut
    <2>3. CASE UNCHANGED <<disk, met>> /\ ~Files!Put(c, f, snap[c][f])
        BY <1>3, <2>3 DEF FilesInv, Files!TypeOK, Outside
    <2>4. QED
        BY <2>1, <2>2, <2>3 DEF Restores
<1>10. /\ faults \in Nat /\ faults' \in Nat
       /\ faults' \in 0..MaxFaults /\ faults <= faults'
    <2>1. faults \in 0..MaxFaults /\ MaxFaults \in Nat
        BY <1>3 DEF Files!TypeOK, FilesConst
    <2>2. faults' = faults \/ (faults < MaxFaults /\ faults' = faults + 1)
        BY <1>2
    <2>3. QED
        BY <2>1, <2>2, FaultBounds
<1>11. /\ saved' \in [Call -> SUBSET File] /\ saved'[c] \subseteq saved[c]
       /\ \A d \in Call \ {c} : saved'[d] = saved[d]
    BY <1>2, <1>3 DEF Files!TypeOK
<1>12. /\ phase' \in [Call -> Files!Phases] /\ phase'[c] = q
       /\ \A d \in Call \ {c} : phase'[d] = phase[d]
    BY <1>1, <1>3 DEF Files!TypeOK, Files!Phases, Restoring
<1>13. Files!TypeOK'
    BY <1>2, <1>3, <1>9, <1>10, <1>11, <1>12 DEF Files!TypeOK
<1>14. Progress(c)'
    BY <1>2, <1>4, <1>6, <1>11, <1>12 DEF Progress, Previewing, Applying, Restoring
<1>15. Others(c)
    <2>1. \A d \in Call \ {c} : Same(d)
        BY <1>2, <1>11, <1>12 DEF Same
    <2>2. QED
        BY <1>2, <1>9, <1>10, <2>1 DEF Others
<1>16. \A d \in Call \ {c} : phase[d] = "idle" =>
              /\ \A g \in File : Foreign(d, disk'[g]) /\ Foreign(d, snap'[c][g])
              /\ \A j \in DOMAIN plan'[c] : Foreign(d, plan'[c][j])
    BY <1>2, <1>9 DEF FilesInv, Outside
<1>17. \A g \in File : Foreign(c, before'[c][g])
    BY <1>2 DEF FilesInv
<1>18. phase'[c] # "idle"
    BY <1>1, <1>12 DEF Restoring
<1>19. (c \notin met' => Whole(c)') => FilesInv'
    BY <1>13, <1>14, <1>15, <1>16, <1>17, <1>18, FilesMoved
<1>20. QED
    BY <1>4, <1>5, <1>6, <1>9, <1>10, <1>19

\* A write that fails leaves all snapshots to be put back.
LEMMA FilesWriteFails ==
    ASSUME FilesInv, NEW c \in Call, NEW torn \in BOOLEAN, Files!WriteFails(c, torn),
           UNCHANGED goesOn
    PROVE  FilesInv'
<1>1. PICK f : f = Files!Target(patch[c][step[c]])
    OBVIOUS
<1>2. /\ phase[c] \in Applying /\ faults < MaxFaults /\ faults' = faults + 1
      /\ phase' = [phase EXCEPT ![c] = "restoring"]
      /\ \/ Files!Put(c, f, Files!Present({}))
         \/ UNCHANGED <<disk, met>>
      /\ UNCHANGED <<patch, step, plan, saved, snap, before>>
    BY <1>1 DEF Files!WriteFails, Files!Fault, Files!Enter, Applying
<1>3. Files!TypeOK /\ Progress(c) /\ phase[c] # "idle"
    BY <1>2 DEF FilesInv, Applying
<1>4. patch[c] \in Patches /\ step[c] \in DOMAIN patch[c] /\ saved[c] = Files!Files(c)
    BY <1>2, <1>3, PatchFiles DEF Progress
<1>5. f \in Files!Files(c)
    BY <1>1, <1>4, PatchFiles, FilesAre
<1>6. Restores(c, f)
    BY <1>2 DEF Restores, Restoring
<1>7. /\ Files!Files(c)' = Files!Files(c) /\ faults \in Nat /\ (c \in met => c \in met')
    BY <1>5, <1>6, FilesRestored
<1>8. phase'[c] = "restoring"
    BY <1>2, <1>3 DEF Files!TypeOK
<1>9. ASSUME c \notin met' PROVE Whole(c)'
    <2>0. c \notin met
        BY <1>7, <1>9
    <2>1. \A g \in saved[c] : snap[c][g] = before[c][g]
        BY <1>2, <2>0 DEF FilesInv, Whole
    <2>2. \A g \in saved'[c] : snap'[c][g] = before'[c][g]
        BY <1>2, <2>1
    <2>3. faults' > 0
        BY <1>2, <1>7
    <2>4. Files!Files(c)' \ saved'[c] = {}
        BY <1>2, <1>4, <1>7
    <2>5. Untouched(c, Files!Files(c) \ saved[c])'
        BY <2>4 DEF Untouched
    <2>6. QED
        BY <1>8, <2>2, <2>3, <2>5 DEF Whole, Previewing, Applying, Restoring
<1>10. QED
    BY <1>5, <1>6, <1>9, FilesRestored

\* The files that differ and have no snapshot left to put back.
LEMMA FilesToRestore ==
    ASSUME FilesInv, NEW c \in Call, phase[c] \in Restoring, NEW f \in saved[c], goesOn,
           c \notin met, Restores(c, f), saved'[c] = saved[c] \ {f}
    PROVE  /\ Cardinality(Files!Changed(c)' \ saved'[c]) \in Nat
           /\ disk'[f] = snap[c][f] => Cardinality(Files!Changed(c)' \ saved'[c]) < faults
           /\ Cardinality(Files!Changed(c)' \ saved'[c]) < faults + 1
<1>1. Progress(c) /\ Whole(c) /\ phase[c] # "idle"
    BY DEF FilesInv, Restoring
<1>2. f \in Files!Files(c) /\ saved[c] \subseteq Files!Files(c)
    BY <1>1 DEF Progress
<1>3. /\ Files!Files(c)' = Files!Files(c) /\ faults \in Nat /\ IsFiniteSet(Files!Files(c))
      /\ \A g \in Files!Files(c) \ {f} : disk'[g] = disk[g]
    BY <1>2, FilesRestored
<1>4. before'[c] = before[c] /\ snap[c][f] = before[c][f]
    BY <1>1 DEF Restores, Whole
<1>5. PICK S, T : S = Files!Changed(c) \ saved[c] /\ T = Files!Changed(c)' \ saved'[c]
    OBVIOUS
<1>6. S \subseteq Files!Files(c) /\ T \subseteq S \cup {f} /\ f \notin S
    BY <1>3, <1>4, <1>5 DEF Files!Changed
<1>7. disk'[f] = snap[c][f] => T \subseteq S
    BY <1>3, <1>4, <1>5, <1>6 DEF Files!Changed
<1>8. /\ IsFiniteSet(S) /\ Cardinality(S) \in Nat
      /\ IsFiniteSet(S \cup {f}) /\ Cardinality(S \cup {f}) = Cardinality(S) + 1
    BY <1>3, <1>6, FS_Subset, FS_CardinalityType, FS_AddElement
<1>9. /\ Cardinality(T) \in Nat /\ Cardinality(T) <= Cardinality(S) + 1
      /\ T \subseteq S => Cardinality(T) <= Cardinality(S)
    BY <1>6, <1>8, FS_Subset, FS_CardinalityType
<1>10. Cardinality(S) < faults
    <2>1. CASE phase[c] = "restoring the rest"
        BY <1>1, <1>5, <2>1, FilesCount DEF Whole
    <2>2. CASE phase[c] = "restoring"
        <3>1. S = {} /\ faults > 0
            BY <1>1, <1>5, <2>2 DEF Whole, Untouched, Files!Changed
        <3>2. QED
            BY <3>1, FS_EmptySet
    <2>3. QED
        BY <2>1, <2>2 DEF Restoring
<1>11. PICK n, m : n = Cardinality(S) /\ m = Cardinality(T)
    OBVIOUS
<1>12. /\ n \in Nat /\ m \in Nat /\ n < faults /\ m <= n + 1
       /\ disk'[f] = snap[c][f] => m <= n
    BY <1>7, <1>8, <1>9, <1>10, <1>11
<1>13. m < faults + 1 /\ (disk'[f] = snap[c][f] => m < faults)
    BY <1>3, <1>12
<1>14. QED
    BY <1>5, <1>11, <1>12, <1>13

\* A restoration puts a file back, or counts the fault that keeps it from it.
LEMMA FilesRestore ==
    ASSUME FilesInv, NEW c \in Call, NEW f \in File, UNCHANGED goesOn,
           Files!Restore(c, f) \/ \E torn \in BOOLEAN : Files!RestoreFails(c, f, torn)
    PROVE  FilesInv'
<1>1. PICK old : old = phase[c]
    OBVIOUS
<1>2. /\ old \in Restoring /\ f \in saved[c]
      /\ UNCHANGED <<patch, step, plan, snap, before>>
    BY <1>1 DEF Files!Restore, Files!RestoreFails, Restoring
<1>3. Files!TypeOK /\ Progress(c) /\ phase[c] # "idle"
    BY <1>1, <1>2 DEF FilesInv, Restoring
<1>4. f \in Files!Files(c) /\ saved[c] \subseteq Files!Files(c)
    BY <1>2, <1>3 DEF Progress
\* The snapshot of f was put back, passed over, or nothing follows.
<1>5. \/ /\ faults' = faults /\ Files!Put(c, f, snap[c][f])
         /\ saved' = [saved EXCEPT ![c] = @ \ {f}]
         /\ phase' = [phase EXCEPT ![c] =
               IF saved[c] = {f}
               THEN IF old = "restoring" THEN "failed" ELSE "half restored"
               ELSE old]
      \/ /\ faults < MaxFaults /\ faults' = faults + 1
         /\ Files!Put(c, f, Files!Present({})) \/ UNCHANGED <<disk, met>>
         /\ goesOn /\ saved' = [saved EXCEPT ![c] = @ \ {f}]
         /\ phase' = [phase EXCEPT ![c] =
               IF saved[c] = {f} THEN "half restored" ELSE "restoring the rest"]
      \/ /\ faults < MaxFaults /\ faults' = faults + 1
         /\ Files!Put(c, f, Files!Present({})) \/ UNCHANGED <<disk, met>>
         /\ ~goesOn /\ saved' = saved
         /\ phase' = [phase EXCEPT ![c] = "half restored"]
    <2>1. CASE Files!Restore(c, f)
        BY <1>1, <2>1 DEF Files!Restore, Files!AfterRestore, Files!Enter
    <2>2. CASE \E torn \in BOOLEAN : Files!RestoreFails(c, f, torn)
        BY <2>2 DEF Files!RestoreFails, Files!AfterRestore, Files!Enter, Files!Fault
    <2>3. QED
        BY <2>1, <2>2
<1>6. Restores(c, f)
    BY <1>1, <1>2, <1>5 DEF Restores, Restoring
<1>7. /\ Files!Files(c)' = Files!Files(c) /\ (c \in met => c \in met') /\ faults \in Nat
      /\ \A g \in Files!Files(c) \ {f} : disk'[g] = disk[g]
      /\ Files!Put(c, f, snap[c][f]) => disk'[f] = snap[c][f]
    BY <1>4, <1>6, FilesRestored
<1>8. ASSUME c \notin met' PROVE Whole(c)'
    <2>0. c \notin met
        BY <1>7, <1>8
    <2>1. c \notin met /\ Whole(c)
        BY <2>0 DEF FilesInv
    <2>2. \A g \in saved[c] : snap[c][g] = before[c][g]
        BY <1>1, <1>2, <2>1 DEF Whole
    <2>3. ASSUME saved'[c] = saved[c] \ {f}, goesOn
          PROVE  /\ Cardinality(Files!Changed(c)' \ saved'[c]) \in Nat
                 /\ disk'[f] = snap[c][f] =>
                       Cardinality(Files!Changed(c)' \ saved'[c]) < faults
                 /\ Cardinality(Files!Changed(c)' \ saved'[c]) < faults + 1
        BY <1>1, <1>2, <1>6, <2>1, <2>3, FilesToRestore
    <2>5. CASE /\ faults' = faults /\ Files!Put(c, f, snap[c][f])
               /\ saved' = [saved EXCEPT ![c] = @ \ {f}]
               /\ phase' = [phase EXCEPT ![c] =
                     IF saved[c] = {f}
                     THEN IF old = "restoring" THEN "failed" ELSE "half restored"
                     ELSE old]
        <3>1. saved'[c] = saved[c] \ {f} /\ disk'[f] = snap[c][f]
            BY <1>3, <1>7, <2>5 DEF Files!TypeOK
        <3>2. \A g \in saved'[c] : snap'[c][g] = before'[c][g]
            BY <1>2, <2>2, <3>1
        <3>3. CASE old = "restoring"
            <4>1. faults > 0 /\ Untouched(c, Files!Files(c) \ saved[c])
                BY <1>1, <2>1, <3>3 DEF Whole
            <4>2. Untouched(c, Files!Files(c) \ saved[c])'
                BY <1>2, <1>4, <1>7, <2>2, <3>1, <4>1 DEF Untouched
            <4>3. CASE saved[c] = {f}
                <5>1. phase'[c] = "failed" /\ saved'[c] = {}
                    BY <1>3, <2>5, <3>1, <3>3, <4>3 DEF Files!TypeOK
                <5>2. Untouched(c, Files!Files(c))'
                    BY <4>2, <5>1 DEF Untouched
                <5>3. QED
                    BY <5>1, <5>2 DEF Whole, Previewing, Applying, Restoring
            <4>4. CASE saved[c] # {f}
                <5>1. phase'[c] = "restoring" /\ faults' > 0
                    BY <1>3, <2>5, <3>3, <4>1, <4>4 DEF Files!TypeOK
                <5>2. QED
                    BY <3>2, <4>2, <5>1 DEF Whole, Previewing, Applying, Restoring
            <4>5. QED
                BY <4>3, <4>4
        <3>4. CASE old = "restoring the rest"
            <4>1. goesOn => Cardinality(Files!Changed(c)' \ saved'[c]) < faults'
                BY <2>3, <2>5, <3>1
            <4>2. CASE saved[c] = {f}
                <5>1. phase'[c] = "half restored" /\ saved'[c] = {}
                    BY <1>3, <2>5, <3>1, <3>4, <4>2 DEF Files!TypeOK
                <5>2. Files!Changed(c)' \ saved'[c] = Files!Changed(c)'
                    BY <5>1
                <5>3. goesOn' => Cardinality(Files!Changed(c)') < faults'
                    BY <4>1, <5>2
                <5>4. QED
                    BY <5>1, <5>3 DEF Whole, Previewing, Applying, Restoring
            <4>3. CASE saved[c] # {f}
                <5>1. phase'[c] = "restoring the rest"
                    BY <1>3, <2>5, <3>4, <4>3 DEF Files!TypeOK
                <5>2. QED
                    BY <3>2, <4>1, <5>1 DEF Whole, Previewing, Applying, Restoring
            <4>4. QED
                BY <4>2, <4>3
        <3>5. QED
            BY <1>2, <3>3, <3>4 DEF Restoring
    <2>6. CASE /\ faults < MaxFaults /\ faults' = faults + 1
               /\ Files!Put(c, f, Files!Present({})) \/ UNCHANGED <<disk, met>>
               /\ goesOn /\ saved' = [saved EXCEPT ![c] = @ \ {f}]
               /\ phase' = [phase EXCEPT ![c] =
                     IF saved[c] = {f} THEN "half restored" ELSE "restoring the rest"]
        <3>1. saved'[c] = saved[c] \ {f}
            BY <1>3, <2>6 DEF Files!TypeOK
        <3>2. \A g \in saved'[c] : snap'[c][g] = before'[c][g]
            BY <1>2, <2>2, <3>1
        <3>3. Cardinality(Files!Changed(c)' \ saved'[c]) < faults'
            BY <2>3, <2>6, <3>1
        <3>4. CASE saved[c] = {f}
            <4>1. phase'[c] = "half restored" /\ saved'[c] = {}
                BY <1>3, <2>6, <3>1, <3>4 DEF Files!TypeOK
            <4>2. Files!Changed(c)' \ saved'[c] = Files!Changed(c)'
                BY <4>1
            <4>3. Cardinality(Files!Changed(c)') < faults'
                BY <3>3, <4>2
            <4>4. QED
                BY <4>1, <4>3 DEF Whole, Previewing, Applying, Restoring
        <3>5. CASE saved[c] # {f}
            <4>1. phase'[c] = "restoring the rest"
                BY <1>3, <2>6, <3>5 DEF Files!TypeOK
            <4>2. QED
                BY <3>2, <3>3, <4>1 DEF Whole, Previewing, Applying, Restoring
        <3>6. QED
            BY <3>4, <3>5
    <2>7. CASE ~goesOn /\ phase' = [phase EXCEPT ![c] = "half restored"]
        <3>1. phase'[c] = "half restored" /\ ~goesOn'
            BY <1>3, <2>7 DEF Files!TypeOK
        <3>2. QED
            BY <3>1 DEF Whole, Previewing, Applying, Restoring
    <2>8. QED
        BY <1>5, <2>5, <2>6, <2>7
<1>9. QED
    BY <1>4, <1>6, <1>8, FilesRestored

\* Every step of the calls keeps their invariant.
LEMMA FilesNext ==
    ASSUME FilesInv, Files!Next
    PROVE  FilesInv'
<1>1. PICK c \in Call :
         /\ \/ \E p \in Patches : Files!Start(c, p)
            \/ Files!PlanSection(c) \/ Files!PreviewFails(c) \/ Files!Deny(c)
            \/ \E edited \in BOOLEAN : Files!Allow(c, edited)
            \/ Files!Saving(c)
         /\ UNCHANGED goesOn
    BY DEF Files!Next
<1>2. CASE \E p \in Patches : Files!Start(c, p)
    BY <1>1, <1>2, FilesStart
<1>3. CASE Files!PlanSection(c)
    BY <1>1, <1>3, FilesPlanSection
<1>4. CASE Files!PreviewFails(c) \/ Files!Deny(c)
    BY <1>1, <1>4, FilesPreviewFails
<1>5. CASE \E edited \in BOOLEAN : Files!Allow(c, edited)
    BY <1>1, <1>5, FilesAllow
<1>6. CASE Files!Saving(c)
    <2>1. CASE Files!SnapshotFails(c)
        BY <1>1, <2>1, FilesPreviewFails
    <2>2. CASE Files!Write(c)
        BY <1>1, <2>2, FilesWrite
    <2>3. CASE Files!Remove(c)
        BY <1>1, <2>3, FilesRemove
    <2>4. CASE \E f \in File : Files!Snapshot(c, f)
        BY <1>1, <2>4, FilesSnapshot
    <2>5. CASE \E f \in File : Files!Restore(c, f)
        BY <1>1, <2>5, FilesRestore
    <2>6. CASE \E torn \in BOOLEAN : Files!WriteFails(c, torn)
        BY <1>1, <2>6, FilesWriteFails
    <2>7. CASE \E torn \in BOOLEAN, f \in File : Files!RestoreFails(c, f, torn)
        BY <1>1, <2>7, FilesRestore
    <2>8. QED
        BY <1>6, <2>1, <2>2, <2>3, <2>4, <2>5, <2>6, <2>7 DEF Files!Saving
<1>7. QED
    BY <1>1, <1>2, <1>3, <1>4, <1>5, <1>6

\* A step of another part keeps it.
LEMMA FilesStay ==
    ASSUME FilesInv, UNCHANGED filesVars
    PROVE  FilesInv'
<1>1. Files!TypeOK'
    BY DEF FilesInv, Files!TypeOK, filesVars
<1>2. \A c \in Call : Progress(c)'
    BY DEF FilesInv, Progress, Files!Files, filesVars
<1>3. \A c \in Call : \A f \in File : Foreign(c, before'[c][f])
    BY DEF FilesInv, filesVars
<1>4. \A c \in Call : phase'[c] = "idle" => Outside(c)'
    BY DEF FilesInv, Outside, filesVars
<1>5. ASSUME NEW c \in Call \ met' PROVE Whole(c)'
    <2>1. Whole(c)
        BY <1>5 DEF FilesInv, filesVars
    <2>2. CASE phase[c] = "idle"
        BY <2>2 DEF Whole, Previewing, Applying, Restoring, filesVars
    <2>3. CASE phase[c] # "idle"
        <3>1. faults \in Nat /\ faults' \in Nat /\ faults <= faults'
            BY FilesConstants DEF FilesInv, Files!TypeOK, FilesConst, filesVars
        <3>2. Same(c) /\ UNCHANGED goesOn
            BY DEF Same, filesVars
        <3>3. \A f \in Files!Files(c) : disk'[f] = disk[f]
            BY DEF filesVars
        <3>4. QED
            BY <2>1, <2>3, <3>1, <3>2, <3>3, FilesLeft
    <2>4. QED
        BY <2>2, <2>3
<1>6. QED
    BY <1>1, <1>2, <1>3, <1>4, <1>5 DEF FilesInv, Foreign

\* The invariant makes a patch all or nothing.
LEMMA FilesWhole ==
    ASSUME FilesInv
    PROVE  Files!PatchIsWhole
<1>1. SUFFICES ASSUME NEW c \in Call \ met
               PROVE  /\ phase[c] = "completed" /\ Files!Plain(patch[c]) =>
                            \A i \in DOMAIN patch[c] : Files!Done(c, i)
                      /\ phase[c] = "failed" => Files!Changed(c) = {}
                      /\ goesOn /\ phase[c] = "half restored" =>
                            Files!Cardinality(Files!Changed(c)) < faults
    BY DEF Files!PatchIsWhole
<1>2. Whole(c)
    BY DEF FilesInv
<1>3. phase[c] = "failed" => Files!Changed(c) = {}
    BY <1>2 DEF Whole, Untouched, Files!Changed
<1>4. QED
    BY <1>2, <1>3, FilesCount DEF Whole

-----------------------------------------------------------------------------
(* The parts together.                                                     *)

Parts == {"steers", "events", "stream", "chats", "turn", "files"}

WorkersInv ==
    /\ part \in Parts
    /\ SteersInv /\ EventsInv /\ StreamInv /\ ChatsInv /\ TurnInv /\ FilesInv

\* Each part begins with its invariant.
LEMMA WorkersInit ==
    ASSUME Init
    PROVE  WorkersInv
<1>1. part \in Parts
    BY DEF Init, Parts
<1>2. SteersInv /\ EventsInv
    BY SteersInit, EventsInit DEF Init
<1>3. StreamInv /\ ChatsInv
    BY StreamInit, ChatsInit DEF Init
<1>4. TurnInv /\ FilesInv
    BY TurnInit, FilesInit DEF Init
<1>5. QED
    BY <1>1, <1>2, <1>3, <1>4 DEF WorkersInv

\* A step of one part keeps its invariant, and leaves the others' alone.
LEMMA WorkersNext ==
    ASSUME WorkersInv, [Next]_vars
    PROVE  WorkersInv'
<1>1. part' = part
    BY DEF Next, SteersStep, EventsStep, StreamStep, ChatsStep, TurnStep, FilesStep, vars
<1>2. Steers!Next \/ UNCHANGED steersVars
    BY DEF Next, SteersStep, EventsStep, StreamStep, ChatsStep, TurnStep, FilesStep, vars
<1>3. Events!Next \/ UNCHANGED eventsVars
    BY DEF Next, SteersStep, EventsStep, StreamStep, ChatsStep, TurnStep, FilesStep, vars
<1>4. Stream!Next \/ UNCHANGED streamVars
    BY DEF Next, SteersStep, EventsStep, StreamStep, ChatsStep, TurnStep, FilesStep, vars
<1>5. Chats!Next \/ UNCHANGED chatsVars
    BY DEF Next, SteersStep, EventsStep, StreamStep, ChatsStep, TurnStep, FilesStep, vars
<1>6. Turn!Next \/ UNCHANGED turnVars
    BY DEF Next, SteersStep, EventsStep, StreamStep, ChatsStep, TurnStep, FilesStep, vars
<1>7. Files!Next \/ UNCHANGED filesVars
    BY DEF Next, SteersStep, EventsStep, StreamStep, ChatsStep, TurnStep, FilesStep, vars
<1>8. SteersInv'
    BY <1>2, SteersNext, SteersStay DEF WorkersInv
<1>9. EventsInv'
    BY <1>3, EventsNext, EventsStay DEF WorkersInv
<1>10. StreamInv'
    BY <1>4, StreamNext, StreamStays DEF WorkersInv
<1>11. ChatsInv'
    BY <1>5, ChatsNext, ChatsStay DEF WorkersInv
<1>12. TurnInv'
    BY <1>6, TurnNext, TurnStays DEF WorkersInv
<1>13. FilesInv'
    BY <1>7, FilesNext, FilesStay DEF WorkersInv
<1>14. QED
    BY <1>1, <1>8, <1>9, <1>10, <1>11, <1>12, <1>13 DEF WorkersInv

\* The invariant of the parts holds in every behaviour.
THEOREM WorkersAlways == Spec => []WorkersInv
<1>1. Init => WorkersInv
    BY WorkersInit
<1>2. WorkersInv /\ [Next]_vars => WorkersInv'
    BY WorkersNext
<1>3. QED
    BY <1>1, <1>2, PTL DEF Spec

\* Leases, channels, frames, executions, histories and patches keep the form
\* the code gives them, for any number of claims, events, tokens, runs and files.
THEOREM WorkersAreTyped == Spec => []TypeOK
<1>1. WorkersInv => Steers!TypeOK /\ Chats!TypeOK /\ Turn!TypeOK /\ Files!TypeOK
    BY DEF WorkersInv, SteersInv, ChatsInv, TurnInv, FilesInv
<1>2. WorkersInv => Events!TypeOK /\ Stream!TypeOK
    BY EventsAreThere, StreamTyped DEF WorkersInv
<1>3. WorkersInv => TypeOK
    BY <1>1, <1>2 DEF TypeOK
<1>4. QED
    BY <1>3, WorkersAlways, PTL

\* However often the activation is recovered and claimed again and responses are
\* lost, a steer in delivery is with the worker that has the lease, and one that
\* counts as delivered was taken by an executor.
THEOREM SteersKept == Spec => []SteersAreKept
<1>1. WorkersInv => SteersAreKept
    BY DEF WorkersInv, SteersInv, SteersAreKept
<1>2. QED
    BY <1>1, WorkersAlways, PTL

\* No event of an accepted completion is missing unless a cancelled executor
\* dropped it, and none is there twice unless its live request was given up,
\* whatever the number of events and the size of the channel.
THEOREM EventsKept == Spec => []EventsAreKept
<1>1. WorkersInv => EventsAreKept
    BY EventsAreThere, ChatsEvents DEF WorkersInv, EventsAreKept
<1>2. QED
    BY <1>1, WorkersAlways, PTL

\* A response of the model holds the tokens that were shown, for every queue
\* capacity, continuation policy and number of fallbacks.
THEOREM ShownIsContent == Spec => []ContentWasShown
<1>1. WorkersInv => ContentWasShown
    BY DEF WorkersInv, StreamInv, ContentWasShown
<1>2. QED
    BY <1>1, WorkersAlways, PTL

\* A chat's run that looks busy is held by exactly one worker.
THEOREM BusyRunIsHeld == Spec => []BusyIsHeld
<1>1. WorkersInv => BusyIsHeld
    BY OneIsHeld DEF WorkersInv, BusyIsHeld
<1>2. QED
    BY <1>1, WorkersAlways, PTL

\* The model is never asked with a call unanswered; after a stop no round is
\* begun, and at most one compression and one summary are asked for.
THEOREM CallsGetAnswers == Spec => []CallsAnswered
<1>1. WorkersInv => CallsAnswered
    BY DEF WorkersInv, TurnInv, CallsAnswered
<1>2. QED
    BY <1>1, WorkersAlways, PTL

\* A patch whose files no other call wrote to is applied whole or leaves the files
\* as they were, except those that a restoration could not write: for every
\* patch, number of files and number of calls that overlap.
THEOREM PatchAllOrNothing == Spec => []PatchIsWhole
<1>1. WorkersInv => PatchIsWhole
    BY FilesWhole DEF WorkersInv, PatchIsWhole
<1>2. QED
    BY <1>1, WorkersAlways, PTL
\* What a cancellation or a stop decided of a chat's run is not undone by the
\* execution that was still going on, nor by its heartbeat or the recovery of its
\* lease, whatever the number of runs: only the next message starts it again.
THEOREM DecisionIsKept == Spec => Chats!DecisionHolds
<1>1. [Next]_vars => Chats!Next \/ UNCHANGED chatsVars
    BY DEF Next, SteersStep, EventsStep, StreamStep, ChatsStep, TurnStep, FilesStep, vars
<1>2. WorkersInv /\ [Next]_vars => [Keeps]_Chats!vars
    BY <1>1, DecisionKept DEF WorkersInv
<1>3. []WorkersInv /\ [][Next]_vars => [][Keeps]_Chats!vars
    BY <1>2, PTL
<1>4. QED
    BY <1>3, WorkersAlways DEF Spec, Keeps, Chats!DecisionHolds
=============================================================================
