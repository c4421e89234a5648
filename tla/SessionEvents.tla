----------------------------- MODULE SessionEvents -----------------------------
(***************************************************************************)
(* The event stream of a SessionRun: one sequence of numbers, two bounded  *)
(* buffers (replayable events and live-only ones), deltas that wait to be  *)
(* joined with the next ones, a branch that shares the past of its parent  *)
(* and clients that read after a cursor of their own.  Every operation     *)
(* runs under the lock of the SessionRun.                                  *)
(*                                                                         *)
(* The content of a delta is the numbers of its pieces; time only decides  *)
(* whether what is pending is due.  Of an event's size only counts whether *)
(* it is above a buffer's bound of bytes by itself.                        *)
(***************************************************************************)
EXTENDS Naturals, Sequences, FiniteSets, FiniteSetsExt

CONSTANTS
    Reader,    \* [client -> the branch it reads]
    Clients,
    MaxEvents, \* max_events of each buffer
    MaxLog,    \* bound: events appended
    MaxPieces  \* bound: pieces of each branch

SessionEventsAssumption ==
    /\ Reader \in [Clients -> {"parent", "child"}]
    /\ MaxEvents \in Nat \ {0} /\ MaxLog \in Nat /\ MaxPieces \in Nat

VARIABLES
    log,     \* every event appended, by number: [branch, buffer, pieces]
    big,     \* the numbers of the events above max_total_bytes by themselves
    durable, \* _event_buffer: the numbers it holds
    live,    \* _live_event_buffer: the numbers it holds
    pending, \* _pending_live_events: [branch -> pieces not appended yet]
    pieces,  \* [branch -> pieces received]
    base,    \* base of the child branch, NoBase before the fork
    cursor,  \* [client -> number it has read to]
    seen,    \* [client -> the numbers it was given]
    lost     \* [client -> the number up to which it was told of a loss]

vars == <<log, big, durable, live, pending, pieces, base, cursor, seen, lost>>
clientVars == <<cursor, seen, lost>>

Branch == {"parent", "child"}
NoBase == MaxLog + 1
Forked == base # NoBase
Open(b) == b = "parent" \/ Forked

TypeOK ==
    /\ \A n \in DOMAIN log :
         log[n].branch \in Branch /\ log[n].buffer \in {"durable", "live"}
    /\ durable \cup live \cup big \subseteq DOMAIN log /\ durable \cap live = {}
    /\ Cardinality(durable) <= MaxEvents /\ Cardinality(live) <= MaxEvents
    /\ \A b \in Branch : \A i \in DOMAIN pending[b] : pending[b][i] \in 1..pieces[b]
    /\ base \in 0..NoBase
    /\ \A c \in Clients : cursor[c] \in 0..MaxLog /\ lost[c] <= cursor[c]

Init ==
    /\ log = <<>> /\ big = {} /\ durable = {} /\ live = {}
    /\ pending = [b \in Branch |-> <<>>] /\ pieces = [b \in Branch |-> 0]
    /\ base = NoBase
    /\ cursor = [c \in Clients |-> 0]
    /\ seen = [c \in Clients |-> {}] /\ lost = [c \in Clients |-> 0]

-----------------------------------------------------------------------------
(* The buffers *)

\* _prune: the oldest go, until MaxEvents are left at most and their bytes fit.
\* How many fit is left open: at least the newest, unless it is too big by itself.
Prunings(buffer, tooBig) ==
    {kept \in SUBSET buffer :
        /\ Cardinality(kept) <= MaxEvents /\ kept \cap tooBig = {}
        /\ \A n \in buffer \ kept : \A h \in kept : n < h
        /\ kept = {} => \A n \in buffer : \E m \in buffer \cap tooBig : n <= m}

\* The numbers of the events that are appended.
Numbers(events) == Len(log) + 1 .. Len(log) + Len(events)

Item(b) == [branch |-> b, buffer |-> "durable", pieces |-> <<>>]
Delta(b, ps) == [branch |-> b, buffer |-> "durable", pieces |-> ps]

\* The events made of what is pending in the branches; their order among
\* each other does not matter to a branch.
Flushed(branches) ==
    LET Of(b) == IF b \in branches /\ pending[b] # <<>> THEN <<Delta(b, pending[b])>>
                                                       ELSE <<>>
    IN Of("parent") \o Of("child")

\* Events of any size.
Sized(numbers) == \E those \in SUBSET numbers : big' = big \cup those

\* append of durable events; the bounds are kept.
Write(events) ==
    /\ Len(log) + Len(events) <= MaxLog
    /\ log' = log \o events /\ Sized(Numbers(events))
    /\ durable' \in Prunings(durable \cup Numbers(events), big')

-----------------------------------------------------------------------------
(* What is appended *)

\* append_event: what is pending goes first.
AppendEvent(b) ==
    /\ Open(b)
    /\ Write(Append(Flushed(Branch), Item(b)))
    /\ pending' = [c \in Branch |-> <<>>]
    /\ UNCHANGED <<live, pieces, base, clientVars>>

\* project_agent_run_events appends without a flush.
Project(b) ==
    /\ Open(b)
    /\ Write(<<Item(b)>>)
    /\ UNCHANGED <<live, pending, pieces, base, clientVars>>

\* append_live_event: the number comes after what was pending.
AppendLive(b) ==
    /\ Open(b)
    /\ LET flushed == Flushed(Branch)
           number == Len(log) + Len(flushed) + 1
       IN /\ number <= MaxLog
          /\ log' = Append(log \o flushed,
                           [branch |-> b, buffer |-> "live", pieces |-> <<>>])
          /\ Sized(Numbers(flushed) \cup {number})
          /\ durable' \in Prunings(durable \cup Numbers(flushed), big')
          /\ live' \in Prunings(live \cup {number}, big')
    /\ pending' = [c \in Branch |-> <<>>]
    /\ UNCHANGED <<pieces, base, clientVars>>

\* The piece is appended at once when nothing of its branch is pending and
\* nothing was just flushed.
AtOnce(b, due) == pending[b] = <<>> /\ b \notin due

\* _append_live_event_locked: what is due is flushed; the new piece is
\* appended, or joins what is pending.
AppendDelta(b, due) ==
    /\ Open(b)
    /\ LET piece == pieces[b] + 1
           kept == [c \in Branch |-> IF c \in due THEN <<>> ELSE pending[c]]
       IN \/ /\ AtOnce(b, due)
             /\ Write(Append(Flushed(due), Delta(b, <<piece>>)))
             /\ pending' = kept
             /\ pieces' = [pieces EXCEPT ![b] = piece]
          \/ /\ Write(Flushed(due))
             /\ pending' = [kept EXCEPT ![b] = Append(@, piece)]
             /\ pieces' = [pieces EXCEPT ![b] = piece]
    /\ UNCHANGED <<live, base, clientVars>>

\* A child branch is made at a replayable event of its parent, or at the root.
Fork ==
    /\ ~Forked
    /\ base' \in {0} \cup {n \in durable : log[n].branch = "parent"}
    /\ UNCHANGED <<log, big, durable, live, pending, pieces, clientVars>>

-----------------------------------------------------------------------------
(* What is read *)

\* _branch_base_seq_locked: a base that is no longer in the buffer hides the
\* past of the parent.
Limit == IF base \in durable THEN base ELSE 0

Visible(n, b) ==
    log[n].branch = b \/ (b = "child" /\ log[n].branch = "parent" /\ n <= Limit)

Made(buffer) == {n \in DOMAIN log : log[n].buffer = buffer}

\* Mutant: only the replayable buffer tells of a loss.
NoticeDurable(held, made, after) ==
    IF made = Made("live") THEN 0
    ELSE IF held # {} /\ held # made /\ after < Min(held) - 1 THEN Min(held) - 1 ELSE 0

\* events_lost: a buffer that holds something tells that events after the cursor
\* were dropped, with the number before the first one it holds.
Notice(held, made, after) ==
    IF held # {} /\ held # made /\ after < Min(held) - 1 THEN Min(held) - 1 ELSE 0

\* _events_after_locked: the cursor goes to the newest number of both buffers.
NextCursor(c, given) == Max({cursor[c]} \cup given \cup durable \cup live)

\* wait_events flushes what is due and gives the visible events.
Read(c) ==
    /\ Open(Reader[c])
    /\ LET new == {n \in durable \cup live : n > cursor[c]}
           given == {n \in new : Visible(n, Reader[c])}
           told == Max({Notice(durable, Made("durable"), cursor[c]),
                        Notice(live, Made("live"), cursor[c])})
       IN /\ new # {} \/ told > 0
          /\ seen' = [seen EXCEPT ![c] = @ \cup given]
          /\ lost' = [lost EXCEPT ![c] = Max({@, told})]
          /\ cursor' = [cursor EXCEPT ![c] = NextCursor(c, given \cup {told})]
    /\ UNCHANGED <<log, big, durable, live, pending, pieces, base>>

\* The flush of what is due, by wait_events.
FlushDue(due) ==
    /\ due # {} /\ \A b \in due : pending[b] # <<>>
    /\ Write(Flushed(due))
    /\ pending' = [b \in Branch |-> IF b \in due THEN <<>> ELSE pending[b]]
    /\ UNCHANGED <<live, pieces, base, clientVars>>

Due == {due \in SUBSET Branch : \A b \in due : pending[b] # <<>>}

Next ==
    \/ \E b \in Branch : AppendEvent(b) \/ Project(b) \/ AppendLive(b)
    \/ \E b \in Branch, due \in Due : pieces[b] < MaxPieces /\ AppendDelta(b, due)
    \/ \E due \in Due : FlushDue(due)
    \/ Fork
    \/ \E c \in Clients : Read(c)

Spec == Init /\ [][Next]_vars

-----------------------------------------------------------------------------
(* Properties *)

\* What a client of the branch should be given.
MeantFor(c) ==
    {n \in DOMAIN log :
        \/ log[n].branch = Reader[c]
        \/ Reader[c] = "child" /\ log[n].branch = "parent" /\ n <= base}

\* An event above the bound of bytes emptied the buffer of event n.
Emptied(n) == \E k \in big : n <= k /\ log[k].buffer = log[n].buffer

\* The event, or the base that shows it to the child branch, was emptied out.
Hidden(c, n) == Emptied(n) \/ (log[n].branch # Reader[c] /\ Emptied(base))

\* An event is lost silently only where one that is above the bound of bytes by
\* itself emptied its buffer, or that of the base: up to its cursor a client was
\* given every other event of its branch, or told of a loss that covers it,
\* however the two buffers drop events and the pending deltas get their numbers
\* between its reads.
LossIsAnnounced ==
    \A c \in Clients : \A n \in MeantFor(c) :
        n <= cursor[c] => n \in seen[c] \/ n <= lost[c] \/ Hidden(c, n)

\* A branch shows of its parent only what was there at its base, also when the
\* base was dropped; a parent shows nothing of the child.
BranchesStayApart ==
    \A c \in Clients : Open(Reader[c]) => seen[c] \subseteq MeantFor(c)

\* The pieces of a branch are appended in the order they came, and none twice.
PiecesInOrder ==
    \A m, n \in DOMAIN log :
        m < n /\ log[m].branch = log[n].branch =>
            \A i \in DOMAIN log[m].pieces, j \in DOMAIN log[n].pieces :
                log[m].pieces[i] < log[n].pieces[j]

-----------------------------------------------------------------------------
(* What a document says and the code does not keep: README.md tells what   *)
(* happens instead.                                                        *)

\* A gap in the events is announced, whatever made it.
EveryLossIsAnnounced ==
    \A c \in Clients : \A n \in MeantFor(c) :
        n <= cursor[c] => n \in seen[c] \/ n <= lost[c]
=============================================================================
