----------------------------- MODULE AgentTurn -----------------------------
(***************************************************************************)
(* An agent's chats: the rounds of model requests and tool calls of one    *)
(* user message, the cooperative stop another thread asks for, and the     *)
(* document draft whose body the model streams. An interrupted draft is    *)
(* kept on the agent as a checkpoint, and the next chat takes it up.  Of   *)
(* the history's compression only its model request is modelled.           *)
(***************************************************************************)
EXTENDS Naturals

CONSTANTS
    Draft,       \* document drafts, each for a file of its own
    MaxRounds,   \* Agent.max_rounds
    MaxCalls,    \* bound: tool calls of one answer
    MaxChats,    \* bound: chats
    Renewed,     \* a new agent may take the session over between two chats
    NoDraft      \* not a draft

AgentTurnAssumption ==
    /\ {MaxRounds, MaxCalls} \subseteq Nat \ {0} /\ MaxChats \in Nat
    /\ Renewed \in BOOLEAN
    /\ NoDraft \notin Draft

VARIABLES
    at,         \* where the chat is
    stop,       \* Agent._stop_event
    round,
    calls,      \* calls of the last answer
    todo,       \* those that are still to be executed
    dangling,   \* calls of the history without a tool message
    active,     \* DocumentDraftRuntime.active, and whether it has text
    checkpoint, \* Agent.pending_document_draft_checkpoint
    drafts,     \* [Draft -> what the events say of it]
    writes,     \* [Draft -> times its file was written]
    outcome,    \* how the loop ended
    last,       \* statuses of the usage event and of session_run_end
    asked,      \* history: rounds and summaries of this chat begun after the stop
    compressed, \* history: requests for a compression begun after the stop
    chats,
    interactive \* there is an approval provider: calls run one after another

loop == <<round, calls, todo>>
requests == <<asked, compressed>>
draft == <<active, checkpoint, drafts, writes>>
vars == <<at, stop, loop, dangling, draft, outcome, last, requests, chats, interactive>>

Over == {"committed", "cancelled", "failed"}
None == [id |-> NoDraft, text |-> FALSE]
Silent == [usage |-> "none", end |-> "none"]

TypeOK ==
    /\ at \in {"idle", "compress", "top", "asking", "answered", "tools", "summing", "ended"}
    /\ stop \in BOOLEAN
    /\ round \in 0..MaxRounds
    /\ {calls, todo, dangling} \subseteq 0..MaxCalls
    /\ at = "tools" => todo = dangling
    /\ {active, checkpoint} \subseteq [id : Draft, text : BOOLEAN] \cup {None}
    /\ active # None => at # "idle"
    /\ drafts \in [Draft -> {"none", "streaming", "interrupted"} \cup Over]
    /\ writes \in [Draft -> Nat]
    /\ asked \in 0..MaxRounds + 1 /\ compressed \in 0..MaxRounds + 1
    /\ chats \in 0..MaxChats
    /\ interactive \in BOOLEAN

Init ==
    /\ at = "idle" /\ stop = FALSE
    /\ round = 0 /\ calls = 0 /\ todo = 0 /\ dangling = 0
    /\ active = None /\ checkpoint = None
    /\ drafts = [d \in Draft |-> "none"]
    /\ writes = [d \in Draft |-> 0]
    /\ outcome = "none" /\ last = Silent
    /\ asked = 0 /\ compressed = 0 /\ chats = 0 /\ interactive \in BOOLEAN

-----------------------------------------------------------------------------
(* The chat begins and ends *)

\* Mutant: the calls a chat left without an answer are not reconciled.
ChatUnreconciled ==
    /\ at = "idle" /\ chats < MaxChats
    /\ chats' = chats + 1
    /\ stop' = FALSE /\ asked' = 0 /\ compressed' = 0
    /\ at' = "compress" /\ round' = 0 /\ last' = Silent
    /\ active' = checkpoint
    /\ UNCHANGED <<calls, todo, dangling, checkpoint, drafts, writes, outcome>>

\* A message: the stop is cleared, dangling calls are answered, and the loop
\* takes up the draft of the checkpoint. A hook may refuse the message.
Chat ==
    /\ at = "idle" /\ chats < MaxChats
    /\ chats' = chats + 1
    /\ stop' = FALSE /\ dangling' = 0 /\ asked' = 0 /\ compressed' = 0
    /\ \/ /\ at' = "compress" /\ round' = 0 /\ last' = Silent
          /\ active' = checkpoint
       \/ /\ last' = [usage |-> "blocked", end |-> "blocked"]
          /\ UNCHANGED <<at, round, active>>
    /\ UNCHANGED <<calls, todo, checkpoint, drafts, writes, outcome>>

RequestStop ==
    /\ at # "idle"
    /\ stop' = TRUE
    /\ UNCHANGED <<at, loop, dangling, draft, outcome, last, requests, chats>>

\* A new agent continues the session: the history is loaded, the checkpoint is
\* not part of it.
Renew ==
    /\ Renewed /\ at = "idle"
    /\ stop' = FALSE /\ checkpoint' = None
    /\ UNCHANGED <<at, loop, dangling, active, drafts, writes, outcome, last, requests,
                   chats>>

\* What the chat reports once the loop has returned.
Conclude ==
    /\ at = "ended"
    /\ last' = IF outcome = "interrupted" THEN [usage |-> "interrupted", end |-> "interrupted"]
               ELSE IF stop THEN [usage |-> "cancelled", end |-> "done"]
               ELSE [usage |-> outcome, end |-> outcome]
    /\ at' = "idle"
    /\ UNCHANGED <<stop, loop, dangling, draft, outcome, requests, chats>>

\* An exception of the model or of a tool: the calls are answered, and the
\* runtime of the draft goes with the loop.
Raise ==
    /\ at \in {"asking", "tools", "summing"}
    /\ at' = "idle" /\ dangling' = 0 /\ todo' = 0
    /\ active' = None
    /\ last' = [usage |-> "error", end |-> "none"]
    /\ UNCHANGED <<stop, round, calls, checkpoint, drafts, writes, outcome, requests, chats>>

-----------------------------------------------------------------------------
(* The draft *)

\* The active draft ends as `how`; the loop returns.
DraftEnds(how) ==
    /\ drafts' = IF active = None THEN drafts ELSE [drafts EXCEPT ![active.id] = how]
    /\ active' = None

Returns(result) ==
    /\ at' = "ended" /\ outcome' = result /\ todo' = 0
    /\ UNCHANGED <<stop, round, calls, last, chats>>

CancelActive(result) ==
    /\ DraftEnds("cancelled")
    /\ Returns(result)
    /\ UNCHANGED <<checkpoint, writes>>

\* commit_active: the preview refuses an empty body and a file that exists; the
\* user may decline, and the save may fail.
CommitActive ==
    IF ~active.text THEN DraftEnds("failed") /\ UNCHANGED writes
    ELSE \/ DraftEnds("cancelled") /\ writes[active.id] = 0 /\ UNCHANGED writes
         \/ DraftEnds("failed") /\ UNCHANGED writes
         \/ /\ writes[active.id] = 0
            /\ DraftEnds("committed")
            /\ writes' = [writes EXCEPT ![active.id] = @ + 1]

\* The draft a tool call has declared becomes the active one.
Begin(d) ==
    /\ drafts[d] = "none"
    /\ drafts' = [drafts EXCEPT ![d] = "streaming"]
    /\ active' = [id |-> d, text |-> FALSE] /\ checkpoint' = None
    /\ UNCHANGED writes

-----------------------------------------------------------------------------
(* The loop *)

\* _get_summary asks the model; the stop is not looked at, and what it raises is
\* caught.
AsksToCompress == compressed' = IF stop THEN compressed + 1 ELSE compressed

\* maybe_compress, when the loop begins and after the tools of a round: the
\* model is asked unless the history is small or a hook denies it.
Compress ==
    /\ at = "compress"
    /\ at' = "top"
    /\ AsksToCompress \/ UNCHANGED compressed
    /\ UNCHANGED <<stop, loop, dangling, draft, outcome, last, asked, chats>>

Asks == asked' = (IF stop THEN asked + 1 ELSE asked) /\ UNCHANGED compressed

Round ==
    /\ at = "top" /\ round < MaxRounds /\ ~stop
    /\ at' = "asking" /\ round' = round + 1 /\ Asks
    /\ UNCHANGED <<stop, calls, todo, dangling, draft, outcome, last, chats>>

\* The stop is seen where the loop looks at it: before a round, with the answer
\* in hand, and before a tool call that is not the only one.
Stopped ==
    /\ stop
    /\ \/ at = "top" /\ round < MaxRounds
       \/ at = "answered"
       \/ at = "tools" /\ calls > 1
    /\ CancelActive("done")
    /\ UNCHANGED <<dangling, requests>>

\* A budget is used up: seen before a round and when the model has answered.
BudgetExceeded ==
    /\ at \in {"top", "asking"}
    /\ at = "top" /\ stop => round = MaxRounds
    /\ CancelActive("budget_exceeded")
    /\ UNCHANGED <<dangling, requests>>

\* The stream breaks off: what came is kept, and so is the draft.
Interrupted ==
    /\ at = "asking"
    /\ dangling' \in 0..1
    /\ DraftEnds("interrupted")
    /\ checkpoint' = IF active = None THEN checkpoint ELSE active
    /\ UNCHANGED writes
    /\ Returns("interrupted")
    /\ UNCHANGED requests

\* The tokens of the answer are the draft's text.
Stream ==
    /\ at = "asking" /\ active # None
    /\ active' = [active EXCEPT !.text = TRUE]
    /\ drafts' = [drafts EXCEPT ![active.id] = "streaming"]
    /\ UNCHANGED <<at, stop, loop, dangling, checkpoint, writes, outcome, last, requests, chats>>

Final ==
    /\ at = "asking"
    /\ CommitActive
    /\ checkpoint' = None
    /\ Returns("done")
    /\ UNCHANGED <<dangling, requests>>

\* Mutant: the message with the calls is not added to the history.
AnswerUnrecorded ==
    /\ at = "asking"
    /\ \E n \in 1..MaxCalls : calls' = n /\ todo' = n
    /\ at' = "answered"
    /\ UNCHANGED <<stop, round, dangling, draft, outcome, last, requests, chats>>

Answer ==
    /\ at = "asking"
    /\ \E n \in 1..MaxCalls : calls' = n /\ todo' = n /\ dangling' = n
    /\ at' = "answered"
    /\ UNCHANGED <<stop, round, draft, outcome, last, requests, chats>>

Execute ==
    /\ at = "answered" /\ ~stop
    /\ at' = "tools"
    /\ UNCHANGED <<stop, loop, dangling, draft, outcome, last, requests, chats>>

\* One call, or all of them together when nobody has to approve them.
Tools ==
    /\ at = "tools"
    /\ calls > 1 => ~stop
    /\ LET n == IF interactive THEN 1 ELSE todo IN
       todo' = todo - n /\ dangling' = dangling - n
    /\ \/ UNCHANGED draft
       \/ \E d \in Draft : Begin(d)
    /\ at' = IF todo' = 0 THEN "compress" ELSE "tools"
    /\ UNCHANGED <<stop, round, calls, outcome, last, requests, chats>>

\* After the last round the model is asked for a summary.
Summarise ==
    /\ at = "top" /\ round = MaxRounds
    /\ at' = "summing" /\ Asks
    /\ UNCHANGED <<stop, loop, dangling, draft, outcome, last, chats>>

SummaryInterrupted ==
    /\ at = "summing"
    /\ CancelActive("interrupted")
    /\ UNCHANGED <<dangling, requests>>

SummaryFinal ==
    /\ at = "summing"
    /\ CommitActive
    /\ Returns("done")
    /\ UNCHANGED <<dangling, checkpoint, requests>>

-----------------------------------------------------------------------------
Loop ==
    \/ Compress \/ Round \/ Stopped \/ BudgetExceeded
    \/ Interrupted \/ Final \/ Answer \/ Execute \/ Tools
    \/ Summarise \/ SummaryInterrupted \/ SummaryFinal

Next ==
    /\ Chat \/ RequestStop \/ Renew \/ Conclude \/ Raise \/ Stream \/ Loop
    /\ UNCHANGED interactive

Spec == Init /\ [][Next]_vars

\* The thread of the chat runs, and the model and the tools return.
FairSpec == Spec /\ WF_vars(Loop) /\ WF_vars(Conclude)

-----------------------------------------------------------------------------
\* Every tool call of the history has its answer whenever the model is asked,
\* however the chats before were stopped, interrupted or broken off.
CallsAnswered == at \in {"compress", "asking", "summing"} => dangling = 0

\* After a stop no further round is begun: the model is asked once at most to
\* compress the history, when the loop begins or the round's tools are through,
\* and once at most for the summary that follows the last round.
StopIsSeen ==
    /\ asked > 0 => asked = 1 /\ round = MaxRounds
    /\ compressed <= 1

-----------------------------------------------------------------------------
(* These were checked with this module alone; no standing run lists them. *)

\* The file of a draft is written once, also when the draft comes back after it
\* was committed.
WrittenOnce == \A d \in Draft : writes[d] <= 1

\* A chat ends: the rounds are bounded.
ChatEnds == at # "idle" ~> at = "idle"

-----------------------------------------------------------------------------
(* What a document, a comment or a test says and the code does not keep:   *)
(* README.md tells what happens instead.                                   *)

\* The draft at work is one the user has not seen end.
ActiveIsOpen == at = "top" /\ active # None => drafts[active.id] \notin Over

\* A draft shown as recoverable is there for the next chat, until another draft
\* is begun.
RecoverableKept ==
    [][\A d \in Draft : checkpoint.id = d /\ drafts[d] = "interrupted" /\ drafts' = drafts
          => checkpoint'.id = d]_vars

\* No model request is begun after the stop.
StopAsksNoMore == asked = 0 /\ compressed = 0

\* A chat that was stopped says so in both of its last events.
StopIsReported == last.usage = "cancelled" => last.end = "cancelled"
=============================================================================
