----------------------------- MODULE MCSessions -----------------------------
(***************************************************************************)
(* Sessions for TLC: a scope chosen at the start keeps the part that moves *)
(* small, each scope in a direction of its own.  The fairness is that of   *)
(* SessionRunTerminal.                                                     *)
(***************************************************************************)
EXTENDS Sessions, Sequences

VARIABLE scope

ScopesOf(p) ==
    CASE p = "terminal" -> {"nothing dropped", "nothing cancelled"}
      [] p = "buffers" -> {"many events", "many pieces", "big event"}
      [] p = "branching" -> {"two requests", "retried"}
      [] OTHER -> {p}

\* What is shown stays and a branch may be cancelled, and the other way round.  Many
\* events and few pieces of a reply, and the other way round; one event too big for
\* its buffer, and no piece.  Two requests at once; one at a time, and an administrator
\* who retries.
InScope ==
    CASE scope = "nothing dropped" -> gone = 0
      [] scope = "nothing cancelled" -> ~cancelled
      [] scope = "many events" -> big = {} /\ pieces["parent"] <= 1 /\ pieces["child"] = 0
      [] scope = "many pieces" -> big = {} /\ Len(log) <= 3
      [] scope = "big event" -> Cardinality(big) <= 1 /\ \A b \in Buffers!Branch : pieces[b] = 0
      [] scope = "two requests" -> retries = 0
      [] scope = "retried" -> req["r2"].at = "idle"
      [] OTHER -> TRUE

MCInit == Init /\ scope \in ScopesOf(part)
MCNext == Next /\ UNCHANGED scope /\ InScope'

\* A client keeps polling, and handlers that began go on.
TerminalFairness ==
    LET Does(A) == part = "terminal" /\ TerminalStep(A) /\ UNCHANGED scope
    IN  /\ \A r \in Poller :
             WF_vars(Does(Terminal!List(r))) /\ WF_vars(Does(Terminal!Project(r)))
        /\ \A c \in Caller :
             /\ WF_vars(Does(Terminal!CancelRun(c)))
             /\ WF_vars(Does(Terminal!CancelShow(c)))
             /\ WF_vars(Does(Terminal!StopShow(c)))
             /\ WF_vars(Does(Terminal!ContinueShow(c)))

MCSpec == MCInit /\ [][MCNext]_<<vars, scope>> /\ TerminalFairness

\* An activation whose executor reported its end is shown to have ended, even
\* if it was the second one or was cancelled while it ended.
ReportedEndIsShown == Terminal!ReportedEndIsShown

BranchOfClient == [c \in {"parent", "child"} |-> c]
=============================================================================
