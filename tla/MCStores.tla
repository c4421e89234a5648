------------------------------ MODULE MCStores ------------------------------
(***************************************************************************)
(* Stores for TLC: a scope chosen at the start keeps the part that moves   *)
(* small, each scope in a direction of its own.                            *)
(***************************************************************************)
EXTENDS Stores, TLC

VARIABLE scope

Symmetry == Permutations(Txn) \cup Permutations(Handler)

ScopesOf(p) ==
    CASE p = "run" -> {"claimed", "called", "faulty"}
      [] p = "one by one" -> {"project", "restarted"}
      [] OTHER -> {p}

\* Only the first taskflow is asked for anything.
OneTaskflow == \A h \in Busy : handler[h].taskflow = "a"

\* A run with two claims; with a called run that reports; with one activation,
\* a lease that lapses, a restart of the server and workers that give up.
\* Concurrent requests for one taskflow; requests for two that share a project,
\* or for one and a restart.
InScope ==
    CASE scope = "claimed" -> calls = 0 /\ lapses = 0 /\ restarts = 0
      [] scope = "called" -> Cardinality(DOMAIN claim) <= 1 /\ lapses = 0 /\ restarts = 0
      [] scope = "faulty" -> calls = 0 /\ \A t \in Txn : txn[t].op # "continue"
      [] scope = "requests" -> OneTaskflow /\ count.drafts <= 1 /\ count.marks = 0
                               /\ count.restarts = 0
      [] scope = "project" -> count.restarts = 0
      [] scope = "restarted" -> OneTaskflow
      [] OTHER -> TRUE

Patience == scope # "faulty" => ~\E c \in Rows!Claims : Rows!WorkerGivesUp(c)

MCInit == Init /\ scope \in ScopesOf(part)
MCNext == Next /\ UNCHANGED scope /\ InScope' /\ Patience
MCSpec == MCInit /\ [][MCNext]_<<vars, scope>>
=============================================================================
