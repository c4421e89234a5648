---------------------------- MODULE AgentRunOutcome ----------------------------
(***************************************************************************)
(* What the control plane promises to whoever orders an AgentRun, without  *)
(* workers, claims, leases, calls or cancel requests: a run that was       *)
(* ordered is open until it has an outcome, its activations end one after  *)
(* the other and each of them once, and nothing is added to a run with an  *)
(* outcome until somebody reopens it.                                      *)
(*                                                                         *)
(* Several runs may move in one step: a run that ends wakes the run that   *)
(* called it, and a cancellation ends the runs under the cancelled one.    *)
(***************************************************************************)
EXTENDS Naturals

CONSTANTS Run, LastSeq

VARIABLES
    outcome,  \* of each run: "none" before it is ordered, "open", or how it ended
    ended     \* the activations of each run that have ended

Outcome == {"completed", "failed", "cancelled"}
Seq1 == 1..LastSeq

Init ==
    /\ outcome = [r \in Run |-> "none"]
    /\ ended = [r \in Run |-> {}]

\* Of a run that is being submitted only its failure to start is an outcome.
Order(r) ==
    /\ outcome[r] = "none" /\ outcome'[r] \in {"open", "failed"}
    /\ ended'[r] = ended[r]

\* An activation may end, beyond all that ended; the run may get an outcome.
Work(r) ==
    /\ outcome[r] = "open" /\ outcome'[r] \in {"open"} \cup Outcome
    /\ \/ ended'[r] = ended[r]
       \/ \E s \in Seq1 : /\ \A e \in ended[r] : e < s
                          /\ ended'[r] = ended[r] \cup {s}

\* An outcome is given up for more work only, and its record stays.
Reopen(r) ==
    /\ outcome[r] \in Outcome /\ outcome'[r] = "open"
    /\ ended'[r] = ended[r]

Stay(r) == outcome'[r] = outcome[r] /\ ended'[r] = ended[r]

Next ==
    /\ outcome' = [r \in Run |-> outcome'[r]]
    /\ ended' = [r \in Run |-> ended'[r]]
    /\ \A r \in Run : Order(r) \/ Work(r) \/ Reopen(r) \/ Stay(r)

Spec == Init /\ [][Next]_<<outcome, ended>>
=============================================================================
