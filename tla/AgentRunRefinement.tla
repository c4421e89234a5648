-------------------------- MODULE AgentRunRefinement --------------------------
(***************************************************************************)
(* The control plane implements AgentRunOutcome: what a client can see of  *)
(* an AgentRun, its status and the statuses of its activations, is an      *)
(* outcome and the activations that ended.                                 *)
(***************************************************************************)
EXTENDS AgentRunControlPlane

\* BLOCKED is no outcome: executor events still move a blocked run.
OutcomeOf(r) ==
    IF status[r] = "absent" THEN "none"
    ELSE IF status[r] \in ClosedStatus THEN status[r] ELSE "open"

EndedOf(r) == {s \in Seq1 : activation[r][s] \in EndedActivation}

Promise == INSTANCE AgentRunOutcome
             WITH LastSeq <- MaxSeq,
                  outcome <- [r \in Run |-> OutcomeOf(r)],
                  ended <- [r \in Run |-> EndedOf(r)]

\* The control plane keeps its promise: activations end in order, each once and
\* only while the run is open; a closed run does not change until it is
\* continued, whatever overtaken workers, recoveries and cancellations do.
KeepsPromise == Promise!Spec
=============================================================================
