----------------------- MODULE MCAgentRunControlPlane -----------------------
EXTENDS AgentRunRefinement

MCKindOf == [r \in Run |-> "server"]
MCSlotsOf == [r \in Run |-> {"server"}]
MCTwoSlots == [s \in Slot |-> 2]
=============================================================================
