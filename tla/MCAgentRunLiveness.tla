------------------------- MODULE MCAgentRunLiveness -------------------------
EXTENDS AgentRunLiveness

MCKindOf == [r \in Run |-> "server"]
MCSlotsOf == [r \in Run |-> {"server"}]
MCTwoSlots == [s \in Slot |-> 2]
MCOneSlot == [s \in Slot |-> 1]
=============================================================================
