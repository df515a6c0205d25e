SPECIFICATION Spec
CONSTANTS
    ask = ask
    offer = offer
    confirm = confirm
    None = None
    Nodes <- FlowNodes
    Start = ask
    Kind <- FlowKinds
    Then <- NextEdges
    Else <- OtherEdges
    OnError <- Fallback
    Execs = {x1}
    Messages = {m1}
    MaxFaults = 1
INVARIANTS
    NoFlowHangs
    RepliesAreHeard
    RepeatsHaveCauses
PROPERTIES
    WaitsEnd
CHECK_DEADLOCK FALSE
