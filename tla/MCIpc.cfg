SPECIFICATION Spec
CONSTANTS
    Pid = {1, 2, 3}
    MaxChannels = 2
    MaxMessageSize = 1
    MaxQueueDepth = 2
    MaxMessages = 3
INVARIANTS
    IdsOrdered
    SlotsExact
    PollHolds
PROPERTIES
    DeliversInOrder
    EndpointsFixed
CHECK_DEADLOCK FALSE
