SPECIFICATION FairSpec
CONSTANTS
    Base = 4
    MTU = 6
    Bodies <- SmallBodies
    MaxPackets = 4
PROPERTIES
    ImplementsChannel
    EventuallyDelivered
CHECK_DEADLOCK FALSE
