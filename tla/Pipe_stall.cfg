SPECIFICATION FairSpec
CONSTANTS
    Ends <- Sides
    Chunks <- TwoEach
    Window = 1
    Patient <- OnlyClient
    Closing <- Nobody
PROPERTY TrafficFlows
\* A finished connection leaves nothing to do.
CHECK_DEADLOCK FALSE
