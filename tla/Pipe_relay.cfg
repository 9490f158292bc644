SPECIFICATION FairSpec
CONSTANTS
    Ends <- Sides
    Chunks <- ThreeEach
    Window = 2
    Patient <- OnlyClient
    Closing <- Sides
INVARIANT NothingLost
PROPERTIES ImplementsChannels EndReachesPipe
\* A finished connection leaves nothing to do.
CHECK_DEADLOCK FALSE
