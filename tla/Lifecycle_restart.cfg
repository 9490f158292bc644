SPECIFICATION FairSpec
CONSTANT MaxBoots = 2
INVARIANTS StaleSocketHarmless CleanExit
PROPERTIES WaitMissesAtMostOne ExitSignalEnds
\* The process may end, and is started MaxBoots times.
CHECK_DEADLOCK FALSE
