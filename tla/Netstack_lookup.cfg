SPECIFICATION Spec
CONSTANTS
    Lanes <- BothFamilies
    Others <- Services
    NServers = 1
    QueueSize = 2
    MaxRecords = 1
    Hosts <- ShortNames
    MaxName = 4
    MaxLabel = 2
    Deadline = 5
    SaneMinimum = 2
INVARIANTS NamesAccepted NoPacketStranded LookupDecides EveryAddressTried
PROPERTIES LookupReturns
\* A dial ends.
CHECK_DEADLOCK FALSE
