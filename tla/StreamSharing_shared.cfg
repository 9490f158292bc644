SPECIFICATION FairSpec
CONSTANTS
    q1 = q1
    Peers = {q1}
    Strangers = {x}
    Packets = {p1, p2}
    Dst <- AllToOnePeer
    Streams = {s1, s2}
    Inbound = {s1}
    NoStream = NoStream
    NoPacket = NoPacket
    NoPeer = NoPeer
INVARIANTS TypeOK FrameIntegrity EntryHasCleaner OneLiveCopy
PROPERTIES ImplementsPacketPlane PacketsFinish DeadEntryLeaves
\* Packets and streams are used once.
CHECK_DEADLOCK FALSE
