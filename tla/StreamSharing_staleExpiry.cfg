SPECIFICATION Spec
CONSTANTS
    q1 = q1
    Peers = {q1}
    Strangers = {}
    Packets = {p1, p2}
    Dst <- AllToOnePeer
    Streams = {s1, s2, s3}
    Inbound = {s1}
    NoStream = NoStream
    NoPacket = NoPacket
    NoPeer = NoPeer
PROPERTIES
    OnlyFailedStreamsExpire
CHECK_DEADLOCK FALSE
