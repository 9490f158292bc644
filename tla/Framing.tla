------------------------------ MODULE Framing ------------------------------
(***************************************************************************)
(* The bytes of one libp2p stream between the sendPacket of one node,      *)
(* which writes a two-byte little-endian length and then the packet, and   *)
(* the streamHandler of the other, which reads them back (node/node.go).   *)
(* StreamSharing shows that one sender at a time writes here.              *)
(*                                                                         *)
(* A stream is a stream of bytes: a Read returns what has arrived, at      *)
(* least one byte and at most what was asked for.                          *)
(***************************************************************************)
EXTENDS Naturals, Sequences, FiniteSetsExt

CONSTANTS
    Base,         \* values of a byte: 256 in the code
    MTU,          \* capacity of streamHandler's packet buffer: 1420 in the code
    Bodies,       \* packets the TUN device may hand to sendPacket
    MaxPackets    \* bound on the packets sent

ASSUME FramingAssumption ==
    /\ Base \in Nat \ {0, 1}
    /\ MTU \in Nat /\ MTU < Base * Base
    /\ Bodies \subseteq Seq(0..(Base - 1)) /\ \A b \in Bodies : Len(b) \in 1..MTU
    /\ MaxPackets \in Nat

VARIABLES
    sent,        \* the packets sendPacket was called with
    unwritten,   \* the packet whose length is written and whose bytes are not
    wire,        \* bytes written and not yet read
    packetSize,  \* streamHandler: the two-byte buffer, kept from packet to packet
    size,        \* streamHandler: the decoded length of the current packet
    packet,      \* streamHandler: packet[:plen], the bytes read so far
    at,          \* streamHandler: "size" or "body", the read it is in;
                 \* "stopped" after a read error, "panic" after a bad slice
    delivered,   \* the packets written to the TUN device
    split,       \* history: a read returned one of the two length bytes
    inStep       \* history: what was delivered up to then

history == <<split, inStep>>
vars == <<sent, unwritten, wire, packetSize, size, packet, at, delivered, history>>

Init ==
    /\ sent = << >> /\ unwritten = << >> /\ wire = << >>
    /\ packetSize = <<0, 0>> /\ size = 0 /\ packet = << >>
    /\ at = "size" /\ delivered = << >>
    /\ split = FALSE /\ inStep = << >>

-----------------------------------------------------------------------------
\* binary.LittleEndian, both ways; uint16(plen) keeps the low two bytes.
PutUint16(n) == <<n % Base, (n \div Base) % Base>>
Uint16(b) == b[1] + Base * b[2]

\* Defect used to test the properties: the length is put in the other byte order.
WriteLenBigEndian(b) ==
    /\ unwritten = << >> /\ Len(sent) < MaxPackets /\ at # "stopped"
    /\ sent' = Append(sent, b)
    /\ unwritten' = b
    /\ wire' = wire \o <<PutUint16(Len(b))[2], PutUint16(Len(b))[1]>>
    /\ UNCHANGED <<packetSize, size, packet, at, delivered, history>>

WriteLen(b) ==
    /\ unwritten = << >> /\ Len(sent) < MaxPackets /\ at # "stopped"
    /\ sent' = Append(sent, b)
    /\ unwritten' = b
    /\ wire' = wire \o PutUint16(Len(b))
    /\ UNCHANGED <<packetSize, size, packet, at, delivered, history>>

WriteBody ==
    /\ unwritten # << >> /\ at # "stopped"
    /\ wire' = wire \o unwritten
    /\ unwritten' = << >>
    /\ UNCHANGED <<sent, packetSize, size, packet, at, delivered, history>>

\* stream.Read(packetSize): n bytes arrive and overwrite the first n of the
\* buffer; the result n is not looked at.  An empty packet is delivered as such.
ReadSize(n) ==
    /\ at = "size"
    /\ n <= Min({Len(wire), 2})
    /\ packetSize' = SubSeq(wire, 1, n) \o SubSeq(packetSize, n + 1, 2)
    /\ wire' = SubSeq(wire, n + 1, Len(wire))
    /\ size' = Uint16(packetSize')
    /\ packet' = << >>
    /\ at' = IF size' = 0 THEN "size" ELSE IF size' > MTU THEN "panic" ELSE "body"
    /\ delivered' = IF size' = 0 THEN Append(delivered, << >>) ELSE delivered
    /\ split' = (split \/ n = 1)
    /\ inStep' = IF split' THEN inStep ELSE delivered'
    /\ UNCHANGED <<sent, unwritten>>

\* Defect used to test the properties: a short read of the packet is taken for
\* the whole of it, as the length read above is.
ReadBodyOnce(n) ==
    /\ at = "body"
    /\ n <= Min({Len(wire), size - Len(packet)})
    /\ wire' = SubSeq(wire, n + 1, Len(wire))
    /\ packet' = packet \o SubSeq(wire, 1, n)
    /\ at' = "size"
    /\ delivered' = Append(delivered, packet')
    /\ inStep' = IF split THEN inStep ELSE delivered'
    /\ UNCHANGED <<sent, unwritten, packetSize, size, split>>

\* stream.Read(packet[plen:size]) until plen = size; then the TUN device.
ReadBody(n) ==
    /\ at = "body"
    /\ n <= Min({Len(wire), size - Len(packet)})
    /\ wire' = SubSeq(wire, n + 1, Len(wire))
    /\ packet' = packet \o SubSeq(wire, 1, n)
    /\ IF Len(packet') < size
         THEN UNCHANGED <<at, delivered>>
         ELSE at' = "size" /\ delivered' = Append(delivered, packet')
    /\ inStep' = IF split THEN inStep ELSE delivered'
    /\ UNCHANGED <<sent, unwritten, packetSize, size, split>>

Read == \E n \in 1..MTU : ReadSize(n) \/ ReadBody(n)

\* The stream ends, after its bytes or with bytes lost: Read returns an error.
ReadFails ==
    /\ at \in {"size", "body"}
    /\ at' = "stopped" /\ wire' = << >>
    /\ UNCHANGED <<sent, unwritten, packetSize, size, packet, delivered, history>>

Next == (\E b \in Bodies : WriteLen(b)) \/ WriteBody \/ Read \/ ReadFails

Spec == Init /\ [][Next]_vars

\* The reader reads what has arrived, and a writer that wrote a length goes on
\* to write the packet.
FairSpec == Spec /\ WF_vars(Read) /\ WF_vars(WriteBody)

-----------------------------------------------------------------------------
Stream == INSTANCE Channel WITH
    Messages <- Bodies,
    got <- inStep,
    link <- IF split \/ at = "stopped" THEN "broken" ELSE "up"

\* What the handler writes to its TUN device is what sendPacket was given at the
\* other end: the same packets, in the same order, none merged, cut or shifted.
\* That holds until a Read of the length returns one byte of the two, whose
\* count the handler does not look at; such a read breaks the channel.
ImplementsChannel == Stream!Spec

\* A packet that was accepted is delivered, unless the stream ends or a length
\* arrives in two parts: short reads of a packet never leave the handler waiting
\* for bytes that are not coming, and never make it slice past its buffer.
EventuallyDelivered ==
    \A k \in 1..MaxPackets : Len(sent) >= k ~> (Len(inStep) >= k \/ at = "stopped" \/ split)
=============================================================================
