--------------------------- MODULE StreamSharing ---------------------------
(***************************************************************************)
(* The packet plane of one node (node/node.go): the goroutines running     *)
(* sendPacket, one per packet read from the TUN device, the goroutines     *)
(* running streamHandler, one per libp2p stream, and what they share: the  *)
(* activeStreams map, one lock per stream and the streams themselves.      *)
(*                                                                         *)
(* A stream is seen from this node.  sent[s] is what was written to it, as *)
(* the chunks "len" (the two length bytes), "body" (the packet) and "torn" *)
(* (the part of either that left before the write failed).                 *)
(***************************************************************************)
EXTENDS Naturals, Sequences

CONSTANTS
    Peers,      \* the peers of the configuration
    Strangers,  \* peers that are not in the configuration
    Packets,    \* packets read from the TUN device; each has its goroutine
    Dst,        \* Dst[p]: the peer FindRouteForIP returned for packet p
    Streams,    \* identities of libp2p streams, each used at most once
    Inbound,    \* those that remote peers open; this node opens the others
    NoStream, NoPacket, NoPeer

ASSUME ConstantsAssumption ==
    /\ Peers \cap Strangers = {}
    /\ Dst \in [Packets -> Peers]
    /\ Inbound \subseteq Streams
    /\ NoStream \notin Streams
    /\ NoPacket \notin Packets
    /\ NoPeer \notin Peers \cup Strangers

VARIABLES
    activeStreams,  \* Node.activeStreams; NoStream where the map has no entry
    pc,             \* sendPacket goroutines: the next step of each
    cur,            \* sendPacket goroutines: the stream in hand
    handler,        \* streamHandler goroutines: the next step of each
    inserted,       \* the streams whose handler's insertActiveStream was true
    lock,           \* SharedStream.Lock: the holder
    state,          \* a stream as this node sees it
    deadline,       \* its write deadline
    remote, proto,  \* its Conn().RemotePeer() and Protocol()
    sent            \* the chunks written to it

senderVars == <<pc, cur>>
handlerVars == <<handler, inserted>>
identityVars == <<remote, proto>>
streamVars == <<lock, state, deadline, identityVars, sent>>
vars == <<activeStreams, senderVars, handlerVars, streamVars>>

Chunk == Packets \X {"len", "body", "torn"}

\* "gone": the remote end or the connection went away.  Reads fail, writes
\* fail or are accepted and lost.  "closed": this node called Close or Reset.
StreamStates == {"unopened", "open", "gone", "closed"}

Locked == {"len", "body", "rearm", "close", "expire"}
Opening == {"arm", "len1", "body1"}
SenderSteps == {"idle", "get", "lock", "dial", "sent", "lost"} \cup Locked \cup Opening

TypeOK ==
    /\ activeStreams \in [Peers -> Streams \cup {NoStream}]
    /\ pc \in [Packets -> SenderSteps]
    /\ cur \in [Packets -> Streams \cup {NoStream}]
    /\ handler \in [Streams -> {"none", "start", "read", "exit", "done"}]
    /\ inserted \subseteq Streams
    /\ lock \in [Streams -> Packets \cup {NoPacket}]
    /\ state \in [Streams -> StreamStates]
    /\ deadline \in [Streams -> {"none", "armed", "expired"}]
    /\ remote \in [Streams -> Peers \cup Strangers \cup {NoPeer}]
    /\ proto \in [Streams -> {"V0", "V1"}]
    /\ sent \in [Streams -> Seq(Chunk)]

Init ==
    /\ activeStreams = [q \in Peers |-> NoStream]
    /\ pc = [p \in Packets |-> "idle"]
    /\ cur = [p \in Packets |-> NoStream]
    /\ handler = [s \in Streams |-> "none"]
    /\ inserted = {}
    /\ lock = [s \in Streams |-> NoPacket]
    /\ state = [s \in Streams |-> "unopened"]
    /\ deadline = [s \in Streams |-> "none"]
    /\ remote = [s \in Streams |-> NoPeer]
    /\ proto = [s \in Streams |-> "V1"]
    /\ sent = [s \in Streams |-> << >>]

-----------------------------------------------------------------------------
(* libp2p streams, as the code uses them. *)

WriteSucceeds(s) == state[s] \in {"open", "gone"} /\ deadline[s] # "expired"
WriteFails(s) == state[s] # "open" \/ deadline[s] = "expired"
\* SetWriteDeadline, like Read, fails only on a stream that is not open.
CallFails(s) == state[s] # "open"

Write(s, p, part) == sent' = [sent EXCEPT ![s] = Append(@, <<p, part>>)]
\* A write cut off by its deadline may have sent some of its bytes.
TornWrite(s, p) ==
    \/ UNCHANGED sent
    \/ state[s] # "closed" /\ deadline[s] = "expired" /\ Write(s, p, "torn")
Close(s) == state' = [state EXCEPT ![s] = "closed"]
SetWriteDeadline(s) == deadline' = [deadline EXCEPT ![s] = "armed"]

Open(s, q, v) ==
    /\ state[s] = "unopened"
    /\ state' = [state EXCEPT ![s] = "open"]
    /\ remote' = [remote EXCEPT ![s] = q]
    /\ proto' = [proto EXCEPT ![s] = v]

\* A peer opens a stream: libp2p calls streamHandler on a new goroutine.
RemoteOpens(s, q, v) ==
    /\ s \in Inbound
    /\ Open(s, q, v)
    /\ handler' = [handler EXCEPT ![s] = "start"]
    /\ UNCHANGED <<activeStreams, senderVars, inserted, lock, deadline, sent>>

RemoteGoes(s) ==
    /\ state[s] = "open"
    /\ state' = [state EXCEPT ![s] = "gone"]
    /\ UNCHANGED <<activeStreams, senderVars, handlerVars, lock, deadline, identityVars, sent>>

\* 25 seconds pass without a packet on the stream.
DeadlinePasses(s) ==
    /\ state[s] = "open"
    /\ deadline[s] = "armed"
    /\ deadline' = [deadline EXCEPT ![s] = "expired"]
    /\ UNCHANGED <<activeStreams, senderVars, handlerVars, lock, state, identityVars, sent>>

-----------------------------------------------------------------------------
(* sendPacket. *)

Goto(p, step) == pc' = [pc EXCEPT ![p] = step]
At(p, step) == pc[p] = step

\* The packet loop read packet p and found a route for it.
Dispatch(p) ==
    /\ At(p, "idle")
    /\ Goto(p, "get")
    /\ UNCHANGED <<activeStreams, cur, handlerVars, streamVars>>

getActiveStream(p) ==
    /\ At(p, "get")
    /\ cur' = [cur EXCEPT ![p] = activeStreams[Dst[p]]]
    /\ Goto(p, IF activeStreams[Dst[p]] = NoStream THEN "dial" ELSE "lock")
    /\ UNCHANGED <<activeStreams, handlerVars, streamVars>>

\* Defect used to test the properties: the lock of the stream is not waited for.
LockStreamUnguarded(p) ==
    /\ At(p, "lock")
    /\ lock' = [lock EXCEPT ![cur[p]] = p]
    /\ Goto(p, "len")
    /\ UNCHANGED <<activeStreams, cur, handlerVars, state, deadline, identityVars, sent>>

LockStream(p) ==
    /\ At(p, "lock")
    /\ lock[cur[p]] = NoPacket
    /\ lock' = [lock EXCEPT ![cur[p]] = p]
    /\ Goto(p, "len")
    /\ UNCHANGED <<activeStreams, cur, handlerVars, state, deadline, identityVars, sent>>

WriteLen(p) ==
    /\ At(p, "len")
    /\ \/ WriteSucceeds(cur[p]) /\ Write(cur[p], p, "len") /\ Goto(p, "body")
       \/ WriteFails(cur[p]) /\ TornWrite(cur[p], p) /\ Goto(p, "close")
    /\ UNCHANGED <<activeStreams, cur, handlerVars, lock, state, deadline, identityVars>>

\* Defect used to test the properties: the error of the second write is ignored.
WriteBodyUnchecked(p) ==
    /\ At(p, "body")
    /\ \/ WriteSucceeds(cur[p]) /\ Write(cur[p], p, "body")
       \/ WriteFails(cur[p]) /\ TornWrite(cur[p], p)
    /\ Goto(p, "rearm")
    /\ UNCHANGED <<activeStreams, cur, handlerVars, lock, state, deadline, identityVars>>

WriteBody(p) ==
    /\ At(p, "body")
    /\ \/ WriteSucceeds(cur[p]) /\ Write(cur[p], p, "body") /\ Goto(p, "rearm")
       \/ WriteFails(cur[p]) /\ TornWrite(cur[p], p) /\ Goto(p, "close")
    /\ UNCHANGED <<activeStreams, cur, handlerVars, lock, state, deadline, identityVars>>

\* SetWriteDeadline after the packet; the deferred Unlock when it succeeds.
Rearm(p) ==
    /\ At(p, "rearm")
    /\ \/ /\ state[cur[p]] # "closed"
          /\ SetWriteDeadline(cur[p])
          /\ lock' = [lock EXCEPT ![cur[p]] = NoPacket]
          /\ Goto(p, "sent")
       \/ /\ CallFails(cur[p])
          /\ Goto(p, "close")
          /\ UNCHANGED <<deadline, lock>>
    /\ UNCHANGED <<activeStreams, cur, handlerVars, state, identityVars, sent>>

\* Defect used to test the properties: the failed stream is left open.
CloseFailedLeftOpen(p) ==
    /\ At(p, "close")
    /\ Goto(p, "expire")
    /\ UNCHANGED <<activeStreams, cur, handlerVars, streamVars>>

CloseFailed(p) ==
    /\ At(p, "close")
    /\ Close(cur[p])
    /\ Goto(p, "expire")
    /\ UNCHANGED <<activeStreams, cur, handlerVars, lock, deadline, identityVars, sent>>

\* Defect used to test the properties: the entry is overwritten, not deleted.
ExpireEntryOverwrites(q) == activeStreams' = [activeStreams EXCEPT ![q] = NoPeer]

ExpireEntry(q) == activeStreams' = [activeStreams EXCEPT ![q] = NoStream]

\* Defect used to test the properties: the error path returns with the lock held.
expireActiveStreamLocked(p) ==
    /\ At(p, "expire")
    /\ ExpireEntry(Dst[p])
    /\ Goto(p, "dial")
    /\ UNCHANGED <<cur, handlerVars, streamVars>>

\* expireActiveStream(dst) on the error path, then the deferred Unlock.
expireActiveStream(p) ==
    /\ At(p, "expire")
    /\ ExpireEntry(Dst[p])
    /\ lock' = [lock EXCEPT ![cur[p]] = NoPacket]
    /\ Goto(p, "dial")
    /\ UNCHANGED <<cur, handlerVars, state, deadline, identityVars, sent>>

\* p2p.NewStream to the destination, which negotiates one of Protocols.
NewStream(p, s, v) ==
    /\ At(p, "dial")
    /\ s \notin Inbound
    /\ Open(s, Dst[p], v)
    /\ cur' = [cur EXCEPT ![p] = s]
    /\ Goto(p, "arm")
    /\ UNCHANGED <<activeStreams, handlerVars, lock, deadline, sent>>

\* NewStream fails: the packet is dropped and a rediscovery is requested.
NewStreamFails(p) ==
    /\ At(p, "dial")
    /\ Goto(p, "lost")
    /\ UNCHANGED <<activeStreams, cur, handlerVars, streamVars>>

\* The deadline, the length and the packet on the new stream.  No other
\* goroutine knows the stream yet, so none of this is done under a lock.
ArmNew(p) ==
    /\ At(p, "arm")
    /\ state[cur[p]] # "closed"
    /\ SetWriteDeadline(cur[p])
    /\ Goto(p, "len1")
    /\ UNCHANGED <<activeStreams, cur, handlerVars, lock, state, identityVars, sent>>

WriteLenNew(p) ==
    /\ At(p, "len1")
    /\ WriteSucceeds(cur[p])
    /\ Write(cur[p], p, "len")
    /\ Goto(p, "body1")
    /\ UNCHANGED <<activeStreams, cur, handlerVars, lock, state, deadline, identityVars>>

\* The packet, then go streamHandler(stream).
WriteBodyNew(p) ==
    /\ At(p, "body1")
    /\ WriteSucceeds(cur[p])
    /\ Write(cur[p], p, "body")
    /\ handler' = [handler EXCEPT ![cur[p]] = "start"]
    /\ Goto(p, "sent")
    /\ UNCHANGED <<activeStreams, cur, inserted, lock, state, deadline, identityVars>>

\* Any of the three fails: the new stream is closed and the packet dropped.
AbandonNew(p) ==
    /\ pc[p] \in Opening
    /\ IF At(p, "arm") THEN CallFails(cur[p]) /\ UNCHANGED sent
                       ELSE WriteFails(cur[p]) /\ TornWrite(cur[p], p)
    /\ Close(cur[p])
    /\ Goto(p, "lost")
    /\ UNCHANGED <<activeStreams, cur, handlerVars, lock, deadline, identityVars>>

sendPacket(p) ==
    \/ getActiveStream(p)
    \/ LockStream(p)
    \/ WriteLen(p)
    \/ WriteBody(p)
    \/ Rearm(p)
    \/ CloseFailed(p)
    \/ expireActiveStream(p)
    \/ \E s \in Streams, v \in {"V0", "V1"} : NewStream(p, s, v)
    \/ NewStreamFails(p)
    \/ ArmNew(p)
    \/ WriteLenNew(p)
    \/ WriteBodyNew(p)
    \/ AbandonNew(p)

-----------------------------------------------------------------------------
(* streamHandler. *)

\* The remote peer is not in the configuration: Reset.
HandlerRejects(s) ==
    /\ handler[s] = "start"
    /\ remote[s] \notin Peers
    /\ Close(s)
    /\ handler' = [handler EXCEPT ![s] = "done"]
    /\ UNCHANGED <<activeStreams, senderVars, inserted, lock, deadline, identityVars, sent>>

InsertEntry(s) ==
    /\ activeStreams' = [activeStreams EXCEPT ![remote[s]] = s]
    /\ inserted' = inserted \cup {s}

\* Defect used to test the properties: version 0 streams are shared too.
insertActiveStreamAnyVersion(s) ==
    /\ handler[s] = "start"
    /\ remote[s] \in Peers
    /\ handler' = [handler EXCEPT ![s] = "read"]
    /\ IF activeStreams[remote[s]] = NoStream THEN InsertEntry(s)
                                              ELSE UNCHANGED <<activeStreams, inserted>>
    /\ UNCHANGED <<senderVars, streamVars>>

\* Share the stream unless it is version 0 or its peer has a shared stream.
insertActiveStream(s) ==
    /\ handler[s] = "start"
    /\ remote[s] \in Peers
    /\ handler' = [handler EXCEPT ![s] = "read"]
    /\ IF proto[s] # "V0" /\ activeStreams[remote[s]] = NoStream
          THEN InsertEntry(s)
          ELSE UNCHANGED <<activeStreams, inserted>>
    /\ UNCHANGED <<senderVars, streamVars>>

\* A packet was read; the write deadline is moved; the TUN device gets it.
HandlerReads(s) ==
    /\ handler[s] = "read"
    /\ state[s] # "closed"
    /\ SetWriteDeadline(s)
    /\ UNCHANGED <<activeStreams, senderVars, handlerVars, lock, state, identityVars, sent>>

\* Read or SetWriteDeadline fails: Close, and return.
HandlerStops(s) ==
    /\ handler[s] = "read"
    /\ CallFails(s)
    /\ Close(s)
    /\ handler' = [handler EXCEPT ![s] = "exit"]
    /\ UNCHANGED <<activeStreams, senderVars, inserted, lock, deadline, identityVars, sent>>

\* Defect used to test the properties: the handler returns without its expiry.
HandlerReturnsOnly(s) ==
    /\ handler[s] = "exit"
    /\ handler' = [handler EXCEPT ![s] = "done"]
    /\ UNCHANGED <<activeStreams, senderVars, inserted, streamVars>>

\* The deferred expireActiveStream of a handler that inserted its stream.
HandlerReturns(s) ==
    /\ handler[s] = "exit"
    /\ IF s \in inserted THEN ExpireEntry(remote[s]) ELSE UNCHANGED activeStreams
    /\ handler' = [handler EXCEPT ![s] = "done"]
    /\ UNCHANGED <<senderVars, inserted, streamVars>>

streamHandler(s) ==
    HandlerRejects(s) \/ insertActiveStream(s) \/ HandlerStops(s) \/ HandlerReturns(s)

-----------------------------------------------------------------------------
Next ==
    \/ \E p \in Packets : Dispatch(p) \/ sendPacket(p)
    \/ \E s \in Streams :
         \/ streamHandler(s)
         \/ HandlerReads(s)
         \/ \E q \in Peers \cup Strangers, v \in {"V0", "V1"} : RemoteOpens(s, q, v)
         \/ RemoteGoes(s)
         \/ DeadlinePasses(s)

Spec == Init /\ [][Next]_vars

\* The Go scheduler runs every goroutine that can run, and a write returns:
\* the peer's own streamHandler reads, or the deadline passes.  Nothing makes
\* a peer open, use or leave a stream.
Fairness ==
    /\ \A p \in Packets : WF_vars(sendPacket(p))
    /\ \A s \in Streams : WF_vars(streamHandler(s))

FairSpec == Spec /\ Fairness

-----------------------------------------------------------------------------
(* Properties. *)

WellFramed(log) ==
    \A i \in 1..Len(log) :
        /\ log[i][2] = "body" => i > 1 /\ log[i - 1] = <<log[i][1], "len">>
        /\ log[i][2] = "len" /\ i > 1 => log[i - 1][2] = "body"
        /\ log[i][2] = "torn" => i = Len(log)

\* What goes out on a stream decodes as packets, whoever wrote it: a body comes
\* right after its own length, a length starts the stream or comes right after
\* a body, and nothing follows a write that was cut off.  It is why sendPacket
\* holds the stream's lock from the length to the deadline, closes the stream
\* under that lock when a write fails, and hands a new stream to streamHandler
\* only after its first packet.
FrameIntegrity == \A s \in Streams : WellFramed(sent[s])

\* The entry of a peer is a version 1 stream of that peer, and the handler that
\* inserted it still runs, so that its deferred expireActiveStream will remove
\* the entry when the stream dies: no entry is left without its cleaner,
\* however the expiries of senders and handlers interleave.
EntryHasCleaner ==
    \A q \in Peers : LET s == activeStreams[q] IN
        s # NoStream =>
            /\ remote[s] = q /\ proto[s] = "V1"
            /\ s \in inserted /\ handler[s] \in {"read", "exit"}

Carries(s, p) == \E i \in 1..Len(sent[s]) : sent[s][i][1] = p

\* A packet is retried on a second stream only after the first one is lost to
\* this node: no packet, whole or in part, is on two streams that are open.
\* sendPacket closes the failed stream before it dials again.
OneLiveCopy ==
    \A p \in Packets : \A s, t \in Streams :
        (s # t /\ Carries(s, p) /\ Carries(t, p)) => ~(state[s] = "open" /\ state[t] = "open")

Fate(p) == IF pc[p] \in {"idle", "sent", "lost"} THEN pc[p] ELSE "taken"
WholePackets(s) == {p \in Packets : \E i \in 1..Len(sent[s]) : sent[s][i] = <<p, "body">>}

Plane == INSTANCE PacketPlane WITH
    fate <- [p \in Packets |-> Fate(p)],
    carried <- [s \in Streams |-> WholePackets(s)]

\* The goroutines of sendPacket and streamHandler, with the map and the locks
\* they share, do to each packet what one goroutine per packet with a stream of
\* its own would do.  A packet is given up as sent only after a stream took all
\* of it, goes to a second stream only after the first is lost to this node, and
\* is dropped only when no open stream has it.
ImplementsPacketPlane == Plane!Spec

\* Every packet read from the TUN device is sent or dropped: no sendPacket
\* goroutine waits for ever for the lock of a stream another one left.
PacketsFinish ==
    \A p \in Packets : At(p, "get") ~> pc[p] \in {"sent", "lost"}

\* A stream that is gone or closed does not stay in activeStreams.
DeadEntryLeaves ==
    \A q \in Peers : \A s \in Streams :
        (activeStreams[q] = s /\ state[s] # "open") ~> activeStreams[q] # s

\* The comment on sendPacket's error path: on an error "we should close that stream
\* and delete it from the active stream map".  The entry a sender deletes is the
\* one of the stream it failed on, unless that has left the map already.
OnlyFailedStreamsExpire ==
    [][\A p \in Packets :
        expireActiveStream(p) => activeStreams[Dst[p]] \in {cur[p], NoStream}]_vars
=============================================================================
