------------------------ MODULE StreamSharingProofs ------------------------
(***************************************************************************)
(* Proofs about StreamSharing, for any peers, packets and streams: its     *)
(* safety properties, and that it implements PacketPlane.                  *)
(***************************************************************************)
EXTENDS StreamSharing, SequenceTheorems, TLAPS

(***************************************************************************)
(* The inductive invariant.                                                *)
(***************************************************************************)

\* A log that ends with a complete packet, or has none.
Whole(log) == Len(log) > 0 => log[Len(log)][2] = "body"

\* The frame of s may be continued by anyone, or the stream takes no more writes.
Settled(s) == Whole(sent[s]) \/ state[s] = "closed"

Sharing == {"lock"} \cup Locked

\* Who may write to which stream: a sender in the locked section holds the lock
\* of a stream that has, or had, a handler; a sender that opens a stream has a
\* stream no handler and no other sender knows.
Ownership ==
    /\ \A p \in Packets :
        /\ pc[p] \in Sharing => cur[p] \in Streams /\ handler[cur[p]] # "none"
        /\ pc[p] \in Locked => lock[cur[p]] = p
        /\ pc[p] \in Opening => /\ cur[p] \in Streams
                                /\ handler[cur[p]] = "none"
                                /\ state[cur[p]] # "unopened"
                                /\ cur[p] \notin Inbound
    /\ \A p, r \in Packets :
        pc[p] \in Opening /\ pc[r] \in Opening /\ cur[p] = cur[r] => p = r
    /\ \A s \in Streams :
        state[s] = "unopened" => handler[s] = "none" /\ sent[s] = << >>

\* Where a writer is in its frame.
Placed(p) ==
    /\ pc[p] \in {"len", "rearm", "arm", "len1"} => Settled(cur[p])
    /\ pc[p] \in {"body", "body1"} =>
           /\ Len(sent[cur[p]]) > 0
           /\ sent[cur[p]][Len(sent[cur[p]])] = <<p, "len">>
    /\ pc[p] = "expire" => state[cur[p]] = "closed"

\* No sender is writing to s.
Unowned(s) ==
    lock[s] = NoPacket /\ \A p \in Packets : pc[p] \in Opening => cur[p] # s

Progress ==
    /\ \A p \in Packets : Placed(p)
    /\ \A s \in Streams : Unowned(s) => Settled(s)

-----------------------------------------------------------------------------
(* Logs of chunks. *)

\* Writing a length where the log is whole keeps the log decodable.
LEMMA AppendLen ==
    ASSUME NEW log \in Seq(Chunk), NEW p \in Packets, WellFramed(log), Whole(log)
    PROVE  WellFramed(Append(log, <<p, "len">>))
BY DEF WellFramed, Whole, Chunk

\* So does writing the body right after its own length.
LEMMA AppendBody ==
    ASSUME NEW log \in Seq(Chunk), NEW p \in Packets, WellFramed(log),
           Len(log) > 0, log[Len(log)] = <<p, "len">>
    PROVE  WellFramed(Append(log, <<p, "body">>)) /\ Whole(Append(log, <<p, "body">>))
BY DEF WellFramed, Whole, Chunk

\* And so does a write that is cut off, unless one was cut off before.
LEMMA AppendTorn ==
    ASSUME NEW log \in Seq(Chunk), NEW p \in Packets, WellFramed(log),
           Len(log) > 0 => log[Len(log)][2] # "torn"
    PROVE  WellFramed(Append(log, <<p, "torn">>))
BY DEF WellFramed, Chunk

-----------------------------------------------------------------------------
(* Type correctness. *)

\* A node that has just made activeStreams has the types of TypeOK.
LEMMA InitType == Init => TypeOK
BY DEF Init, TypeOK, SenderSteps, Locked, Opening, StreamStates

\* Appending one chunk to the log of one stream keeps the type of sent.
LEMMA WriteType ==
    ASSUME TypeOK, NEW s \in Streams, NEW p \in Packets, NEW part \in {"len", "body", "torn"}
    PROVE  Write(s, p, part) => sent' \in [Streams -> Seq(Chunk)]
BY DEF TypeOK, Write, Chunk

\* A packet in hand: the stream of a sender in the shared path or opening one.
StreamInHand ==
    \A p \in Packets : pc[p] \in Sharing \cup Opening => cur[p] \in Streams

\* Every step of senders, handlers and remote ends keeps the types.
LEMMA TypeStep == TypeOK /\ StreamInHand /\ [Next]_vars => TypeOK'
<1> SUFFICES ASSUME TypeOK, StreamInHand, [Next]_vars PROVE TypeOK'
  OBVIOUS
<1> USE ConstantsAssumption
<1>1. ASSUME NEW p \in Packets, Dispatch(p) PROVE TypeOK'
  BY <1>1, SMTT(30) DEF TypeOK, Dispatch, At, Goto, SenderSteps, handlerVars, streamVars,
     identityVars
<1>2. ASSUME NEW p \in Packets, sendPacket(p) PROVE TypeOK'
  <2> USE DEF TypeOK, At, Goto, SenderSteps, Locked, Opening, Sharing, StreamInHand,
              handlerVars, streamVars, identityVars
  <2>1. CASE getActiveStream(p)
    BY <2>1 DEF getActiveStream
  <2>2. CASE LockStream(p)
    BY <2>2 DEF LockStream
  <2>3. CASE WriteLen(p)
    <3>1. cur[p] \in Streams /\ sent' \in [Streams -> Seq(Chunk)]
      BY <2>3, WriteType DEF WriteLen, TornWrite
    <3> QED BY <2>3, <3>1, ZenonT(30) DEF WriteLen
  <2>4. CASE WriteBody(p)
    <3>1. cur[p] \in Streams /\ sent' \in [Streams -> Seq(Chunk)]
      BY <2>4, WriteType DEF WriteBody, TornWrite
    <3> QED BY <2>4, <3>1, ZenonT(30) DEF WriteBody
  <2>5. CASE Rearm(p)
    BY <2>5, ZenonT(30) DEF Rearm, SetWriteDeadline
  <2>6. CASE CloseFailed(p)
    BY <2>6 DEF CloseFailed, Close, StreamStates
  <2>7. CASE expireActiveStream(p)
    BY <2>7 DEF expireActiveStream, ExpireEntry
  <2>8. ASSUME NEW s \in Streams, NEW v \in {"V0", "V1"}, NewStream(p, s, v) PROVE TypeOK'
    BY <2>8 DEF NewStream, Open, StreamStates
  <2>9. CASE NewStreamFails(p)
    BY <2>9 DEF NewStreamFails
  <2>10. CASE ArmNew(p)
    BY <2>10 DEF ArmNew, SetWriteDeadline
  <2>11. CASE WriteLenNew(p)
    <3>1. cur[p] \in Streams /\ sent' \in [Streams -> Seq(Chunk)]
      BY <2>11, WriteType DEF WriteLenNew
    <3> QED BY <2>11, <3>1 DEF WriteLenNew
  <2>12. CASE WriteBodyNew(p)
    <3>1. cur[p] \in Streams /\ sent' \in [Streams -> Seq(Chunk)]
      BY <2>12, WriteType DEF WriteBodyNew
    <3> QED BY <2>12, <3>1, ZenonT(30) DEF WriteBodyNew
  <2>13. CASE AbandonNew(p)
    <3>1. cur[p] \in Streams /\ sent' \in [Streams -> Seq(Chunk)]
      BY <2>13, WriteType, ZenonT(30) DEF AbandonNew, TornWrite
    <3> QED BY <2>13, <3>1, ZenonT(30) DEF AbandonNew, Close, StreamStates
  <2> QED
    BY <1>2, <2>1, <2>2, <2>3, <2>4, <2>5, <2>6, <2>7, <2>8, <2>9, <2>10, <2>11, <2>12,
       <2>13, ZenonT(30)
       DEF sendPacket
<1>3. ASSUME NEW s \in Streams, streamHandler(s) \/ HandlerReads(s) PROVE TypeOK'
  <2> USE DEF TypeOK, senderVars, streamVars, identityVars
  <2>1. CASE HandlerRejects(s)
    BY <2>1 DEF HandlerRejects, Close, StreamStates
  <2>2. CASE insertActiveStream(s)
    <3>1. \/ UNCHANGED <<activeStreams, inserted>>
          \/ /\ activeStreams' = [activeStreams EXCEPT ![remote[s]] = s]
             /\ inserted' = inserted \cup {s}
      BY <2>2 DEF insertActiveStream, InsertEntry
    <3> QED BY <2>2, <3>1 DEF insertActiveStream
  <2>3. CASE HandlerStops(s)
    BY <2>3 DEF HandlerStops, Close, StreamStates
  <2>4. CASE HandlerReturns(s)
    BY <2>4 DEF HandlerReturns, ExpireEntry
  <2>5. CASE HandlerReads(s)
    BY <2>5 DEF HandlerReads, SetWriteDeadline, handlerVars
  <2> QED BY <1>3, <2>1, <2>2, <2>3, <2>4, <2>5 DEF streamHandler
<1>4. ASSUME NEW s \in Streams, NEW q \in Peers \cup Strangers, NEW v \in {"V0", "V1"},
             RemoteOpens(s, q, v)
      PROVE TypeOK'
  BY <1>4 DEF TypeOK, RemoteOpens, Open, StreamStates, senderVars
<1>5. ASSUME NEW s \in Streams, RemoteGoes(s) \/ DeadlinePasses(s) PROVE TypeOK'
  BY <1>5, ZenonT(30)
     DEF TypeOK, RemoteGoes, DeadlinePasses, StreamStates, senderVars, handlerVars, identityVars
<1>6. CASE UNCHANGED vars
  BY <1>6 DEF TypeOK, vars, senderVars, handlerVars, streamVars, identityVars
<1> QED
  BY <1>1, <1>2, <1>3, <1>4, <1>5, <1>6 DEF Next
-----------------------------------------------------------------------------
(* Entries and their handlers. *)

\* EntryHasCleaner is kept by every step: the entry of a stream leaves with its
\* handler at the latest, and only a new version 1 stream is entered.
LEMMA CleanerStep ==
    TypeOK /\ Ownership /\ EntryHasCleaner /\ [Next]_vars => EntryHasCleaner'
<1> SUFFICES ASSUME TypeOK, Ownership, EntryHasCleaner, [Next]_vars PROVE EntryHasCleaner'
  OBVIOUS
<1> USE DEF EntryHasCleaner
<1>0. /\ activeStreams \in [Peers -> Streams \cup {NoStream}]
      /\ handler \in [Streams -> {"none", "start", "read", "exit", "done"}]
      /\ remote \in [Streams -> Peers \cup Strangers \cup {NoPeer}]
      /\ proto \in [Streams -> {"V0", "V1"}]
      /\ NoStream \notin Streams
  BY ConstantsAssumption DEF TypeOK
<1>1. ASSUME NEW p \in Packets, Dispatch(p) PROVE EntryHasCleaner'
  BY <1>1 DEF Dispatch, handlerVars, streamVars, identityVars
<1>2. ASSUME NEW p \in Packets, sendPacket(p) PROVE EntryHasCleaner'
  <2>1. CASE expireActiveStream(p)
    BY <1>0, <2>1 DEF expireActiveStream, ExpireEntry, handlerVars, identityVars
  <2>2. ASSUME NEW s \in Streams, NEW v \in {"V0", "V1"}, NewStream(p, s, v)
        PROVE EntryHasCleaner'
    BY <1>0, <2>2 DEF NewStream, Open, Ownership, handlerVars
  <2>3. CASE WriteBodyNew(p)
    BY <1>0, <2>3, SMTT(30) DEF WriteBodyNew, Ownership, At, Opening, identityVars
  <2>4. CASE \/ getActiveStream(p) \/ LockStream(p) \/ WriteLen(p) \/ WriteBody(p) \/ Rearm(p)
             \/ CloseFailed(p) \/ NewStreamFails(p) \/ ArmNew(p) \/ WriteLenNew(p) \/ AbandonNew(p)
    BY <2>4, ZenonT(30)
       DEF getActiveStream, LockStream, WriteLen, WriteBody, Rearm, CloseFailed,
                NewStreamFails, ArmNew, WriteLenNew, AbandonNew, handlerVars, streamVars, identityVars
  <2> QED BY <1>2, <2>1, <2>2, <2>3, <2>4 DEF sendPacket
<1>3. ASSUME NEW s \in Streams, streamHandler(s) PROVE EntryHasCleaner'
  <2>1. CASE HandlerRejects(s)
    BY <1>0, <2>1 DEF HandlerRejects, identityVars
  <2>2. CASE insertActiveStream(s)
    <3>1. /\ handler[s] = "start" /\ remote[s] \in Peers
          /\ handler' = [handler EXCEPT ![s] = "read"]
          /\ UNCHANGED <<remote, proto>>
      BY <2>2 DEF insertActiveStream, streamVars, identityVars
    <3>2. \A q \in Peers : activeStreams[q] # s
      BY <1>0, <3>1
    <3>3. CASE proto[s] # "V0" /\ activeStreams[remote[s]] = NoStream
      <4>1. /\ activeStreams' = [activeStreams EXCEPT ![remote[s]] = s]
            /\ inserted' = inserted \cup {s}
        BY <2>2, <3>3 DEF insertActiveStream, InsertEntry
      <4> QED BY <1>0, <3>1, <3>2, <3>3, <4>1
    <3>4. CASE ~(proto[s] # "V0" /\ activeStreams[remote[s]] = NoStream)
      <4>1. UNCHANGED <<activeStreams, inserted>>
        BY <2>2, <3>4 DEF insertActiveStream
      <4> QED BY <1>0, <3>1, <3>2, <4>1
    <3> QED BY <3>3, <3>4
  <2>3. CASE HandlerStops(s)
    BY <1>0, <2>3 DEF HandlerStops, identityVars
  <2>4. CASE HandlerReturns(s)
    <3>1. /\ handler' = [handler EXCEPT ![s] = "done"]
          /\ UNCHANGED <<inserted, remote, proto>>
      BY <2>4 DEF HandlerReturns, streamVars, identityVars
    <3>2. CASE s \in inserted
      <4>1. activeStreams' = [activeStreams EXCEPT ![remote[s]] = NoStream]
        BY <2>4, <3>2 DEF HandlerReturns, ExpireEntry
      <4> QED BY <1>0, <3>1, <4>1
    <3>3. CASE s \notin inserted
      <4>1. UNCHANGED activeStreams
        BY <2>4, <3>3 DEF HandlerReturns
      <4> QED BY <1>0, <3>1, <3>3, <4>1
    <3> QED BY <3>2, <3>3
  <2> QED BY <1>3, <2>1, <2>2, <2>3, <2>4 DEF streamHandler
<1>4. ASSUME NEW s \in Streams, NEW q \in Peers \cup Strangers, NEW v \in {"V0", "V1"},
             RemoteOpens(s, q, v)
      PROVE EntryHasCleaner'
  BY <1>0, <1>4, SMTT(30) DEF RemoteOpens, Open, Ownership
<1>5. ASSUME NEW s \in Streams, HandlerReads(s) \/ RemoteGoes(s) \/ DeadlinePasses(s)
      PROVE EntryHasCleaner'
  BY <1>5 DEF HandlerReads, RemoteGoes, DeadlinePasses, handlerVars, identityVars
<1>6. CASE UNCHANGED vars
  BY <1>6, SMTT(30) DEF vars, handlerVars, streamVars, identityVars
<1> QED
  BY <1>1, <1>2, <1>3, <1>4, <1>5, <1>6 DEF Next

-----------------------------------------------------------------------------
(* Who may write to a stream. *)

\* Every step keeps the ownership of streams: getActiveStream hands out streams
\* with a handler, NewStream streams nobody has.
LEMMA OwnershipStep ==
    TypeOK /\ EntryHasCleaner /\ Ownership /\ [Next]_vars => Ownership'
<1> SUFFICES ASSUME TypeOK, EntryHasCleaner, Ownership, [Next]_vars PROVE Ownership'
  OBVIOUS
<1> USE ConstantsAssumption DEF Ownership, Sharing, Locked, Opening
<1>0. /\ pc \in [Packets -> SenderSteps]
      /\ cur \in [Packets -> Streams \cup {NoStream}]
      /\ handler \in [Streams -> {"none", "start", "read", "exit", "done"}]
      /\ lock \in [Streams -> Packets \cup {NoPacket}]
      /\ state \in [Streams -> StreamStates]
      /\ sent \in [Streams -> Seq(Chunk)]
  BY DEF TypeOK
<1>1. ASSUME NEW p \in Packets, Dispatch(p) PROVE Ownership'
  BY <1>0, <1>1, SMTT(30) DEF Dispatch, At, Goto, handlerVars, streamVars, identityVars
<1>2. ASSUME NEW p \in Packets, sendPacket(p) PROVE Ownership'
  <2> USE <1>0 DEF At, Goto, handlerVars, streamVars, identityVars
  <2>1. CASE getActiveStream(p)
    <3>1. \A r \in Packets : r # p => pc'[r] = pc[r] /\ cur'[r] = cur[r]
      BY <2>1 DEF getActiveStream
    <3>2. \/ pc'[p] = "dial"
          \/ pc'[p] = "lock" /\ cur'[p] \in Streams /\ handler[cur'[p]] # "none"
      <4>1. CASE activeStreams[Dst[p]] = NoStream
        BY <2>1, <4>1 DEF getActiveStream
      <4>2. CASE activeStreams[Dst[p]] # NoStream
        <5>1. /\ activeStreams[Dst[p]] \in Streams
              /\ handler[activeStreams[Dst[p]]] # "none"
          BY <4>2, SMTT(30) DEF EntryHasCleaner, TypeOK
        <5> QED BY <2>1, <4>2, <5>1, ZenonT(30) DEF getActiveStream
      <4> QED BY <4>1, <4>2
    <3> QED BY <2>1, <3>1, <3>2 DEF getActiveStream
  <2>2. CASE LockStream(p)
    BY <2>2 DEF LockStream
  <2>3. CASE WriteLen(p)
    <3>1. cur[p] \in Streams /\ handler[cur[p]] # "none" /\ state[cur[p]] # "unopened"
      BY <2>3, ZenonT(30) DEF WriteLen
    <3>2. \A s \in Streams : s # cur[p] => sent'[s] = sent[s]
      BY <2>3, <3>1 DEF WriteLen, TornWrite, Write
    <3>3. pc[p] \in Locked /\ pc'[p] \in Locked /\ \A r \in Packets : r # p => pc'[r] = pc[r]
      BY <2>3 DEF WriteLen
    <3>4. UNCHANGED <<cur, handler, lock, state>>
      BY <2>3 DEF WriteLen
    <3>5. \A r \in Packets : /\ pc'[r] \in Sharing <=> pc[r] \in Sharing
                             /\ pc'[r] \in Locked <=> pc[r] \in Locked
                             /\ pc'[r] \in Opening <=> pc[r] \in Opening
      BY <3>3
    <3>6. \A t \in Streams : state[t] = "unopened" => sent'[t] = << >>
      BY <3>1, <3>2
    <3> HIDE <1>0 DEF Sharing, Locked, Opening
    <3> QED BY <3>4, <3>5, <3>6
  <2>4. CASE WriteBody(p)
    <3>1. cur[p] \in Streams /\ handler[cur[p]] # "none" /\ state[cur[p]] # "unopened"
      BY <2>4, ZenonT(30) DEF WriteBody
    <3>2. \A s \in Streams : s # cur[p] => sent'[s] = sent[s]
      BY <2>4, <3>1 DEF WriteBody, TornWrite, Write
    <3>3. pc[p] \in Locked /\ pc'[p] \in Locked /\ \A r \in Packets : r # p => pc'[r] = pc[r]
      BY <2>4 DEF WriteBody
    <3>4. UNCHANGED <<cur, handler, lock, state>>
      BY <2>4, ZenonT(30) DEF WriteBody
    <3>5. \A r \in Packets : /\ pc'[r] \in Sharing <=> pc[r] \in Sharing
                             /\ pc'[r] \in Locked <=> pc[r] \in Locked
                             /\ pc'[r] \in Opening <=> pc[r] \in Opening
      BY <3>3
    <3>6. \A t \in Streams : state[t] = "unopened" => sent'[t] = << >>
      BY <3>1, <3>2
    <3> HIDE <1>0 DEF Sharing, Locked, Opening
    <3> QED BY <3>4, <3>5, <3>6
  <2>5. CASE Rearm(p)
    <3>1. CASE Goto(p, "close") /\ UNCHANGED lock
      BY <2>5, <3>1 DEF Rearm
    <3>2. CASE Goto(p, "sent") /\ lock' = [lock EXCEPT ![cur[p]] = NoPacket]
      BY <2>5, <3>2 DEF Rearm
    <3> QED BY <2>5, <3>1, <3>2 DEF Rearm
  <2>6. CASE CloseFailed(p)
    BY <2>6 DEF CloseFailed, Close
  <2>7. CASE expireActiveStream(p)
    BY <2>7, ZenonT(30) DEF expireActiveStream
  <2>8. ASSUME NEW s \in Streams, NEW v \in {"V0", "V1"}, NewStream(p, s, v) PROVE Ownership'
    BY <2>8 DEF NewStream, Open
  <2>9. CASE NewStreamFails(p)
    BY <2>9 DEF NewStreamFails
  <2>10. CASE ArmNew(p)
    BY <2>10, SMTT(30) DEF ArmNew
  <2>11. CASE WriteLenNew(p)
    BY <2>11, SMTT(30) DEF WriteLenNew, Write, WriteSucceeds
  <2>12. CASE WriteBodyNew(p)
    BY <2>12, ZenonT(30) DEF WriteBodyNew, Write, WriteSucceeds
  <2>13. CASE AbandonNew(p)
    BY <2>13, SMTT(30) DEF AbandonNew, Close, TornWrite, Write
  <2> QED
    BY <1>2, <2>1, <2>2, <2>3, <2>4, <2>5, <2>6, <2>7, <2>8, <2>9, <2>10, <2>11, <2>12,
       <2>13, ZenonT(30)
       DEF sendPacket
<1>3. ASSUME NEW s \in Streams, streamHandler(s) \/ HandlerReads(s) PROVE Ownership'
  <2> USE <1>0 DEF senderVars, streamVars, identityVars
  <2>1. CASE HandlerRejects(s)
    BY <2>1, ZenonT(30) DEF HandlerRejects, Close
  <2>2. CASE insertActiveStream(s)
    BY <2>2, ZenonT(30) DEF insertActiveStream
  <2>3. CASE HandlerStops(s)
    BY <2>3 DEF HandlerStops, Close
  <2>4. CASE HandlerReturns(s)
    BY <2>4 DEF HandlerReturns
  <2>5. CASE HandlerReads(s)
    BY <2>5 DEF HandlerReads, handlerVars
  <2> QED BY <1>3, <2>1, <2>2, <2>3, <2>4, <2>5, ZenonT(30) DEF streamHandler
<1>4. ASSUME NEW s \in Streams, NEW q \in Peers \cup Strangers, NEW v \in {"V0", "V1"},
             RemoteOpens(s, q, v)
      PROVE Ownership'
  BY <1>0, <1>4, ZenonT(30) DEF RemoteOpens, Open, senderVars
<1>5. ASSUME NEW s \in Streams, RemoteGoes(s) \/ DeadlinePasses(s) PROVE Ownership'
  BY <1>0, <1>5 DEF RemoteGoes, DeadlinePasses, senderVars, handlerVars, identityVars
<1>6. CASE UNCHANGED vars
  BY <1>6, SMTT(30) DEF vars, senderVars, handlerVars, streamVars, identityVars
<1> QED
  BY <1>1, <1>2, <1>3, <1>4, <1>5, <1>6, ZenonT(30) DEF Next
-----------------------------------------------------------------------------
(* What one sender's step leaves alone. *)

Writing == {"len", "body", "len1", "body1"}

\* A step of one sendPacket goroutine moves no other one, reopens no stream and
\* writes to the stream in its hand only.
LEMMA SenderFrame ==
    ASSUME TypeOK, NEW p \in Packets, Dispatch(p) \/ sendPacket(p)
    PROVE  /\ \A r \in Packets : r # p => pc'[r] = pc[r] /\ cur'[r] = cur[r]
           /\ \A s \in Streams : state[s] = "closed" => state'[s] = "closed"
           /\ \A s \in Streams : sent'[s] = sent[s] \/ (s = cur[p] /\ pc[p] \in Writing)
<1>0. /\ pc \in [Packets -> SenderSteps]
      /\ cur \in [Packets -> Streams \cup {NoStream}]
      /\ state \in [Streams -> StreamStates]
      /\ sent \in [Streams -> Seq(Chunk)]
  BY DEF TypeOK
<1> USE <1>0 DEF At, Goto, streamVars, identityVars
<1>1. CASE Dispatch(p)
  BY <1>1 DEF Dispatch
<1>2. CASE getActiveStream(p)
  BY <1>2 DEF getActiveStream
<1>3. CASE LockStream(p)
  BY <1>3, ZenonT(30) DEF LockStream
<1>4. CASE WriteLen(p) \/ WriteBody(p)
  BY <1>4, ZenonT(30) DEF WriteLen, WriteBody, Write, TornWrite, Writing
<1>5. CASE Rearm(p)
  BY <1>5 DEF Rearm
<1>6. CASE CloseFailed(p)
  BY <1>6 DEF CloseFailed, Close
<1>7. CASE expireActiveStream(p)
  BY <1>7 DEF expireActiveStream
<1>8. ASSUME NEW s \in Streams, NEW v \in {"V0", "V1"}, NewStream(p, s, v)
      PROVE  /\ \A r \in Packets : r # p => pc'[r] = pc[r] /\ cur'[r] = cur[r]
             /\ \A t \in Streams : state[t] = "closed" => state'[t] = "closed"
             /\ \A t \in Streams : sent'[t] = sent[t]
  BY <1>8 DEF NewStream, Open
<1>9. CASE NewStreamFails(p) \/ ArmNew(p)
  BY <1>9 DEF NewStreamFails, ArmNew
<1>10. CASE WriteLenNew(p) \/ WriteBodyNew(p)
  BY <1>10 DEF WriteLenNew, WriteBodyNew, Write, Writing
<1>11. CASE AbandonNew(p)
  BY <1>11 DEF AbandonNew, Close, Write, TornWrite, Opening, Writing
<1> QED
  BY <1>1, <1>2, <1>3, <1>4, <1>5, <1>6, <1>7, <1>8, <1>9, <1>10, <1>11, ZenonT(30)
     DEF sendPacket

\* Two senders that may write have two different streams in hand.
LEMMA SoleWriter ==
    ASSUME Ownership, NEW p \in Packets, NEW r \in Packets, p # r,
           pc[p] \in Locked \cup Opening, pc[r] \in Locked \cup Opening
    PROVE  cur[p] # cur[r]
BY DEF Ownership, Sharing

\* So the place of the others in their frames is kept.
LEMMA OthersPlaced ==
    ASSUME TypeOK, Ownership, Progress, NEW p \in Packets, Dispatch(p) \/ sendPacket(p),
           NEW r \in Packets, r # p
    PROVE  Placed(r)'
<1>1. /\ pc'[r] = pc[r] /\ cur'[r] = cur[r]
      /\ \A s \in Streams : state[s] = "closed" => state'[s] = "closed"
      /\ \A s \in Streams : sent'[s] = sent[s] \/ (s = cur[p] /\ pc[p] \in Writing)
  BY SenderFrame
<1>2. CASE pc[r] \in Locked \cup Opening
  <2>1. cur[r] \in Streams
    BY <1>2 DEF Ownership, Sharing
  <2>2. sent'[cur[r]] = sent[cur[r]]
    BY <1>1, <1>2, <2>1, SoleWriter, ZenonT(30) DEF Writing, Locked, Opening
  <2> QED BY <1>1, <2>1, <2>2, ZenonT(30) DEF Progress, Placed, Settled
<1>3. CASE pc[r] \notin Locked \cup Opening
  BY <1>1, <1>3 DEF Placed, Locked, Opening
<1> QED BY <1>2, <1>3

\* A step that writes nothing, moves no sender and no lock keeps every frame.
LEMMA QuietStep ==
    ASSUME TypeOK, Ownership, Progress, UNCHANGED <<pc, cur, lock, sent>>,
           \A s \in Streams : state[s] = "closed" => state'[s] = "closed"
    PROVE  Progress'
<1>1. ASSUME NEW p \in Packets PROVE Placed(p)'
  <2>1. CASE pc[p] \in Locked \cup Opening
    <3>1. cur[p] \in Streams
      BY <2>1 DEF Ownership, Sharing
    <3> QED BY <3>1, ZenonT(30) DEF Progress, Placed, Settled
  <2>2. CASE pc[p] \notin Locked \cup Opening
    BY <2>2 DEF Placed, Locked, Opening
  <2> QED BY <2>1, <2>2, ZenonT(30)
<1>2. ASSUME NEW s \in Streams PROVE Unowned(s)' => Settled(s)'
  BY DEF Progress, Unowned, Settled
<1> QED BY <1>1, <1>2 DEF Progress
-----------------------------------------------------------------------------
(* The frames. *)

Frames == Progress /\ FrameIntegrity

\* A step of p that leaves the logs, the locks and the set of senders that are
\* opening a stream as they are keeps the frames if p itself is well placed.
LEMMA NoWrite ==
    ASSUME TypeOK, Ownership, Frames, NEW p \in Packets, Dispatch(p) \/ sendPacket(p),
           UNCHANGED <<sent, lock>>, cur'[p] = cur[p],
           pc[p] \in Opening <=> pc'[p] \in Opening, Placed(p)'
    PROVE  Frames'
<1>1. \A r \in Packets : Placed(r)'
  BY OthersPlaced, ZenonT(30) DEF Frames
<1>2. ASSUME NEW s \in Streams, Unowned(s)' PROVE Settled(s)'
  <2>1. Unowned(s)
    <3>1. \A r \in Packets : r # p => pc'[r] = pc[r] /\ cur'[r] = cur[r]
      BY SenderFrame
    <3> QED BY <1>2, <3>1 DEF Unowned
  <2>2. state[s] = "closed" => state'[s] = "closed"
    BY SenderFrame, ZenonT(30)
  <2> QED BY <2>1, <2>2 DEF Frames, Progress, Settled
<1> QED BY <1>1, <1>2 DEF Frames, Progress, FrameIntegrity

\* A step of p on the stream in its hand keeps the frames if it leaves that
\* stream decodable, p well placed, and the stream settled when p lets go of it.
LEMMA OwnStream ==
    ASSUME TypeOK, Ownership, Frames, NEW p \in Packets, sendPacket(p),
           pc[p] \in Locked \cup Opening, cur'[p] = cur[p],
           \A s \in Streams : s # cur[p] => lock'[s] = lock[s],
           WellFramed(sent[cur[p]])', Placed(p)',
           Settled(cur[p])' \/ lock'[cur[p]] # NoPacket \/ pc'[p] \in Opening
    PROVE  Frames'
<1>0. /\ cur[p] \in Streams
      /\ \A s \in Streams : s # cur[p] => sent'[s] = sent[s]
      /\ \A s \in Streams : state[s] = "closed" => state'[s] = "closed"
      /\ \A r \in Packets : r # p => pc'[r] = pc[r] /\ cur'[r] = cur[r]
  BY SenderFrame, ZenonT(30) DEF Ownership, Sharing
<1>1. \A r \in Packets : Placed(r)'
  BY OthersPlaced DEF Frames
<1>2. ASSUME NEW s \in Streams, Unowned(s)' PROVE Settled(s)'
  <2>1. CASE s = cur[p]
    BY <1>2, <2>1, ZenonT(30) DEF Unowned
  <2>2. CASE s # cur[p]
    <3>1. Unowned(s)
      BY <1>0, <1>2, <2>2 DEF Unowned
    <3> QED BY <1>0, <2>2, <3>1 DEF Frames, Progress, Settled
  <2> QED BY <2>1, <2>2
<1>3. FrameIntegrity'
  <2>1. ASSUME NEW s \in Streams PROVE WellFramed(sent[s])'
    <3>1. CASE s = cur[p]
      BY <3>1, ZenonT(30)
    <3>2. CASE s # cur[p]
      BY <1>0, <3>2, SMTT(30) DEF Frames, FrameIntegrity, WellFramed
    <3> QED BY <3>1, <3>2
  <2> QED BY <2>1 DEF FrameIntegrity
<1> QED BY <1>1, <1>2, <1>3, ZenonT(30) DEF Frames, Progress

\* A write on the stream in hand: what each outcome makes of its log.
LEMMA LogAfterWrite ==
    ASSUME TypeOK, NEW s \in Streams, NEW p \in Packets, NEW part \in {"len", "body", "torn"},
           Write(s, p, part)
    PROVE  /\ sent'[s] = Append(sent[s], <<p, part>>)
           /\ Len(sent'[s]) = Len(sent[s]) + 1
           /\ sent'[s][Len(sent'[s])] = <<p, part>>
<1>1. sent[s] \in Seq(Chunk) /\ <<p, part>> \in Chunk
  BY DEF TypeOK, Chunk
<1>2. sent'[s] = Append(sent[s], <<p, part>>)
  BY ZenonT(30) DEF TypeOK, Write
<1> QED BY <1>1, <1>2

\* A length written to a settled stream that takes it.
LEMMA LenWritten ==
    ASSUME TypeOK, Frames, NEW s \in Streams, NEW p \in Packets,
           Settled(s), WriteSucceeds(s), Write(s, p, "len")
    PROVE  /\ WellFramed(sent[s])'
           /\ Len(sent'[s]) > 0 /\ sent'[s][Len(sent'[s])] = <<p, "len">>
<1>1. Whole(sent[s]) /\ WellFramed(sent[s]) /\ sent[s] \in Seq(Chunk)
  BY DEF Settled, WriteSucceeds, Frames, FrameIntegrity, TypeOK
<1>2. sent'[s] = Append(sent[s], <<p, "len">>) /\ Len(sent'[s]) = Len(sent[s]) + 1
      /\ sent'[s][Len(sent'[s])] = <<p, "len">>
  BY LogAfterWrite
<1> QED BY <1>1, <1>2, AppendLen

\* A body written after its length.
LEMMA BodyWritten ==
    ASSUME TypeOK, Frames, NEW s \in Streams, NEW p \in Packets,
           Len(sent[s]) > 0, sent[s][Len(sent[s])] = <<p, "len">>, Write(s, p, "body")
    PROVE  WellFramed(sent[s])' /\ Settled(s)'
<1>1. WellFramed(sent[s]) /\ sent[s] \in Seq(Chunk)
  BY ZenonT(30) DEF Frames, FrameIntegrity, TypeOK
<1>2. sent'[s] = Append(sent[s], <<p, "body">>)
  BY LogAfterWrite
<1> QED BY <1>1, <1>2, AppendBody, ZenonT(30) DEF Settled

\* A write that failed, on a stream that is settled or ends with a length.
LEMMA WriteCutOff ==
    ASSUME TypeOK, Frames, NEW s \in Streams, NEW p \in Packets, TornWrite(s, p),
           \/ Settled(s)
           \/ Len(sent[s]) > 0 /\ sent[s][Len(sent[s])] = <<p, "len">>
    PROVE  WellFramed(sent[s])'
<1>1. WellFramed(sent[s]) /\ sent[s] \in Seq(Chunk)
  BY DEF Frames, FrameIntegrity, TypeOK
<1>2. CASE UNCHANGED sent
  BY <1>1, <1>2, ZenonT(30)
<1>3. CASE state[s] # "closed" /\ Write(s, p, "torn")
  <2>1. Len(sent[s]) > 0 => sent[s][Len(sent[s])][2] # "torn"
    BY <1>3 DEF Settled, Whole
  <2>2. sent'[s] = Append(sent[s], <<p, "torn">>)
    BY <1>3, LogAfterWrite
  <2> QED BY <1>1, <2>1, <2>2, AppendTorn
<1> QED BY <1>2, <1>3, ZenonT(30) DEF TornWrite

\* Every step of a sender keeps the frames.
LEMMA FramesSender ==
    ASSUME TypeOK, Ownership, Frames, NEW p \in Packets, Dispatch(p) \/ sendPacket(p)
    PROVE  Frames'
<1>0. /\ pc \in [Packets -> SenderSteps]
      /\ cur \in [Packets -> Streams \cup {NoStream}]
      /\ state \in [Streams -> StreamStates]
      /\ lock \in [Streams -> Packets \cup {NoPacket}]
      /\ sent \in [Streams -> Seq(Chunk)]
      /\ NoPacket \notin Packets
  BY ConstantsAssumption, ZenonT(30) DEF TypeOK
<1>a. /\ pc[p] \in Sharing \cup Opening => cur[p] \in Streams
      /\ pc[p] \in Locked => lock[cur[p]] = p
      /\ Placed(p)
  BY ZenonT(30) DEF Ownership, Frames, Progress
<1> USE <1>0 DEF At, Goto, Sharing, Locked, Opening
<1>1. CASE Dispatch(p)
  <2>1. pc'[p] = "get" /\ pc[p] = "idle" /\ UNCHANGED <<sent, lock, cur>>
    BY <1>1 DEF Dispatch, streamVars
  <2> QED BY <2>1, NoWrite, ZenonT(30) DEF Placed
<1>2. CASE getActiveStream(p)
  <2>1. pc[p] = "get" /\ pc'[p] \in {"dial", "lock"} /\ UNCHANGED <<sent, lock, state>>
    BY <1>2 DEF getActiveStream, streamVars
  <2>2. \A r \in Packets : Placed(r)'
    BY <2>1, OthersPlaced, ZenonT(30) DEF Frames, Placed
  <2>3. ASSUME NEW s \in Streams, Unowned(s)' PROVE Settled(s)'
    <3>1. Unowned(s)
      BY <2>1, <2>3, SenderFrame, ZenonT(30) DEF Unowned
    <3> QED BY <2>1, <3>1, ZenonT(30) DEF Frames, Progress, Settled
  <2> QED BY <2>1, <2>2, <2>3 DEF Frames, Progress, FrameIntegrity
<1>3. CASE LockStream(p)
  <2>1. /\ pc[p] = "lock" /\ pc'[p] = "len" /\ lock[cur[p]] = NoPacket
        /\ lock' = [lock EXCEPT ![cur[p]] = p] /\ UNCHANGED <<sent, cur, state>>
    BY <1>3 DEF LockStream
  <2>2. cur[p] \in Streams /\ Settled(cur[p])
    <3>1. cur[p] \in Streams /\ Unowned(cur[p])
      BY <2>1 DEF Ownership, Unowned
    <3> QED BY <3>1 DEF Frames, Progress
  <2>3. \A r \in Packets : Placed(r)'
    <3>1. Placed(p)'
      BY <2>1, <2>2 DEF Placed, Settled
    <3> QED BY <3>1, OthersPlaced, ZenonT(30) DEF Frames
  <2>4. ASSUME NEW s \in Streams, Unowned(s)' PROVE Settled(s)'
    <3>1. Unowned(s)
      BY <2>1, <2>2, <2>4, SenderFrame, ZenonT(30) DEF Unowned
    <3> QED BY <2>1, <3>1 DEF Frames, Progress, Settled
  <2> QED BY <2>1, <2>3, <2>4 DEF Frames, Progress, FrameIntegrity
<1>4. CASE WriteLen(p)
  <2>1. pc[p] = "len" /\ UNCHANGED <<cur, lock, state>>
    BY <1>4 DEF WriteLen
  <2>2. cur[p] \in Streams /\ Settled(cur[p])
    BY <1>a, <2>1, ZenonT(30) DEF Placed
  <2>3. WellFramed(sent[cur[p]])' /\ Placed(p)'
    <3>1. CASE WriteSucceeds(cur[p]) /\ Write(cur[p], p, "len") /\ Goto(p, "body")
      BY <2>1, <2>2, <3>1, LenWritten, ZenonT(30) DEF Placed
    <3>2. CASE TornWrite(cur[p], p) /\ Goto(p, "close")
      BY <2>1, <2>2, <3>2, WriteCutOff, ZenonT(30) DEF Placed
    <3> QED BY <1>4, <3>1, <3>2, SMTT(30) DEF WriteLen
  <2> QED BY <1>4, <1>a, <2>1, <2>3, OwnStream, ZenonT(30) DEF sendPacket
<1>5. CASE WriteBody(p)
  <2>1. pc[p] = "body" /\ UNCHANGED <<cur, lock, state>>
    BY <1>5, SMTT(30) DEF WriteBody
  <2>2. cur[p] \in Streams /\ Len(sent[cur[p]]) > 0 /\ sent[cur[p]][Len(sent[cur[p]])] = <<p, "len">>
    BY <1>a, <2>1, ZenonT(30) DEF Placed
  <2>3. WellFramed(sent[cur[p]])' /\ Placed(p)'
    <3>1. CASE Write(cur[p], p, "body") /\ Goto(p, "rearm")
      <4>1. WellFramed(sent[cur[p]])' /\ Settled(cur[p])'
        BY <2>1, <2>2, <3>1, BodyWritten, ZenonT(30) DEF Settled
      <4> QED BY <2>1, <3>1, <4>1, ZenonT(30) DEF Placed
    <3>2. CASE TornWrite(cur[p], p) /\ Goto(p, "close")
      BY <2>1, <2>2, <3>2, WriteCutOff, ZenonT(30) DEF Placed
    <3> QED BY <1>5, <3>1, <3>2, ZenonT(30) DEF WriteBody
  <2> QED BY <1>5, <1>a, <2>1, <2>3, OwnStream, ZenonT(30) DEF sendPacket
<1>6. CASE Rearm(p)
  <2>1. pc[p] = "rearm" /\ pc'[p] \in {"sent", "close"} /\ UNCHANGED <<cur, sent, state>>
    BY <1>6, ZenonT(30) DEF Rearm
  <2>2. cur[p] \in Streams /\ Settled(cur[p])
    BY <1>a, <2>1, ZenonT(30) DEF Placed
  <2>3. Settled(cur[p])' /\ Placed(p)' /\ WellFramed(sent[cur[p]])'
    BY <2>1, <2>2, ZenonT(30) DEF Settled, Placed, Frames, FrameIntegrity
  <2>4. \A s \in Streams : s # cur[p] => lock'[s] = lock[s]
    BY <1>6, SMTT(30) DEF Rearm
  <2> QED BY <1>6, <2>1, <2>3, <2>4, OwnStream, ZenonT(30) DEF sendPacket
<1>7. CASE CloseFailed(p)
  <2>1. /\ pc[p] = "close" /\ pc'[p] = "expire" /\ cur[p] \in Streams
        /\ UNCHANGED <<cur, sent, lock>> /\ state'[cur[p]] = "closed"
    BY <1>7, <1>a, ZenonT(30) DEF CloseFailed, Close
  <2> QED BY <1>7, <2>1, NoWrite, ZenonT(30) DEF sendPacket, Placed
<1>8. CASE expireActiveStream(p)
  <2>1. /\ pc[p] = "expire" /\ pc'[p] = "dial" /\ UNCHANGED <<cur, sent, state>>
        /\ lock' = [lock EXCEPT ![cur[p]] = NoPacket]
    BY <1>8, SMTT(30) DEF expireActiveStream
  <2>2. cur[p] \in Streams /\ Settled(cur[p])'
    BY <1>a, <2>1, ZenonT(30) DEF Placed, Settled
  <2>3. Placed(p)' /\ WellFramed(sent[cur[p]])'
    BY <2>1, <2>2, SMTT(30) DEF Placed, Frames, FrameIntegrity
  <2> QED BY <1>8, <2>1, <2>2, <2>3, OwnStream, ZenonT(30) DEF sendPacket
<1>9. ASSUME NEW s \in Streams, NEW v \in {"V0", "V1"}, NewStream(p, s, v) PROVE Frames'
  <2>1. /\ pc[p] = "dial" /\ pc'[p] = "arm" /\ cur'[p] = s /\ UNCHANGED <<lock, sent>>
        /\ state[s] = "unopened"
    BY <1>9, ZenonT(30) DEF NewStream, Open
  <2>2. sent[s] = << >>
    BY <2>1, ZenonT(30) DEF Ownership
  <2>3. \A r \in Packets : Placed(r)'
    <3>1. Placed(p)'
      BY <2>1, <2>2 DEF Placed, Settled, Whole
    <3>2. sendPacket(p)
      BY <1>9, ZenonT(30) DEF sendPacket
    <3> QED BY <3>1, <3>2, OthersPlaced, ZenonT(30) DEF Frames
  <2>4. ASSUME NEW t \in Streams, Unowned(t)' PROVE Settled(t)'
    <3>1. \A r \in Packets : r # p => pc'[r] = pc[r] /\ cur'[r] = cur[r]
      BY SenderFrame, ZenonT(30)
    <3>2. Unowned(t)
      BY <2>1, <2>4, <3>1, ZenonT(30) DEF Unowned
    <3>3. state[t] = "closed" => state'[t] = "closed"
      BY SenderFrame
    <3> QED BY <2>1, <3>2, <3>3, ZenonT(30) DEF Frames, Progress, Settled
  <2> QED BY <2>1, <2>3, <2>4, ZenonT(30) DEF Frames, Progress, FrameIntegrity
<1>10. CASE NewStreamFails(p)
  <2>1. pc[p] = "dial" /\ pc'[p] = "lost" /\ UNCHANGED <<cur, sent, lock>>
    BY <1>10 DEF NewStreamFails, streamVars
  <2> QED BY <1>10, <2>1, NoWrite, ZenonT(30) DEF sendPacket, Placed
<1>11. CASE ArmNew(p)
  <2>1. pc[p] = "arm" /\ pc'[p] = "len1" /\ UNCHANGED <<cur, sent, lock, state>>
    BY <1>11, SMTT(30) DEF ArmNew
  <2>2. Placed(p)'
    BY <1>a, <2>1, ZenonT(30) DEF Placed, Settled
  <2> QED BY <1>11, <2>1, <2>2, NoWrite DEF sendPacket
<1>12. CASE WriteLenNew(p)
  <2>1. /\ pc[p] = "len1" /\ pc'[p] = "body1" /\ UNCHANGED <<cur, lock, state>>
        /\ WriteSucceeds(cur[p]) /\ Write(cur[p], p, "len")
    BY <1>12, SMTT(30) DEF WriteLenNew
  <2>2. cur[p] \in Streams /\ Settled(cur[p])
    BY <1>a, <2>1, ZenonT(30) DEF Placed
  <2>3. WellFramed(sent[cur[p]])' /\ Placed(p)'
    BY <2>1, <2>2, LenWritten, ZenonT(30) DEF Placed
  <2> QED BY <1>12, <2>1, <2>3, OwnStream, ZenonT(30) DEF sendPacket
<1>13. CASE WriteBodyNew(p)
  <2>1. /\ pc[p] = "body1" /\ pc'[p] = "sent" /\ UNCHANGED <<cur, lock, state>>
        /\ Write(cur[p], p, "body")
    BY <1>13, SMTT(30) DEF WriteBodyNew
  <2>2. cur[p] \in Streams /\ Len(sent[cur[p]]) > 0 /\ sent[cur[p]][Len(sent[cur[p]])] = <<p, "len">>
    BY <1>a, <2>1, ZenonT(30) DEF Placed
  <2>3. WellFramed(sent[cur[p]])' /\ Settled(cur[p])' /\ Placed(p)'
    <3>1. WellFramed(sent[cur[p]])' /\ Settled(cur[p])'
      BY <2>1, <2>2, BodyWritten, ZenonT(30) DEF Settled
    <3> QED BY <2>1, <3>1, ZenonT(30) DEF Placed
  <2> QED BY <1>13, <2>1, <2>3, OwnStream, ZenonT(30) DEF sendPacket
<1>14. CASE AbandonNew(p)
  <2>1. /\ pc[p] \in Opening /\ pc'[p] = "lost" /\ UNCHANGED <<cur, lock>> /\ cur[p] \in Streams
        /\ state'[cur[p]] = "closed"
    BY <1>14, <1>a, ZenonT(30) DEF AbandonNew, Close
  <2>2. WellFramed(sent[cur[p]])'
    <3>1. CASE UNCHANGED sent
      BY <2>1, <3>1, SMTT(30) DEF Frames, FrameIntegrity
    <3>2. CASE pc[p] \in {"len1", "body1"} /\ TornWrite(cur[p], p)
      <4>1. \/ Settled(cur[p])
            \/ Len(sent[cur[p]]) > 0 /\ sent[cur[p]][Len(sent[cur[p]])] = <<p, "len">>
        BY <1>a, <3>2, SMTT(30) DEF Placed
      <4> QED BY <2>1, <3>2, <4>1, WriteCutOff, ZenonT(30)
    <3> QED BY <1>14, <3>1, <3>2 DEF AbandonNew
  <2>3. Placed(p)' /\ Settled(cur[p])'
    BY <2>1, ZenonT(30) DEF Placed, Settled
  <2> QED BY <1>14, <2>1, <2>2, <2>3, OwnStream, ZenonT(30) DEF sendPacket
<1> QED
  BY <1>1, <1>2, <1>3, <1>4, <1>5, <1>6, <1>7, <1>8, <1>9, <1>10, <1>11, <1>12, <1>13,
     <1>14, ZenonT(30)
     DEF sendPacket

\* So does every step of a handler or of the remote end.
LEMMA FramesStep == TypeOK /\ Ownership /\ Frames /\ [Next]_vars => Frames'
<1> SUFFICES ASSUME TypeOK, Ownership, Frames, [Next]_vars PROVE Frames'
  OBVIOUS
<1>1. ASSUME NEW p \in Packets, Dispatch(p) \/ sendPacket(p) PROVE Frames'
  BY <1>1, FramesSender
<1>2. ASSUME UNCHANGED <<pc, cur, lock, sent>>,
             \A s \in Streams : state[s] = "closed" => state'[s] = "closed"
      PROVE  Frames'
  <2>1. Progress'
    BY <1>2, QuietStep, SMTT(30) DEF Frames
  <2> QED BY <1>2, <2>1 DEF Frames, FrameIntegrity
<1>3. ASSUME NEW s \in Streams,
             \/ streamHandler(s) \/ HandlerReads(s) \/ RemoteGoes(s) \/ DeadlinePasses(s)
             \/ \E q \in Peers \cup Strangers, v \in {"V0", "V1"} : RemoteOpens(s, q, v)
      PROVE Frames'
  <2>1. state \in [Streams -> StreamStates]
    BY SMTT(30) DEF TypeOK
  <2>2. /\ UNCHANGED <<pc, cur, lock, sent>>
        /\ \A t \in Streams : state[t] = "closed" => state'[t] = "closed"
    BY <1>3, <2>1, ZenonT(30)
       DEF streamHandler, HandlerRejects, insertActiveStream, HandlerStops,
       HandlerReturns, HandlerReads, RemoteGoes, DeadlinePasses, RemoteOpens, Open, Close,
       senderVars, streamVars
  <2> QED BY <1>2, <2>2
<1>4. CASE UNCHANGED vars
  BY <1>2, <1>4, SMTT(30) DEF vars, senderVars, streamVars
<1> QED BY <1>1, <1>3, <1>4 DEF Next
-----------------------------------------------------------------------------
(* Copies of a packet. *)

\* The open stream that carries a packet is the one in its sender's hand, and a
\* sender that has not written yet, or dials again, has none.
Copies ==
    \A p \in Packets, s \in Streams : Carries(s, p) =>
        /\ state[s] = "open" => s = cur[p]
        /\ pc[p] \notin {"idle", "get", "lock"}
        /\ pc[p] = "dial" => state[s] # "open"

\* A step of p puts only p on a stream, and only on the one in its hand.
LEMMA CarriesStep ==
    ASSUME TypeOK, Ownership, NEW p \in Packets, Dispatch(p) \/ sendPacket(p),
           NEW r \in Packets, NEW s \in Streams, Carries(s, r)'
    PROVE  \/ Carries(s, r)
           \/ r = p /\ s = cur[p] /\ pc[p] \in Writing /\ pc'[p] \notin {"idle", "get", "lock", "dial"}
              /\ cur' = cur
<1>0. sent \in [Streams -> Seq(Chunk)] /\ pc \in [Packets -> SenderSteps]
  BY ZenonT(30) DEF TypeOK
<1>1. CASE sent'[s] = sent[s]
  BY <1>1, ZenonT(30) DEF Carries
<1>2. CASE sent'[s] # sent[s]
  <2>1. /\ s = cur[p] /\ pc[p] \in Writing /\ pc'[p] \notin {"idle", "get", "lock", "dial"}
        /\ cur' = cur
        /\ \E part \in {"len", "body", "torn"} : Write(s, p, part)
    <3>1. s = cur[p] /\ pc[p] \in Writing
      BY <1>2, SenderFrame, ZenonT(30)
    <3>2. WriteLen(p) \/ WriteBody(p) \/ WriteLenNew(p) \/ WriteBodyNew(p) \/ AbandonNew(p)
      BY <1>2, <3>1, ZenonT(30)
         DEF Writing, sendPacket, Dispatch, getActiveStream, LockStream, Rearm,
         CloseFailed, expireActiveStream, NewStream, NewStreamFails, ArmNew, At
    <3> QED
      BY <1>0, <1>2, <3>1, <3>2, ZenonT(30)
         DEF WriteLen, WriteBody, WriteLenNew, WriteBodyNew, AbandonNew,
         TornWrite, Goto
  <2>2. PICK part \in {"len", "body", "torn"} : Write(s, p, part)
    BY <2>1, ZenonT(30)
  <2>3. sent'[s] = Append(sent[s], <<p, part>>) /\ sent[s] \in Seq(Chunk)
    BY <1>0, <2>2, LogAfterWrite, ZenonT(30)
  <2>4. PICK i \in 1..Len(sent'[s]) : sent'[s][i][1] = r
    BY SMTT(30) DEF Carries
  <2>5. CASE i = Len(sent[s]) + 1
    <3>1. sent'[s][i] = <<p, part>>
      BY <2>3, <2>5, SMTT(30)
    <3>2. <<p, part>>[1] = p
      BY ZenonT(30)
    <3> QED BY <2>1, <2>4, <3>1, <3>2, Zenon
  <2>6. CASE i # Len(sent[s]) + 1
    <3>1. i \in 1..Len(sent[s]) /\ sent'[s][i] = sent[s][i]
      BY <2>3, <2>4, <2>6 DEF Chunk
    <3> QED BY <2>4, <3>1, ZenonT(30) DEF Carries
  <2> QED BY <2>5, <2>6, SMTT(30)
<1> QED BY <1>1, <1>2, ZenonT(30)

\* A stream that is open after a step was open before it, or carries nothing.
LEMMA OpenStep ==
    ASSUME TypeOK, Ownership, Next, NEW s \in Streams, state'[s] = "open", state[s] # "open"
    PROVE  \A p \in Packets : ~Carries(s, p)'
<1>0. state \in [Streams -> StreamStates]
  BY SMTT(30) DEF TypeOK
<1>1. ASSUME NEW p \in Packets, Dispatch(p) \/ sendPacket(p)
      PROVE  state[s] = "unopened" /\ UNCHANGED sent
  BY <1>0, <1>1, ZenonT(30)
     DEF Dispatch, sendPacket, getActiveStream, LockStream, WriteLen, WriteBody, Rearm,
     CloseFailed, expireActiveStream, NewStream, NewStreamFails, ArmNew, WriteLenNew,
     WriteBodyNew, AbandonNew, Open, Close, streamVars
<1>2. ASSUME NEW t \in Streams,
             \/ streamHandler(t) \/ HandlerReads(t) \/ RemoteGoes(t) \/ DeadlinePasses(t)
             \/ \E q \in Peers \cup Strangers, v \in {"V0", "V1"} : RemoteOpens(t, q, v)
      PROVE  state[s] = "unopened" /\ UNCHANGED sent
  BY <1>0, <1>2, ZenonT(30) DEF streamHandler, HandlerRejects, insertActiveStream, HandlerStops,
     HandlerReturns, HandlerReads, RemoteGoes, DeadlinePasses, RemoteOpens, Open, Close, streamVars
<1>3. state[s] = "unopened" /\ UNCHANGED sent
  BY <1>1, <1>2, ZenonT(30) DEF Next
<1> QED BY <1>3 DEF Ownership, Carries

\* Every step keeps Copies.
LEMMA CopiesStep ==
    TypeOK /\ Ownership /\ Frames /\ Copies /\ [Next]_vars => Copies'
<1> SUFFICES ASSUME TypeOK, Ownership, Frames, Copies, [Next]_vars PROVE Copies'
  OBVIOUS
<1>0. pc \in [Packets -> SenderSteps] /\ cur \in [Packets -> Streams \cup {NoStream}]
  BY SMTT(30) DEF TypeOK
<1>1. ASSUME NEW p \in Packets, Dispatch(p) \/ sendPacket(p) PROVE Copies'
  <2> SUFFICES ASSUME NEW r \in Packets, NEW s \in Streams, Carries(s, r)'
               PROVE  /\ state'[s] = "open" => s = cur'[r]
                      /\ pc'[r] \notin {"idle", "get", "lock"}
                      /\ pc'[r] = "dial" => state'[s] # "open"
    BY ZenonT(30) DEF Copies
  <2>1. state'[s] = "open" => state[s] = "open"
    BY <1>1, OpenStep, ZenonT(30) DEF Next
  <2>2. CASE r = p /\ s = cur[p] /\ pc[p] \in Writing
             /\ pc'[p] \notin {"idle", "get", "lock", "dial"} /\ cur' = cur
    BY <2>2, SMTT(30)
  <2>3. CASE Carries(s, r) /\ r # p
    <3>1. pc'[r] = pc[r] /\ cur'[r] = cur[r]
      BY <1>1, <2>3, SenderFrame, ZenonT(30)
    <3> QED BY <2>1, <2>3, <3>1, ZenonT(30) DEF Copies
  <2>4. CASE Carries(s, r) /\ r = p
    <3>1. /\ state[s] = "open" => s = cur[p]
          /\ pc[p] \notin {"idle", "get", "lock"}
          /\ pc[p] = "dial" => state[s] # "open"
      BY <2>4, SMTT(30) DEF Copies
    <3>2. pc'[p] \notin {"idle", "get", "lock"}
      BY <1>0, <1>1, <3>1, ZenonT(30)
         DEF sendPacket, Dispatch, getActiveStream, LockStream, WriteLen, WriteBody,
         Rearm, CloseFailed, expireActiveStream, NewStream, NewStreamFails, ArmNew, WriteLenNew,
         WriteBodyNew, AbandonNew, At, Goto
    <3>3. pc[p] = "dial" \/ cur' = cur
      BY <1>1, <3>1, ZenonT(30)
         DEF sendPacket, Dispatch, getActiveStream, LockStream, WriteLen, WriteBody,
         Rearm, CloseFailed, expireActiveStream, NewStream, NewStreamFails, ArmNew, WriteLenNew,
         WriteBodyNew, AbandonNew, At
    <3>4. pc'[p] = "dial" => pc[p] \in {"dial", "expire"}
      BY <1>0, <1>1, <3>1, ZenonT(30)
         DEF sendPacket, Dispatch, getActiveStream, LockStream, WriteLen, WriteBody,
         Rearm, CloseFailed, expireActiveStream, NewStream, NewStreamFails, ArmNew, WriteLenNew,
         WriteBodyNew, AbandonNew, At, Goto
    <3>5. pc[p] = "expire" => state[cur[p]] = "closed"
      BY SMTT(30) DEF Frames, Progress, Placed
    <3> QED BY <2>1, <2>4, <3>1, <3>2, <3>3, <3>4, <3>5, ZenonT(30)
  <2> QED BY <1>1, <2>2, <2>3, <2>4, CarriesStep, ZenonT(30)
<1>2. ASSUME NEW t \in Streams,
             \/ streamHandler(t) \/ HandlerReads(t) \/ RemoteGoes(t) \/ DeadlinePasses(t)
             \/ \E q \in Peers \cup Strangers, v \in {"V0", "V1"} : RemoteOpens(t, q, v)
      PROVE  Copies'
  <2>1. UNCHANGED <<pc, cur, sent>>
    BY <1>2, ZenonT(30) DEF streamHandler, HandlerRejects, insertActiveStream, HandlerStops,
       HandlerReturns, HandlerReads, RemoteGoes, DeadlinePasses, RemoteOpens, senderVars, streamVars
  <2>2. ASSUME NEW s \in Streams, NEW p \in Packets, Carries(s, p)' PROVE state'[s] = "open" => state[s] = "open"
    BY <1>2, <2>2, OpenStep, ZenonT(30) DEF Next
  <2> QED BY <2>1, <2>2, ZenonT(30) DEF Copies, Carries
<1>3. CASE UNCHANGED vars
  BY <1>3, ZenonT(30) DEF Copies, Carries, vars, senderVars, streamVars
<1> QED BY <1>1, <1>2, <1>3 DEF Next

-----------------------------------------------------------------------------
(* The theorems. *)

\* The inductive invariant.
IInv == TypeOK /\ EntryHasCleaner /\ Ownership /\ Frames /\ Copies

\* The inductive invariant holds when Run has made the map.
LEMMA InitInv == Init => IInv
<1> SUFFICES ASSUME Init PROVE IInv
  OBVIOUS
<1>1. TypeOK
  BY InitType, ZenonT(30)
<1>2. Ownership /\ EntryHasCleaner
  BY ConstantsAssumption DEF Init, Ownership, EntryHasCleaner, Sharing, Locked, Opening
<1>3. \A s \in Streams : sent[s] = << >>
  BY DEF Init
<1>4. \A p \in Packets : Placed(p)
  BY ZenonT(30) DEF Init, Placed
<1>5. \A s \in Streams : Settled(s) /\ WellFramed(sent[s])
  BY <1>3 DEF Settled, Whole, WellFramed
<1>6. Frames
  BY <1>4, <1>5 DEF Frames, Progress, FrameIntegrity
<1>7. \A s \in Streams, p \in Packets : ~Carries(s, p)
  BY <1>3 DEF Carries
<1>8. Copies
  BY <1>7 DEF Copies
<1> QED BY <1>1, <1>2, <1>6, <1>8 DEF IInv

\* Every step of the packet plane keeps it.
LEMMA NextInv == IInv /\ [Next]_vars => IInv'
<1>1. Ownership => StreamInHand
  BY DEF Ownership, StreamInHand
<1> QED BY <1>1, TypeStep, CleanerStep, OwnershipStep, FramesStep, CopiesStep,
  ZenonT(30) DEF IInv

\* So it holds at all times.
LEMMA Invariance == Spec => []IInv
BY InitInv, NextInv, PTL DEF Spec

\* sendPacket and streamHandler keep the types of the node's shared state.
THEOREM TypeCorrect == Spec => []TypeOK
BY Invariance, PTL DEF IInv

\* Whatever the senders, handlers, failures and timeouts do, what is written to
\* a stream decodes as packets: the frames of concurrent sendPacket calls never mix.
THEOREM FramesNeverMix == Spec => []FrameIntegrity
BY Invariance, PTL DEF IInv, Frames

\* Every entry of activeStreams has the running handler that will expire it.
THEOREM EntriesAreCleaned == Spec => []EntryHasCleaner
BY Invariance, PTL DEF IInv

\* A packet that sendPacket retries is never on two open streams.
THEOREM NoSecondLiveCopy == Spec => []OneLiveCopy
<1>1. IInv => OneLiveCopy
  BY DEF IInv, Copies, OneLiveCopy
<1> QED BY <1>1, Invariance, PTL

(***************************************************************************)
(* StreamSharing implements PacketPlane: every step of a sendPacket or     *)
(* streamHandler goroutine does what PacketPlane allows, or nothing that   *)
(* it sees.                                                                *)
(***************************************************************************)

\* Where a packet has been written whole: nowhere before its sender wrote it,
\* not on the stream its sender opened for it, and on the shared stream in its
\* sender's hand when the sender is about to move the deadline.
Written ==
    \A p \in Packets :
        /\ pc[p] \in {"idle", "get", "lock", "len", "body"} =>
               \A s \in Streams : p \notin WholePackets(s)
        /\ pc[p] \in Opening => p \notin WholePackets(cur[p])
        /\ pc[p] = "rearm" => p \in WholePackets(cur[p])

PInv == IInv /\ Written

-----------------------------------------------------------------------------
(* What a step does to the packets that PacketPlane sees. *)

\* The fate of a packet follows the step of its goroutine.
FateAt(step) == IF step \in {"idle", "sent", "lost"} THEN step ELSE "taken"

\* A goroutine that goes to another step changes the fate of its packet only.
LEMMA FateStep ==
    ASSUME TypeOK, NEW p \in Packets, NEW step \in SenderSteps, Goto(p, step)
    PROVE  \A q \in Packets : Fate(q)' = IF q = p THEN FateAt(step) ELSE Fate(q)
BY DEF TypeOK, Goto, Fate, FateAt

\* A write of a body adds its packet to those of its stream; other writes none.
LEMMA WholeStep ==
    ASSUME TypeOK, NEW s \in Streams, NEW p \in Packets, NEW part \in {"len", "body", "torn"},
           Write(s, p, part)
    PROVE  \A t \in Streams : WholePackets(t)' =
               IF t = s /\ part = "body" THEN WholePackets(t) \cup {p} ELSE WholePackets(t)
<1> SUFFICES ASSUME NEW t \in Streams
             PROVE  WholePackets(t)' =
               IF t = s /\ part = "body" THEN WholePackets(t) \cup {p} ELSE WholePackets(t)
  OBVIOUS
<1>1. sent \in [Streams -> Seq(Chunk)] /\ sent[t] \in Seq(Chunk)
  BY DEF TypeOK
<1>2. CASE t # s
  BY <1>1, <1>2, SMTT(30) DEF Write, WholePackets
<1>3. CASE t = s
  <2>1. sent'[t] = Append(sent[t], <<p, part>>)
    BY <1>1, <1>3, ZenonT(30) DEF Write
  <2>2. /\ Len(sent'[t]) = Len(sent[t]) + 1 /\ Len(sent[t]) \in Nat
        /\ sent'[t][Len(sent[t]) + 1] = <<p, part>>
        /\ \A i \in 1..Len(sent[t]) : sent'[t][i] = sent[t][i]
    BY <1>1, <2>1 DEF Chunk
  <2>3. ASSUME NEW q \in Packets
        PROVE  (\E i \in 1..Len(sent'[t]) : sent'[t][i] = <<q, "body">>)
               <=> \/ \E i \in 1..Len(sent[t]) : sent[t][i] = <<q, "body">>
                   \/ q = p /\ part = "body"
    <3> PICK n \in Nat : n = Len(sent[t]) /\ Len(sent'[t]) = n + 1
      BY <2>2, ZenonT(30)
    <3>1. sent'[t][n + 1] = <<p, part>> /\ \A i \in 1..n : sent'[t][i] = sent[t][i]
      BY <2>2
    <3>2. n + 1 \in 1..(n + 1) /\ \A i \in 1..(n + 1) : i \in 1..n \/ i = n + 1
      OBVIOUS
    <3>3. \A i \in 1..n : i \in 1..(n + 1)
      OBVIOUS
    <3>4. <<p, part>> = <<q, "body">> <=> q = p /\ part = "body"
      OBVIOUS
    <3> QED BY <3>1, <3>2, <3>3, <3>4, ZenonT(30)
  <2> QED BY <1>3, <2>3, ZenonT(30) DEF WholePackets
<1> QED BY <1>2, <1>3

\* Without a write the streams carry what they did.
LEMMA WholeSame ==
    ASSUME UNCHANGED sent
    PROVE  \A t \in Streams : WholePackets(t)' = WholePackets(t)
BY DEF WholePackets

\* A packet on a stream is there with one of its chunks.
LEMMA WholeCarried ==
    ASSUME TypeOK, NEW s \in Streams, NEW p \in WholePackets(s)
    PROVE  Carries(s, p)
BY DEF WholePackets, Carries

\* A goroutine that wrote the body of its packet to the stream in its hand.
WroteBody(p) ==
    /\ pc[p] \in {"body", "body1"}
    /\ cur[p] \in Streams /\ state[cur[p]] \in {"open", "gone"}
    /\ Goto(p, IF pc[p] = "body" THEN "rearm" ELSE "sent")
    /\ UNCHANGED <<cur, state>>
    /\ \A t \in Streams : WholePackets(t)' =
           IF t = cur[p] THEN WholePackets(t) \cup {p} ELSE WholePackets(t)

\* Only those steps of a sender change what the streams carry.
LEMMA WholeSender ==
    ASSUME TypeOK, Ownership, NEW p \in Packets, Dispatch(p) \/ sendPacket(p)
    PROVE  \/ WroteBody(p)
           \/ pc'[p] # "rearm" /\ \A t \in Streams : WholePackets(t)' = WholePackets(t)
<1>0. pc \in [Packets -> SenderSteps]
  BY DEF TypeOK
<1>1. CASE UNCHANGED sent /\ pc'[p] # "rearm"
  BY <1>1, WholeSame, SMTT(30)
<1>2. CASE ~(UNCHANGED sent /\ pc'[p] # "rearm")
  <2>1. WriteLen(p) \/ WriteBody(p) \/ WriteLenNew(p) \/ WriteBodyNew(p) \/ AbandonNew(p)
    BY <1>0, <1>2, ZenonT(30)
       DEF sendPacket, Dispatch, getActiveStream, LockStream, Rearm, CloseFailed,
       expireActiveStream, NewStream, NewStreamFails, ArmNew, Goto, streamVars
  <2>2. cur[p] \in Streams
    BY <2>1, ZenonT(30)
       DEF Ownership, Sharing, Locked, Opening, WriteLen, WriteBody, WriteLenNew,
       WriteBodyNew, AbandonNew, At
  <2>3. \/ /\ UNCHANGED sent \/ Write(cur[p], p, "len") \/ Write(cur[p], p, "torn")
           /\ pc'[p] # "rearm"
        \/ /\ pc[p] \in {"body", "body1"} /\ WriteSucceeds(cur[p]) /\ Write(cur[p], p, "body")
           /\ Goto(p, IF pc[p] = "body" THEN "rearm" ELSE "sent") /\ UNCHANGED <<cur, state>>
    BY <1>0, <2>1, ZenonT(30)
       DEF WriteLen, WriteBody, WriteLenNew, WriteBodyNew, AbandonNew, At, Goto, TornWrite
  <2> QED BY <2>2, <2>3, WholeStep, WholeSame, ZenonT(30) DEF WroteBody, WriteSucceeds
<1> QED BY <1>1, <1>2

-----------------------------------------------------------------------------
(* Written is an invariant. *)

\* It holds when no packet was read.
LEMMA InitWritten == Init => Written
BY DEF Init, Written, WholePackets, Opening

\* Every step of a sender keeps it.
LEMMA WrittenSender ==
    ASSUME TypeOK, Ownership, Written, NEW p \in Packets, Dispatch(p) \/ sendPacket(p)
    PROVE  Written'
<1>0. /\ pc \in [Packets -> SenderSteps] /\ cur \in [Packets -> Streams \cup {NoStream}]
      /\ \A r \in Packets : pc[r] \in Opening \cup {"rearm", "body"} => cur[r] \in Streams
  BY SMTT(30) DEF TypeOK, Ownership, Sharing, Locked
<1>1. ASSUME NEW r \in Packets, r # p
      PROVE  /\ pc'[r] = pc[r] /\ cur'[r] = cur[r]
             /\ \A t \in Streams : r \in WholePackets(t)' <=> r \in WholePackets(t)
  <2>1. pc'[r] = pc[r] /\ cur'[r] = cur[r]
    BY <1>1, SenderFrame, Zenon
  <2>2. ASSUME NEW t \in Streams
        PROVE  r \in WholePackets(t)' <=> r \in WholePackets(t)
    <3>1. WholePackets(t)' = WholePackets(t) \/ WholePackets(t)' = WholePackets(t) \cup {p}
      BY WholeSender, Zenon DEF WroteBody
    <3> QED BY <1>1, <3>1, Zenon
  <2> QED BY <2>1, <2>2, Zenon
<1>2. CASE WroteBody(p)
  BY <1>0, <1>1, <1>2, SMTT(30) DEF WroteBody, Written, Goto, Opening
<1>3. CASE pc'[p] # "rearm" /\ \A t \in Streams : WholePackets(t)' = WholePackets(t)
  <2>1. /\ pc'[p] \in {"idle", "get", "lock", "len", "body"} =>
               pc[p] \in {"idle", "get", "lock", "len", "body"}
        /\ pc'[p] \in Opening /\ pc[p] \in Opening => cur'[p] = cur[p]
        /\ pc'[p] \in Opening /\ pc[p] \notin Opening =>
               cur'[p] \in Streams /\ state[cur'[p]] = "unopened"
    BY <1>0, ZenonT(30)
       DEF Opening, sendPacket, Dispatch, getActiveStream, LockStream, WriteLen,
       WriteBody, Rearm, CloseFailed, expireActiveStream, NewStream, NewStreamFails, ArmNew,
       WriteLenNew, WriteBodyNew, AbandonNew, At, Goto, Open
  <2>2. \A t \in Streams : state[t] = "unopened" => p \notin WholePackets(t)
    <3>1. \A t \in Streams : state[t] = "unopened" => sent[t] = << >>
      BY Zenon DEF Ownership
    <3>2. \A i : i \notin 1..Len(<< >>)
      OBVIOUS
    <3> QED BY <3>1, <3>2, Zenon DEF WholePackets
  <2>3. /\ pc'[p] \in {"idle", "get", "lock", "len", "body"} =>
               \A s \in Streams : p \notin WholePackets(s)'
        /\ pc'[p] \in Opening => p \notin WholePackets(cur[p])'
        /\ pc'[p] = "rearm" => p \in WholePackets(cur[p])'
    BY <1>0, <1>3, <2>1, <2>2, ZenonT(30) DEF Written
  <2> QED BY <1>0, <1>1, <1>3, <2>3, ZenonT(30) DEF Written
<1> QED BY <1>2, <1>3, WholeSender, ZenonT(30)

\* Every step of the packet plane keeps it.
LEMMA WrittenStep == IInv /\ Written /\ [Next]_vars => Written'
<1> SUFFICES ASSUME IInv, Written, [Next]_vars PROVE Written'
  OBVIOUS
<1>1. ASSUME NEW p \in Packets, Dispatch(p) \/ sendPacket(p) PROVE Written'
  BY <1>1, WrittenSender, SMTT(30) DEF IInv
<1>2. ASSUME UNCHANGED <<pc, cur, sent>> PROVE Written'
  BY <1>2, ZenonT(30) DEF Written, WholePackets
<1>3. ASSUME NEW s \in Streams,
             \/ streamHandler(s) \/ HandlerReads(s) \/ RemoteGoes(s) \/ DeadlinePasses(s)
             \/ \E q \in Peers \cup Strangers, v \in {"V0", "V1"} : RemoteOpens(s, q, v)
      PROVE  UNCHANGED <<pc, cur, sent>>
  BY <1>3, ZenonT(30)
     DEF streamHandler, HandlerRejects, insertActiveStream, HandlerStops, HandlerReturns,
     HandlerReads, RemoteGoes, DeadlinePasses, RemoteOpens, senderVars, streamVars
<1>4. CASE UNCHANGED vars
  BY <1>2, <1>4 DEF vars, senderVars, streamVars
<1> QED BY <1>1, <1>2, <1>3, <1>4 DEF Next

\* So it holds at all times.
LEMMA PInvariance == Spec => []PInv
<1>1. Init => PInv
  BY InitInv, InitWritten DEF PInv
<1>2. PInv /\ [Next]_vars => PInv'
  BY NextInv, WrittenStep DEF PInv
<1> QED BY <1>1, <1>2, PTL DEF Spec

-----------------------------------------------------------------------------
(* Steps of PacketPlane, in terms of StreamSharing. *)

SameFate == \A q \in Packets : Fate(q)' = Fate(q)
SameWhole == \A t \in Streams : WholePackets(t)' = WholePackets(t)
NewFate(p, to) == \A q \in Packets : Fate(q)' = IF q = p THEN to ELSE Fate(q)

\* Nothing that PacketPlane sees changes.
LEMMA Stutter == ASSUME SameFate, SameWhole, UNCHANGED state PROVE UNCHANGED Plane!vars
BY DEF SameFate, SameWhole, Plane!vars

\* The packet loop takes a packet.
LEMMA TakeStep ==
    ASSUME NEW p \in Packets, Fate(p) = "idle", NewFate(p, "taken"), SameWhole, UNCHANGED state
    PROVE  Plane!Next
<1>1. Plane!Take(p)
  BY ZenonT(30) DEF NewFate, SameWhole, Plane!Take
<1> QED BY <1>1 DEF Plane!Next

\* A stream is opened, by this node or by a peer.
LEMMA OpensStep ==
    ASSUME NEW s \in Streams, SameFate, SameWhole, state[s] = "unopened",
           state' = [state EXCEPT ![s] = "open"]
    PROVE  Plane!Next
<1>1. Plane!Opens(s)
  BY DEF SameFate, SameWhole, Plane!Opens
<1> QED BY <1>1 DEF Plane!Next

\* A stream is lost or closed; closing it again changes nothing.
LEMMA LeavesStep ==
    ASSUME TypeOK, NEW s \in Streams, SameFate, SameWhole, state[s] # "unopened",
           \/ state[s] = "open" /\ state' = [state EXCEPT ![s] = "gone"]
           \/ state' = [state EXCEPT ![s] = "closed"]
    PROVE  [Plane!Next]_(Plane!vars)
<1>0. state \in [Streams -> StreamStates]
  BY DEF TypeOK
<1>1. CASE state[s] = "closed"
  <2>1. UNCHANGED state
    BY <1>0, <1>1, ZenonT(30)
  <2> QED BY <2>1, Stutter
<1>2. CASE state[s] # "closed"
  <2>1. state[s] \in {"open", "gone"}
    BY <1>0, <1>2, ZenonT(30) DEF StreamStates
  <2>2. Plane!Leaves(s)
    BY <1>2, <2>1 DEF SameFate, SameWhole, Plane!Leaves
  <2> QED BY <2>2 DEF Plane!Next
<1> QED BY <1>1, <1>2, ZenonT(30)

\* A sender wrote the whole packet to the stream in its hand: the packet was not
\* on that stream, and every open stream it is on is that one.
LEMMA CarryStep ==
    ASSUME PInv, NEW p \in Packets, WroteBody(p)
    PROVE  Plane!Next
<1> DEFINE s == cur[p]
           to == IF pc[p] = "body" THEN "taken" ELSE "sent"
<1>0. s \in Streams /\ pc[p] \in {"body", "body1"}
  BY DEF WroteBody
<1>1. Fate(p) = "taken" /\ NewFate(p, to) /\ to \in {"taken", "sent"}
  BY <1>0, FateStep, ZenonT(30)
     DEF PInv, IInv, WroteBody, NewFate, Fate, FateAt, SenderSteps, Locked
<1>2. p \notin WholePackets(s)
  BY <1>0 DEF PInv, Written, Opening
<1>3. \A t \in Streams \ {s} : p \in WholePackets(t) => state[t] # "open"
  BY <1>0, WholeCarried, ZenonT(30) DEF PInv, IInv, Copies
<1>4. /\ state[s] \in {"open", "gone"} /\ UNCHANGED state
      /\ \A t \in Streams : WholePackets(t)' =
             IF t = s THEN WholePackets(t) \cup {p} ELSE WholePackets(t)
  BY DEF WroteBody
<1> HIDE DEF s, to
<1>5. Plane!Free(p, s)
  BY <1>3 DEF Plane!Free
<1>6. [t \in Streams |-> WholePackets(t)]' =
         [[t \in Streams |-> WholePackets(t)] EXCEPT ![s] = @ \cup {p}]
  BY <1>0, <1>4, ZenonT(30)
<1>7. [q \in Packets |-> Fate(q)]' = [[q \in Packets |-> Fate(q)] EXCEPT ![p] = to]
  BY <1>1, ZenonT(30) DEF NewFate
<1>8. Plane!Carry(p, s)
  BY <1>0, <1>1, <1>2, <1>4, <1>5, <1>6, <1>7, ZenonT(30) DEF Plane!Carry
<1> QED BY <1>0, <1>8, ZenonT(30) DEF Plane!Next

\* A sender moved the deadline after its packet.
LEMMA FinishStep ==
    ASSUME NEW p \in Packets, Fate(p) = "taken", NewFate(p, "sent"), SameWhole, UNCHANGED state,
           NEW s \in Streams, p \in WholePackets(s)
    PROVE  Plane!Next
<1>1. Plane!Finish(p)
  BY ZenonT(30) DEF NewFate, SameWhole, Plane!Finish
<1> QED BY <1>1 DEF Plane!Next

\* A sender gave its packet up, and closed the stream it had opened for it.
LEMMA DropStep ==
    ASSUME NEW p \in Packets, Fate(p) = "taken", NewFate(p, "lost"), SameWhole,
           \/ UNCHANGED state
           \/ \E s \in Streams :
                state[s] # "unopened" /\ state' = [state EXCEPT ![s] = "closed"],
           \A s \in Streams : p \in WholePackets(s) => state'[s] # "open"
    PROVE  Plane!Next
<1>1. Plane!Drop(p)
  BY ZenonT(30) DEF NewFate, SameWhole, Plane!Drop
<1> QED BY <1>1 DEF Plane!Next

-----------------------------------------------------------------------------
(* Every step of StreamSharing is one of these. *)

\* The steps of a sender.
LEMMA SenderPlane ==
    ASSUME PInv, NEW p \in Packets, Dispatch(p) \/ sendPacket(p)
    PROVE  [Plane!Next]_(Plane!vars)
<1>0. /\ TypeOK /\ Ownership /\ Copies /\ Written
      /\ pc \in [Packets -> SenderSteps] /\ state \in [Streams -> StreamStates]
  BY DEF PInv, IInv, TypeOK
<1>1. CASE WroteBody(p)
  BY <1>1, CarryStep, ZenonT(30)
<1>2. CASE pc'[p] # "rearm" /\ SameWhole
  <2> USE DEF At, SenderSteps, Locked, Opening
  <2>1. ASSUME NEW step \in SenderSteps \ {"idle", "sent", "lost"}, Goto(p, step), Fate(p) = "taken"
        PROVE  SameFate
    BY <1>0, <2>1, FateStep DEF SameFate, FateAt
  <2>2. pc[p] \notin {"idle", "sent", "lost"} => Fate(p) = "taken"
    BY DEF Fate
  <2>3. CASE Dispatch(p)
    <3>1. Fate(p) = "idle" /\ NewFate(p, "taken") /\ UNCHANGED state
      BY <1>0, <2>3, FateStep, SMTT(30) DEF Dispatch, Fate, NewFate, FateAt, streamVars
    <3> QED BY <1>2, <3>1, TakeStep, ZenonT(30)
  <2>4. CASE getActiveStream(p) \/ LockStream(p) \/ WriteLen(p) \/ WriteBody(p)
             \/ expireActiveStream(p) \/ ArmNew(p) \/ WriteLenNew(p)
    <3>1. /\ pc[p] \notin {"idle", "sent", "lost"} /\ UNCHANGED state
          /\ \E step \in SenderSteps \ {"idle", "sent", "lost"} : Goto(p, step)
      BY <2>4, ZenonT(30)
         DEF getActiveStream, LockStream, WriteLen, WriteBody, expireActiveStream, ArmNew,
         WriteLenNew, streamVars
    <3> QED BY <1>2, <2>1, <2>2, <3>1, Stutter, SMTT(30)
  <2>5. CASE Rearm(p)
    <3>1. pc[p] = "rearm" /\ UNCHANGED state /\ (Goto(p, "sent") \/ Goto(p, "close"))
      BY <2>5, ZenonT(30) DEF Rearm
    <3>2. cur[p] \in Streams /\ p \in WholePackets(cur[p]) /\ Fate(p) = "taken"
      BY <1>0, <2>2, <3>1, ZenonT(30) DEF Ownership, Sharing, Written
    <3>3. CASE Goto(p, "close")
      BY <1>2, <2>1, <3>1, <3>2, <3>3, Stutter, ZenonT(30)
    <3>4. CASE Goto(p, "sent")
      <4>1. NewFate(p, "sent")
        BY <1>0, <3>4, FateStep, SMTT(30) DEF NewFate, FateAt
      <4> QED BY <1>2, <3>1, <3>2, <4>1, FinishStep, ZenonT(30)
    <3> QED BY <3>1, <3>3, <3>4, SMTT(30)
  <2>6. CASE CloseFailed(p)
    <3>1. pc[p] = "close" /\ Goto(p, "expire") /\ state' = [state EXCEPT ![cur[p]] = "closed"]
      BY <2>6, ZenonT(30) DEF CloseFailed, Close
    <3>2. cur[p] \in Streams /\ state[cur[p]] # "unopened"
      BY <1>0, <3>1, ZenonT(30) DEF Ownership, Sharing
    <3>3. SameFate
      BY <2>1, <2>2, <3>1, ZenonT(30)
    <3> QED BY <1>0, <1>2, <3>1, <3>2, <3>3, LeavesStep, ZenonT(30)
  <2>7. ASSUME NEW s \in Streams, NEW v \in {"V0", "V1"}, NewStream(p, s, v)
        PROVE  Plane!Next
    <3>1. /\ pc[p] = "dial" /\ Goto(p, "arm") /\ state[s] = "unopened"
          /\ state' = [state EXCEPT ![s] = "open"]
      BY <2>7, ZenonT(30) DEF NewStream, Open
    <3>2. SameFate
      BY <2>1, <2>2, <3>1, ZenonT(30)
    <3> QED BY <1>2, <3>1, <3>2, OpensStep, ZenonT(30)
  <2>8. CASE NewStreamFails(p)
    <3>1. pc[p] = "dial" /\ Goto(p, "lost") /\ UNCHANGED state
      BY <2>8, ZenonT(30) DEF NewStreamFails, streamVars
    <3>2. NewFate(p, "lost") /\ Fate(p) = "taken"
      BY <1>0, <2>2, <3>1, FateStep, ZenonT(30) DEF NewFate, FateAt
    <3>3. \A s \in Streams : p \in WholePackets(s) => state'[s] # "open"
      BY <1>0, <3>1, WholeCarried, SMTT(30) DEF Copies
    <3> QED BY <1>2, <3>1, <3>2, <3>3, DropStep, ZenonT(30)
  <2>9. CASE AbandonNew(p)
    <3>1. pc[p] \in Opening /\ Goto(p, "lost") /\ state' = [state EXCEPT ![cur[p]] = "closed"]
      BY <2>9, ZenonT(30) DEF AbandonNew, Close
    <3>2. cur[p] \in Streams /\ state[cur[p]] # "unopened"
      BY <1>0, <3>1, ZenonT(30) DEF Ownership
    <3>3. NewFate(p, "lost") /\ Fate(p) = "taken"
      BY <1>0, <2>2, <3>1, FateStep, ZenonT(30) DEF NewFate, FateAt
    <3>4. \A s \in Streams : p \in WholePackets(s) => state'[s] # "open"
      BY <1>0, <3>1, <3>2, WholeCarried, SMTT(30) DEF Copies
    <3> QED BY <1>2, <3>1, <3>2, <3>3, <3>4, DropStep, ZenonT(30)
  <2>10. CASE WriteBodyNew(p)
    <3>1. cur[p] \in Streams /\ Write(cur[p], p, "body") /\ pc[p] = "body1"
      BY <1>0, <2>10, ZenonT(30) DEF WriteBodyNew, Ownership
    <3>2. p \notin WholePackets(cur[p])
      BY <1>0, <3>1 DEF Written
    <3>3. PICK t \in Streams : t = cur[p]
      BY <3>1, Zenon
    <3>4. WholePackets(t)' = WholePackets(t) \cup {p}
      BY <1>0, <3>1, <3>3, WholeStep, ZenonT(30)
    <3> QED BY <1>2, <3>2, <3>3, <3>4, Zenon DEF SameWhole
  <2> QED
    BY <2>3, <2>4, <2>5, <2>6, <2>7, <2>8, <2>9, <2>10, ZenonT(30) DEF sendPacket
<1> QED BY <1>0, <1>1, <1>2, WholeSender, ZenonT(30) DEF SameWhole

\* The steps of a stream's handler, and of the peer at its other end.
LEMMA HandlerPlane ==
    ASSUME PInv, NEW s \in Streams,
           \/ streamHandler(s) \/ HandlerReads(s) \/ RemoteGoes(s) \/ DeadlinePasses(s)
           \/ \E q \in Peers \cup Strangers, v \in {"V0", "V1"} : RemoteOpens(s, q, v)
    PROVE  [Plane!Next]_(Plane!vars)
<1>0. TypeOK /\ Ownership
  BY SMTT(30) DEF PInv, IInv
<1>1. UNCHANGED <<pc, sent>>
  BY ZenonT(30) DEF streamHandler, HandlerRejects, insertActiveStream, HandlerStops,
     HandlerReturns,
     HandlerReads, RemoteGoes, DeadlinePasses, RemoteOpens, senderVars, streamVars
<1>2. SameFate /\ SameWhole
  BY <1>1, ZenonT(30) DEF SameFate, SameWhole, Fate, WholePackets
<1>3. CASE \E q \in Peers \cup Strangers, v \in {"V0", "V1"} : RemoteOpens(s, q, v)
  <2>1. state[s] = "unopened" /\ state' = [state EXCEPT ![s] = "open"]
    BY <1>3 DEF RemoteOpens, Open
  <2> QED BY <1>2, <2>1, OpensStep, ZenonT(30)
<1>4. CASE RemoteGoes(s)
  BY <1>0, <1>2, <1>4, LeavesStep, ZenonT(30) DEF RemoteGoes
<1>5. CASE HandlerRejects(s) \/ HandlerStops(s)
  <2>1. state[s] # "unopened" /\ state' = [state EXCEPT ![s] = "closed"]
    BY <1>0, <1>5, ZenonT(30) DEF HandlerRejects, HandlerStops, Close, Ownership
  <2> QED BY <1>0, <1>2, <2>1, LeavesStep, ZenonT(30)
<1>6. CASE insertActiveStream(s) \/ HandlerReturns(s) \/ HandlerReads(s) \/ DeadlinePasses(s)
  <2>1. UNCHANGED state
    BY <1>6, ZenonT(30)
       DEF insertActiveStream, HandlerReturns, HandlerReads, DeadlinePasses, streamVars
  <2> QED BY <1>2, <2>1, Stutter, SMTT(30)
<1> QED BY <1>3, <1>4, <1>5, <1>6 DEF streamHandler

\* The initial state of the one is that of the other.
LEMMA InitPlane == Init => Plane!Init
BY DEF Init, Plane!Init, Fate, WholePackets

\* For any peers, packets and streams, what the goroutines of sendPacket and
\* streamHandler do to the packets is a behaviour of PacketPlane: sent only once
\* carried whole, carried again only after the earlier streams are lost, dropped
\* only when no open stream carries it.
THEOREM PlaneImplemented == Spec => ImplementsPacketPlane
<1>1. PInv /\ [Next]_vars => [Plane!Next]_(Plane!vars)
  <2> SUFFICES ASSUME PInv, [Next]_vars PROVE [Plane!Next]_(Plane!vars)
    OBVIOUS
  <2>1. ASSUME NEW p \in Packets, Dispatch(p) \/ sendPacket(p)
        PROVE  [Plane!Next]_(Plane!vars)
    BY <2>1, SenderPlane, ZenonT(30)
  <2>2. ASSUME NEW s \in Streams,
               \/ streamHandler(s) \/ HandlerReads(s) \/ RemoteGoes(s) \/ DeadlinePasses(s)
               \/ \E q \in Peers \cup Strangers, v \in {"V0", "V1"} : RemoteOpens(s, q, v)
        PROVE  [Plane!Next]_(Plane!vars)
    BY <2>2, HandlerPlane
  <2>3. CASE UNCHANGED vars
    <3>1. SameFate /\ SameWhole /\ UNCHANGED state
      BY <2>3 DEF vars, senderVars, streamVars, SameFate, SameWhole, Fate, WholePackets
    <3> QED BY <3>1, Stutter, ZenonT(30)
  <2> QED BY <2>1, <2>2, <2>3 DEF Next
<1> QED BY <1>1, InitPlane, PInvariance, PTL DEF Spec, ImplementsPacketPlane, Plane!Spec
=============================================================================
