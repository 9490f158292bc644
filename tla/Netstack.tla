------------------------------ MODULE Netstack ------------------------------
(***************************************************************************)
(* The user-space network stack of the service network, netstack/tun.go:   *)
(* a dial by name.  A lookup runs one goroutine (a lane) for each address  *)
(* family; it asks the servers in turn, over UDP and, when the answer is   *)
(* truncated, over TCP.  A lane that sends puts the packet in the queue of *)
(* the channel endpoint and then, in WriteNotify, takes a packet from it,  *)
(* its own or another's, and hands it to whoever reads the device, the     *)
(* pump of svc/network.go: the lane waits there, outside its deadline.     *)
(* The dial then tries the addresses that were found, sharing out the time *)
(* that is left.                                                           *)
(*                                                                         *)
(* The characters of a host name are reduced to their classes, an answer   *)
(* to the number of addresses of each family, and time passes in units     *)
(* inside the attempts.  The packets of the TCP leg are not followed.      *)
(***************************************************************************)
EXTENDS Integers, Sequences, FiniteSets, FiniteSetsExt, Functions

CONSTANTS
    Lanes,          \* the families that have an address here: hasV4, hasV6
    Others,         \* other goroutines that send: the connections of the services
    NServers,       \* len(dnsServers)
    QueueSize,      \* capacity of the endpoint's queue (1024 in the code)
    MaxRecords,     \* bound on the addresses of one family in an answer
    Hosts,          \* the hosts asked for, sequences of classes of characters
    MaxName,        \* 254
    MaxLabel,       \* 63
    Deadline,       \* the time a dial has, if it has a deadline
    SaneMinimum     \* the least time of an attempt

Families == {"A", "AAAA"}
Writers == Lanes \cup Others
Literal == <<"literal">>     \* a host that netip.ParseAddr understands
Classes == {"letter", "digit", "hyphen", "dot", "other"}

ASSUME NetstackAssumption ==
    /\ Lanes \subseteq Families /\ Others \cap Families = {} /\ IsFiniteSet(Others)
    /\ NServers \in Nat /\ MaxRecords \in Nat /\ Deadline \in Nat
    /\ Hosts \subseteq Seq(Classes)
    /\ {QueueSize, MaxName, MaxLabel, SaneMinimum} \subseteq Nat \ {0}

VARIABLES
    call,       \* where DialContext is
    host,       \* the host it was given, until it is looked at
    rooted,     \* the name ends with a dot
    lane,       \* the goroutines of LookupContextHost, and the other writers
    queue,      \* the packets in the endpoint
    hand,       \* per writer, the packet it holds in WriteNotify
    left,       \* the lanes whose latest request left through the device
    pump,       \* the goroutine that reads the device
    cancelled,  \* the context of the dial
    accept,     \* the families the network of the dial allows
    dial        \* the loop over the addresses

lookupVars == <<rooted, lane, queue, hand, left>>
vars == <<call, host, lookupVars, pump, cancelled, accept, dial>>

NoRecords == [f \in Families |-> 0]
NoPacket == [of |-> "nobody", try |-> 0]
Idle == [at |-> "idle", try |-> 0, udp |-> TRUE, found |-> NoRecords, err |-> FALSE]
NoDial == [timed |-> FALSE, began |-> 0, now |-> 0, addrs |-> 0, tried |-> 0]

Running == call \notin {"connected", "failed", "panic"}

Init ==
    /\ call = "start" /\ host \in Hosts \cup {Literal}
    /\ rooted = FALSE /\ cancelled = FALSE /\ accept = Families
    /\ lane = [w \in Writers |-> Idle]
    /\ queue = <<>> /\ hand = [w \in Writers |-> NoPacket] /\ left = {}
    /\ pump = "reading" /\ dial = NoDial

-----------------------------------------------------------------------------
(* Names. *)

\* The body of the loop of isDomainName, for the character c.
Scan(st, c) ==
    [ok   |-> /\ st.ok /\ c # "other"
              /\ c = "hyphen" => st.last # "dot"
              /\ c = "dot" => st.last \notin {"dot", "hyphen"} /\ st.partlen \in 1..MaxLabel,
     last |-> c,
     nonNumeric |-> st.nonNumeric \/ c \in {"letter", "hyphen"},
     partlen |-> IF c = "dot" THEN 0 ELSE st.partlen + 1]

\* What the loop has when it is through with s.
Scanned(s) ==
    LET scan[i \in 0..Len(s)] ==
          IF i = 0 THEN [ok |-> TRUE, last |-> "dot", nonNumeric |-> FALSE, partlen |-> 0]
          ELSE Scan(scan[i - 1], s[i])
    IN  scan[Len(s)]

\* Defect used to test the properties: the last label may have any length.
isDomainNameLong(s) ==
    /\ Len(s) \in 1..MaxName
    /\ Len(s) = MaxName => s[Len(s)] = "dot"
    /\ Scanned(s).ok /\ Scanned(s).last # "hyphen" /\ Scanned(s).nonNumeric

isDomainName(s) ==
    /\ Len(s) \in 1..MaxName
    /\ Len(s) = MaxName => s[Len(s)] = "dot"
    /\ Scanned(s).ok /\ Scanned(s).last # "hyphen"
    /\ Scanned(s).partlen <= MaxLabel /\ Scanned(s).nonNumeric

-----------------------------------------------------------------------------
(* The lanes of a lookup. *)

SetLane(f, r) == lane' = [lane EXCEPT ![f] = r]
Step(f, at) == SetLane(f, [lane[f] EXCEPT !.at = at])

\* tryOneName returns: what it found, or an error.
Return(f, found, err) == SetLane(f, [Idle EXCEPT !.at = "done", !.found = found, !.err = err])

\* Defect used to test the properties: the servers are asked without end.
NextTryForever(f) ==
    SetLane(f, [Idle EXCEPT !.at = "send", !.try = (lane[f].try % (2 * NServers)) + 1])

\* An exchange failed: the next server, twice round the list, then lastErr.
NextTry(f) ==
    IF lane[f].try < 2 * NServers
      THEN SetLane(f, [Idle EXCEPT !.at = "send", !.try = lane[f].try + 1])
      ELSE Return(f, NoRecords, TRUE)

\* DialContext does not know the network, or the port is not one.
Refuse ==
    /\ call = "start"
    /\ call' = "failed" /\ host' = <<>>
    /\ UNCHANGED <<lookupVars, pump, cancelled, accept, dial>>

\* The lookup for a literal, or the start of the lanes.  Without servers a lane
\* returns no error but an empty parser, which then cannot be read.
LookupContextHost ==
    /\ call = "start"
    /\ host' = <<>>
    /\ IF Lanes # {} /\ host = Literal
         THEN call' = "literal" /\ UNCHANGED <<rooted, lane>>
       ELSE IF Lanes = {} \/ ~isDomainName(host)
         THEN call' = "failed" /\ UNCHANGED <<rooted, lane>>
         ELSE /\ call' = "lookup" /\ rooted' = (host[Len(host)] = "dot")
              /\ lane' = [w \in Writers |->
                            IF w \in Others THEN lane[w]
                            ELSE IF NServers = 0 THEN [Idle EXCEPT !.at = "done", !.err = TRUE]
                            ELSE [Idle EXCEPT !.at = "send", !.try = 1]]
    /\ UNCHANGED <<queue, hand, left, pump, cancelled, accept, dial>>

\* checkHeader, skipToAnswer and the loop of LookupContextHost over the answers,
\* which may hold records of both families; one that cannot be read ends it.
Answered(f) ==
    \E found \in [Families -> 0..MaxRecords], whole \in BOOLEAN :
        /\ found[f] > 0 \/ ~whole
        /\ Return(f, found, ~whole)

\* What becomes of an exchange when a reply comes: an answer; no such name or no
\* record of the family; an answer cut short; one that is of no use.
Replied(f) ==
    \/ Answered(f)
    \/ Return(f, NoRecords, TRUE)
    \/ lane[f].udp /\ SetLane(f, [lane[f] EXCEPT !.at = "send", !.udp = FALSE])
    \/ NextTry(f)

\* Defect used to test the properties: only the first packet of a queue is notified.
SendUDPCoalesced(f) ==
    /\ lane[f].at = "send" /\ lane[f].udp
    /\ left' = left \ {f}
    /\ \/ NextTry(f) /\ UNCHANGED queue
       \/ /\ ~rooted /\ Len(queue) < QueueSize
          /\ queue' = Append(queue, [of |-> f, try |-> lane[f].try])
          /\ Step(f, IF queue = <<>> THEN "notify" ELSE "wait")
       \/ ~rooted /\ Len(queue) = QueueSize /\ Step(f, "wait") /\ UNCHANGED queue
    /\ UNCHANGED <<call, host, rooted, hand, pump, cancelled, accept, dial>>

\* The UDP leg of exchange: the request is made, or cannot be (host+"." has an
\* empty label when the name is rooted); the socket opens or not; the packet
\* goes to the queue, or is lost when the queue is full.
SendUDP(f) ==
    /\ lane[f].at = "send" /\ lane[f].udp
    /\ left' = left \ {f}
    /\ \/ NextTry(f) /\ UNCHANGED queue
       \/ /\ ~rooted /\ Len(queue) < QueueSize
          /\ queue' = Append(queue, [of |-> f, try |-> lane[f].try])
          /\ Step(f, "notify")
       \/ ~rooted /\ Len(queue) = QueueSize /\ Step(f, "wait") /\ UNCHANGED queue
    /\ UNCHANGED <<call, host, rooted, hand, pump, cancelled, accept, dial>>

\* Another goroutine of the stack sends a packet; TCP sends a lost one again.
SendOther(o) ==
    /\ lane[o].at = "idle" /\ Len(queue) < QueueSize
    /\ queue' = Append(queue, [of |-> o, try |-> 0])
    /\ Step(o, "notify")
    /\ UNCHANGED <<call, host, rooted, hand, left, pump, cancelled, accept, dial>>

\* Where a writer goes on when WriteNotify, and with it the write, returns.
AfterWrite(w) == IF w \in Lanes THEN "wait" ELSE "idle"

\* WriteNotify, up to its send on incomingPacket.
WriteNotify(w) ==
    /\ lane[w].at = "notify"
    /\ IF queue = <<>>
         THEN Step(w, AfterWrite(w)) /\ UNCHANGED <<queue, hand>>
         ELSE /\ hand' = [hand EXCEPT ![w] = Head(queue)]
              /\ queue' = Tail(queue)
              /\ Step(w, "hand")
    /\ UNCHANGED <<call, host, rooted, left, pump, cancelled, accept, dial>>

\* Read of the device: the pump meets a writer in WriteNotify.  The request of a
\* lane that has gone on to another exchange is of no use to it.
Read(w) ==
    /\ pump = "reading" /\ lane[w].at = "hand"
    /\ LET p == hand[w] IN
         left' = IF p.of \in Lanes /\ lane[p.of].try = p.try /\ lane[p.of].udp
                   THEN left \cup {p.of} ELSE left
    /\ hand' = [hand EXCEPT ![w] = NoPacket]
    /\ Step(w, AfterWrite(w))
    /\ pump' = "writing"
    /\ UNCHANGED <<call, host, rooted, queue, cancelled, accept, dial>>

\* The pump writes to the TUN device; an error is a panic.
PumpWrites ==
    /\ pump = "writing"
    /\ pump' = "reading"
    /\ call' \in {call, "panic"}
    /\ UNCHANGED <<host, lookupVars, cancelled, accept, dial>>

\* dnsPacketRoundTrip: the matching reply arrives.  Others are passed over.
ReceiveUDP(f) ==
    /\ lane[f].at = "wait" /\ f \in left
    /\ Replied(f)
    /\ UNCHANGED <<call, host, rooted, queue, hand, left, pump, cancelled, accept, dial>>

\* The deadline of the exchange passes.
Expire(f) ==
    /\ lane[f].at = "wait"
    /\ NextTry(f)
    /\ UNCHANGED <<call, host, rooted, queue, hand, left, pump, cancelled, accept, dial>>

\* The TCP leg, which ends at its deadline at the latest.
ExchangeTCP(f) ==
    /\ lane[f].at = "send" /\ ~lane[f].udp
    /\ Replied(f)
    /\ UNCHANGED <<call, host, rooted, queue, hand, left, pump, cancelled, accept, dial>>

Lane(f) == SendUDP(f) \/ ReceiveUDP(f) \/ Expire(f) \/ ExchangeTCP(f)

-----------------------------------------------------------------------------
(* The dial. *)

\* The numbers that h gives the families of s, together.
Total(h, s) == (IF "A" \in s THEN h["A"] ELSE 0) + (IF "AAAA" \in s THEN h["AAAA"] ELSE 0)

Found == [g \in Families |-> Total([f \in Lanes |-> lane[f].found[g]], Lanes)]

\* The end of the lookup, and what DialContext keeps of the addresses it gave;
\* the context has a deadline or not, and some of the time has passed.
Choose(found, lastErr) ==
    /\ accept' \in (SUBSET Families) \ {{}}
    /\ LET all == Total(found, Families)
           addrs == Total(found, accept')
       IN  IF (all = 0 /\ lastErr) \/ (addrs = 0 /\ all # 0)
             THEN call' = "failed" /\ UNCHANGED <<lane, dial>>
             ELSE /\ call' = "dial" /\ lane' = [w \in Writers |-> IF w \in Lanes THEN Idle ELSE lane[w]]
                  /\ \/ dial' = [NoDial EXCEPT !.addrs = addrs]
                     \/ \E t \in 0..Deadline :
                          dial' = [NoDial EXCEPT !.addrs = addrs, !.timed = TRUE,
                                                 !.began = t, !.now = t]
    /\ UNCHANGED <<host, rooted, queue, hand, left, pump, cancelled>>

\* Defect used to test the properties: the first lane that returns decides.
CollectFirst ==
    /\ call = "lookup"
    /\ \E f \in Lanes : lane[f].at = "done" /\ Choose(lane[f].found, lane[f].err)

\* The lookup has the results of all lanes.  An error counts when there is no address.
Collect ==
    /\ call = "lookup" /\ \A f \in Lanes : lane[f].at = "done"
    /\ Choose(Found, \E f \in Lanes : lane[f].err)

ChooseLiteral ==
    /\ call = "literal"
    /\ \E g \in Families : Choose([NoRecords EXCEPT ![g] = 1], FALSE)

\* Defect used to test the properties: an attempt may take all the time there is.
partialDeadlineWhole(now, n) == Deadline

\* The end of an attempt with n addresses to go: an equal share of the time that
\* remains, but no less than SaneMinimum while there is that much.
partialDeadline(now, n) ==
    now + Max({(Deadline - now) \div n, Min({Deadline - now, SaneMinimum})})

Expired == dial.timed /\ dial.now >= Deadline

\* The body of the loop of DialContext, or its end.
Attempt ==
    /\ call = "dial"
    /\ \/ /\ cancelled \/ Expired \/ dial.tried = dial.addrs
          /\ call' = "failed" /\ UNCHANGED dial
       \/ /\ ~cancelled /\ ~Expired /\ dial.tried < dial.addrs
          /\ \E t \in IF dial.timed
                        THEN dial.now .. partialDeadline(dial.now, dial.addrs - dial.tried)
                        ELSE {dial.now} :
               dial' = [dial EXCEPT !.now = t, !.tried = @ + 1]
          /\ call' \in {"dial", "connected"}
    /\ UNCHANGED <<host, lookupVars, pump, cancelled, accept>>

\* The context is cancelled; during the lookup that is seen only by the TCP leg.
Cancel ==
    /\ call = "dial" /\ ~cancelled
    /\ cancelled' = TRUE
    /\ UNCHANGED <<call, host, lookupVars, pump, accept, dial>>

Next ==
    /\ Running
    /\ \/ Refuse \/ LookupContextHost \/ Collect \/ ChooseLiteral \/ Attempt \/ Cancel \/ PumpWrites
       \/ \E f \in Lanes : Lane(f)
       \/ \E w \in Writers : WriteNotify(w) \/ Read(w)
       \/ \E o \in Others : SendOther(o)

\* The goroutines run, and the deadline of an exchange passes.  The senders that
\* wait on a channel are served in turn, so that no writer waits for ever while
\* others are served.
Spec ==
    /\ Init /\ [][Next]_vars
    /\ \A f \in Lanes : WF_vars(Running /\ Lane(f))
    /\ \A w \in Writers : WF_vars(Running /\ WriteNotify(w)) /\ SF_vars(Running /\ Read(w))
    /\ WF_vars(Running /\ PumpWrites) /\ WF_vars(Collect) /\ WF_vars(Attempt)

-----------------------------------------------------------------------------
(* Properties. *)

\* A name is accepted exactly when it is one: labels of letters, digits and
\* inner hyphens, of at most MaxLabel characters each, with single dots between
\* them and perhaps one at the end, which does not count for the length, and
\* with something in it that is not a digit.
NamesAccepted ==
    call = "start" /\ host # Literal =>
        (isDomainName(host) <=>
            /\ host # <<>> /\ "other" \notin Range(host)
            /\ Len(host) - (IF host[Len(host)] = "dot" THEN 1 ELSE 0) < MaxName
            /\ {"letter", "hyphen"} \cap Range(host) # {}
            /\ Head(host) \notin {"dot", "hyphen"} /\ host[Len(host)] # "hyphen"
            /\ \A i \in 1..(Len(host) - 1) :
                 "dot" \in {host[i], host[i + 1]} =>
                    {host[i], host[i + 1]} \cap {"letter", "digit"} # {}
            /\ \A i \in 1..(Len(host) - MaxLabel) : \E j \in i..(i + MaxLabel) : host[j] = "dot")

\* No packet stays behind in the endpoint: although a writer takes
\* whichever packet is first, and one that finds the queue full takes none, each
\* packet in the queue has a writer that has yet to take one.
NoPacketStranded == Len(queue) <= Cardinality({w \in Writers : lane[w].at = "notify"})

\* A lookup that ends without an error gave the dial an address to try, and an
\* error of one lane never hides an address, of a family the dial accepts, that
\* the other lane found.
LookupDecides ==
    /\ call = "dial" => dial.addrs > 0
    /\ call = "failed" /\ dial.addrs = 0 => \A g \in accept : Found[g] = 0

\* A lookup ends, though its lanes wait without a deadline for the pump, hand on
\* the packets of others and start again after every failure.
LookupReturns == call = "lookup" ~> call # "lookup"

\* A dial that fails, and was not cancelled, tried every address, or as many as
\* attempts of SaneMinimum fit into the time it had: no slow address takes the
\* share of the ones behind it.
EveryAddressTried ==
    call = "failed" /\ dial.addrs > 0 /\ ~cancelled =>
        IF dial.timed
          THEN \/ dial.tried = dial.addrs
               \/ dial.tried * SaneMinimum >= Deadline - dial.began
          ELSE dial.tried = dial.addrs
=============================================================================
