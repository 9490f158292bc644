-------------------------- MODULE NetstackProofs --------------------------
(***************************************************************************)
(* What holds of Netstack for every number of servers, size of the queue,  *)
(* set of other senders, deadline and number of addresses: no packet stays *)
(* behind in the endpoint, a lookup never hides an address it has, no      *)
(* address takes the time of the ones behind it, and a host name, of any   *)
(* length, is taken for one exactly when it is one.                        *)
(***************************************************************************)
EXTENDS Netstack, FiniteSetTheorems, SequenceTheorems, TLAPS

Places == {"idle", "send", "notify", "hand", "wait", "done"}
LaneStates == [at : Places, try : Nat, udp : BOOLEAN, found : [Families -> Nat], err : BOOLEAN]
Packets == [of : Writers \cup {"nobody"}, try : Nat]
Dials == [timed : BOOLEAN, began : Nat, now : Nat, addrs : Nat, tried : Nat]

Typed ==
    /\ lane \in [Writers -> LaneStates]
    /\ queue \in Seq(Packets) /\ hand \in [Writers -> Packets]
    /\ dial \in Dials /\ accept \in SUBSET Families

\* A lane that returned has an error or an address of its family, and no other
\* lane has an address.
Returned ==
    \A w \in Writers :
        /\ lane[w].at # "done" => lane[w].found = NoRecords
        /\ lane[w].at = "done" => w \in Lanes /\ (lane[w].err \/ lane[w].found[w] > 0)

\* The lanes run only during a lookup, and a dial has addresses only after it.
Phases ==
    /\ call \in {"start", "literal"} => \A f \in Lanes : lane[f].at = "idle"
    /\ call = "lookup" => Lanes # {}
    /\ call \in {"start", "literal", "lookup"} => dial = NoDial

Notifying == {w \in Writers : lane[w].at = "notify"}

\* The time that remains is enough for SaneMinimum for each address to go, or
\* no address took more than SaneMinimum.
Share ==
    dial.timed =>
        /\ dial.began <= dial.now /\ dial.now <= Deadline /\ dial.tried <= dial.addrs
        /\ \/ (dial.addrs - dial.tried) * SaneMinimum <= Deadline - dial.now
           \/ dial.now - dial.began <= dial.tried * SaneMinimum

IInv ==
    /\ Typed /\ Returned /\ Phases /\ Share
    /\ NoPacketStranded /\ LookupDecides /\ EveryAddressTried

-----------------------------------------------------------------------------
(* The share of an attempt. *)

LEMMA MaxOfTwo ==
  ASSUME NEW a \in Int, NEW b \in Int
  PROVE  Max({a, b}) = IF a >= b THEN a ELSE b
BY DEF Max

LEMMA MinOfTwo ==
  ASSUME NEW a \in Int, NEW b \in Int
  PROVE  Min({a, b}) = IF a <= b THEN a ELSE b
BY DEF Min

\* Where there is SaneMinimum for each address, an equal share leaves as much.
LEMMA AmpleShare ==
  ASSUME NEW n \in Nat \ {0}, NEW rem \in Nat, NEW s \in Nat \ {0}, n * s <= rem
  PROVE  /\ rem \div n \in Nat /\ rem \div n <= rem
         /\ s <= rem \div n
         /\ (n - 1) * s <= rem - (rem \div n)
<1> DEFINE q == rem \div n
<1>1. q \in Nat /\ n * q <= rem /\ rem < n * q + n
  OBVIOUS
<1> HIDE DEF q
<1>2. s <= q /\ q <= rem
  BY <1>1
<1>3. (n - 1) * s <= rem - q
  BY <1>1, <1>2
<1> QED BY <1>1, <1>2, <1>3 DEF q

\* Where there is not, an equal share is no more than SaneMinimum.
LEMMA ScarceShare ==
  ASSUME NEW n \in Nat \ {0}, NEW rem \in Nat, NEW s \in Nat \ {0}, n * s > rem
  PROVE  rem \div n \in Nat /\ rem \div n <= rem /\ rem \div n <= s
<1> DEFINE q == rem \div n
<1>1. q \in Nat /\ n * q <= rem /\ rem < n * q + n
  OBVIOUS
<1> HIDE DEF q
<1>2. q <= rem
  BY <1>1
<1>3. q <= s
  BY <1>1
<1> QED BY <1>1, <1>2, <1>3 DEF q

\* The end of an attempt is within the deadline.  With time for all, it leaves
\* SaneMinimum for each address behind; without, it is SaneMinimum away at most.
LEMMA ShareOfAttempt ==
  ASSUME NEW now \in Nat, now <= Deadline, NEW n \in Nat \ {0}
  PROVE  /\ partialDeadline(now, n) \in Nat /\ partialDeadline(now, n) <= Deadline
         /\ \/ /\ n * SaneMinimum <= Deadline - now
               /\ (n - 1) * SaneMinimum <= Deadline - partialDeadline(now, n)
            \/ /\ n * SaneMinimum > Deadline - now
               /\ partialDeadline(now, n) <= now + SaneMinimum
<1> PICK rem \in Nat : rem = Deadline - now
  BY NetstackAssumption
<1> PICK s \in Nat \ {0} : s = SaneMinimum
  BY NetstackAssumption
<1> PICK m \in Nat : m = IF rem <= s THEN rem ELSE s
  OBVIOUS
<1>1. Min({rem, s}) = m
  BY MinOfTwo
<1>2. CASE n * s <= rem
  <2> PICK q \in Nat : q = rem \div n /\ q <= rem /\ s <= q /\ (n - 1) * s <= rem - q
    BY <1>2, AmpleShare, ZenonT(30)
  <2>1. Max({q, m}) = q
    BY MaxOfTwo
  <2>2. partialDeadline(now, n) = now + q
    BY <1>1, <2>1, ZenonT(30) DEF partialDeadline
  <2>3. Deadline = now + rem /\ Deadline - (now + q) = rem - q
    BY NetstackAssumption
  <2> QED BY <1>2, <2>2, <2>3
<1>3. CASE n * s > rem
  <2> PICK q \in Nat : q = rem \div n /\ q <= rem /\ q <= s
    BY <1>3, ScarceShare
  <2>1. Max({q, m}) = m
    BY MaxOfTwo
  <2>2. partialDeadline(now, n) = now + m
    BY <1>1, <2>1, ZenonT(30) DEF partialDeadline
  <2>3. Deadline = now + rem
    BY NetstackAssumption
  <2> QED BY <1>3, <2>2, <2>3
<1>4. n * s \in Nat
  OBVIOUS
<1> QED BY <1>2, <1>3, <1>4

-----------------------------------------------------------------------------
(* The writers. *)

\* The state r is one that w may have.
Good(w, r) ==
    /\ r \in LaneStates
    /\ r.at # "done" => r.found = NoRecords
    /\ r.at = "done" => w \in Lanes /\ (r.err \/ r.found[w] > 0)

LEMMA WritersFinite == IsFiniteSet(Writers)
<1>1. IsFiniteSet({"A", "AAAA"})
  <2>1. IsFiniteSet({"A"} \cup {"AAAA"})
    BY FS_Singleton, FS_AddElement, Zenon
  <2>2. {"A"} \cup {"AAAA"} = {"A", "AAAA"}
    OBVIOUS
  <2> QED BY <2>1, <2>2
<1>2. IsFiniteSet(Lanes)
  BY <1>1, FS_Subset, NetstackAssumption, ZenonT(30) DEF Families
<1> QED BY <1>2, FS_Union, NetstackAssumption, ZenonT(30) DEF Writers

LEMMA NotifyingFinite == IsFiniteSet(Notifying) /\ Cardinality(Notifying) \in Nat
BY WritersFinite, FS_Subset, FS_CardinalityType DEF Notifying

\* A writer moves, and the dial does not: only the queue can be in question.
LEMMA LaneMove ==
  ASSUME IInv, Running, NEW w \in Writers, NEW r, Good(w, r), SetLane(w, r),
         w \in Lanes => lane[w].at # "idle",
         UNCHANGED <<call, dial, accept, cancelled>>
  PROVE  /\ lane' \in [Writers -> LaneStates] /\ lane'[w] = r
         /\ \A v \in Writers \ {w} : lane'[v] = lane[v]
         /\ Returned' /\ Phases' /\ Share' /\ LookupDecides' /\ EveryAddressTried'
<1>1. /\ lane' \in [Writers -> LaneStates] /\ lane'[w] = r
      /\ \A v \in Writers \ {w} : lane'[v] = lane[v]
  BY DEF IInv, Typed, SetLane, Good
<1>2. Returned'
  BY <1>1 DEF IInv, Returned, Good
<1>3. call \notin {"start", "literal"} \/ w \notin Lanes
  BY DEF IInv, Phases
<1>4. Phases'
  BY <1>1, <1>3 DEF IInv, Phases, Writers
<1>5. Share'
  BY DEF IInv, Share
<1>6. LookupDecides' /\ EveryAddressTried'
  BY DEF IInv, LookupDecides, EveryAddressTried, Running
<1> QED BY <1>1, <1>2, <1>4, <1>5, <1>6

\* A writer that neither was nor is about to take a packet leaves the queue alone.
LEMMA QuietMove ==
  ASSUME IInv, Running, NEW w \in Writers, NEW r, Good(w, r), SetLane(w, r),
         w \in Lanes => lane[w].at # "idle",
         lane[w].at # "notify", r.at # "notify",
         hand' \in [Writers -> Packets],
         UNCHANGED <<call, dial, accept, cancelled, queue>>
  PROVE  IInv'
<1>1. /\ lane' \in [Writers -> LaneStates] /\ lane'[w] = r
      /\ \A v \in Writers \ {w} : lane'[v] = lane[v]
      /\ Returned' /\ Phases' /\ Share' /\ LookupDecides' /\ EveryAddressTried'
  BY LaneMove
<1>2. Typed'
  BY <1>1 DEF IInv, Typed
<1>3. Notifying' = Notifying
  BY <1>1 DEF Notifying
<1>4. NoPacketStranded'
  BY <1>3, ZenonT(30) DEF IInv, NoPacketStranded, Notifying
<1> QED BY <1>1, <1>2, <1>4 DEF IInv

LEMMA SendState ==
  ASSUME NEW k \in Nat
  PROVE  LET r == [Idle EXCEPT !.at = "send", !.try = k]
         IN  r \in LaneStates /\ r.at = "send" /\ r.found = NoRecords
BY ZenonT(30) DEF Idle, LaneStates, Places, NoRecords

\* NextTry and Return leave a lane in a state it may have.
LEMMA TryMove ==
  ASSUME Typed, NEW f \in Lanes, NextTry(f)
  PROVE  \E r : Good(f, r) /\ SetLane(f, r) /\ r.at # "notify"
<1>1. lane[f].try \in Nat
  BY DEF Typed, LaneStates, Writers
<1>2. CASE lane[f].try < 2 * NServers
  <2> PICK k \in Nat : k = lane[f].try + 1
    BY <1>1
  <2> DEFINE r == [Idle EXCEPT !.at = "send", !.try = k]
  <2>1. SetLane(f, r)
    BY <1>2 DEF NextTry
  <2>2. r \in LaneStates /\ r.at = "send" /\ r.found = NoRecords
    BY SendState, ZenonT(30)
  <2> QED BY <2>1, <2>2, ZenonT(30) DEF Good
<1>3. CASE ~(lane[f].try < 2 * NServers)
  <2> DEFINE r == [Idle EXCEPT !.at = "done", !.found = NoRecords, !.err = TRUE]
  <2>1. SetLane(f, r)
    BY <1>3 DEF NextTry, Return
  <2>2. r \in LaneStates /\ r.at = "done" /\ r.err
    BY ZenonT(30) DEF Idle, LaneStates, Places, NoRecords
  <2> QED BY <2>1, <2>2, ZenonT(30) DEF Good
<1> QED BY <1>2, <1>3

LEMMA ReplyMove ==
  ASSUME Typed, NEW f \in Lanes, Replied(f), lane[f].at # "done",
         lane[f].found = NoRecords
  PROVE  \E r : Good(f, r) /\ SetLane(f, r) /\ r.at # "notify"
<1>1. CASE Answered(f)
  <2> PICK found \in [Families -> 0..MaxRecords], whole \in BOOLEAN :
        (found[f] > 0 \/ ~whole) /\ Return(f, found, ~whole)
    BY <1>1 DEF Answered
  <2> DEFINE r == [Idle EXCEPT !.at = "done", !.found = found, !.err = ~whole]
  <2>1. SetLane(f, r)
    BY DEF Return
  <2>2. found \in [Families -> Nat]
    BY NetstackAssumption
  <2>3. r \in LaneStates /\ r.at = "done" /\ r.found = found /\ r.err = ~whole
    BY <2>2, ZenonT(30) DEF Idle, LaneStates, Places, NoRecords
  <2> QED BY <2>1, <2>3, ZenonT(30) DEF Good
<1>2. CASE Return(f, NoRecords, TRUE)
  <2> DEFINE r == [Idle EXCEPT !.at = "done", !.found = NoRecords, !.err = TRUE]
  <2>1. SetLane(f, r)
    BY <1>2 DEF Return
  <2>2. r \in LaneStates /\ r.at = "done" /\ r.err
    BY ZenonT(30) DEF Idle, LaneStates, Places, NoRecords
  <2> QED BY <2>1, <2>2, ZenonT(30) DEF Good
<1>3. CASE lane[f].udp /\ SetLane(f, [lane[f] EXCEPT !.at = "send", !.udp = FALSE])
  <2> DEFINE r == [lane[f] EXCEPT !.at = "send", !.udp = FALSE]
  <2>1. r \in LaneStates /\ r.at = "send" /\ r.found = NoRecords
    BY ZenonT(30) DEF Typed, LaneStates, Places, Writers
  <2> QED BY <1>3, <2>1, ZenonT(30) DEF Good
<1>4. CASE NextTry(f)
  BY <1>4, TryMove
<1> QED BY <1>1, <1>2, <1>3, <1>4, ZenonT(30) DEF Replied

\* A step to a place other than the end keeps what else the writer has.
LEMMA StepMove ==
  ASSUME Typed, Returned, NEW w \in Writers, lane[w].at # "done",
         NEW p \in Places \ {"done"}, Step(w, p)
  PROVE  \E r : Good(w, r) /\ SetLane(w, r) /\ r.at = p
<1> DEFINE r == [lane[w] EXCEPT !.at = p]
<1>1. r \in LaneStates /\ r.at = p /\ r.found = lane[w].found
  BY ZenonT(30) DEF Typed, LaneStates
<1>2. lane[w].found = NoRecords
  BY DEF Returned
<1> QED BY <1>1, <1>2, ZenonT(30) DEF Good, Step

\* A packet comes with the writer that will take one.
LEMMA SendMove ==
  ASSUME IInv, Running, NEW w \in Writers, NEW p \in Packets,
         lane[w].at \in {"idle", "send"}, w \in Lanes => lane[w].at # "idle",
         queue' = Append(queue, p), Step(w, "notify"),
         UNCHANGED <<call, dial, accept, cancelled, hand>>
  PROVE  IInv'
<1>1. PICK r : Good(w, r) /\ SetLane(w, r) /\ r.at = "notify"
  BY StepMove DEF IInv, Places
<1>2. /\ lane' \in [Writers -> LaneStates] /\ lane'[w] = r
      /\ \A v \in Writers \ {w} : lane'[v] = lane[v]
      /\ Returned' /\ Phases' /\ Share' /\ LookupDecides' /\ EveryAddressTried'
  BY <1>1, LaneMove
<1>3. Typed' /\ Len(queue') = Len(queue) + 1 /\ Len(queue) \in Nat
  BY <1>2 DEF IInv, Typed
<1>4. Notifying' = Notifying \cup {w} /\ w \notin Notifying
  BY <1>1, <1>2 DEF Notifying
<1>5. Cardinality(Notifying') = Cardinality(Notifying) + 1
  BY <1>4, NotifyingFinite, FS_AddElement, ZenonT(30)
<1>6. NoPacketStranded'
  BY <1>3, <1>5, NotifyingFinite DEF IInv, NoPacketStranded, Notifying
<1> QED BY <1>2, <1>3, <1>6 DEF IInv

LEMMA LaneStep ==
  ASSUME IInv, Running, NEW f \in Lanes, Lane(f)
  PROVE  IInv'
<1> f \in Writers
  BY DEF Writers
<1>0. /\ Typed /\ Returned /\ hand \in [Writers -> Packets]
      /\ lane[f].at # "done" => lane[f].found = NoRecords
      /\ lane[f].try \in Nat
  BY DEF IInv, Typed, Returned, LaneStates
<1>1. CASE SendUDP(f)
  <2>1. lane[f].at = "send" /\ UNCHANGED <<call, dial, accept, cancelled, hand>>
    BY <1>1 DEF SendUDP
  <2>2. CASE NextTry(f) /\ UNCHANGED queue
    BY <1>0, <2>1, <2>2, TryMove, QuietMove
  <2>3. CASE queue' = Append(queue, [of |-> f, try |-> lane[f].try]) /\ Step(f, "notify")
    <3>1. [of |-> f, try |-> lane[f].try] \in Packets
      BY <1>0 DEF Packets
    <3> QED BY <2>1, <2>3, <3>1, SendMove
  <2>4. CASE Step(f, "wait") /\ UNCHANGED queue
    <3>1. PICK r : Good(f, r) /\ SetLane(f, r) /\ r.at = "wait"
      BY <1>0, <2>1, <2>4, StepMove DEF Places
    <3> QED BY <1>0, <2>1, <2>4, <3>1, QuietMove
  <2> QED BY <1>1, <2>2, <2>3, <2>4 DEF SendUDP
<1>2. CASE ReceiveUDP(f) \/ ExchangeTCP(f)
  <2>1. /\ lane[f].at \in {"wait", "send"} /\ Replied(f)
        /\ UNCHANGED <<call, dial, accept, cancelled, hand, queue>>
    BY <1>2 DEF ReceiveUDP, ExchangeTCP
  <2>2. PICK r : Good(f, r) /\ SetLane(f, r) /\ r.at # "notify"
    BY <1>0, <2>1, ReplyMove
  <2> QED BY <1>0, <2>1, <2>2, QuietMove
<1>3. CASE Expire(f)
  <2>1. /\ lane[f].at = "wait" /\ NextTry(f)
        /\ UNCHANGED <<call, dial, accept, cancelled, hand, queue>>
    BY <1>3 DEF Expire
  <2>2. PICK r : Good(f, r) /\ SetLane(f, r) /\ r.at # "notify"
    BY <1>0, <2>1, TryMove
  <2> QED BY <1>0, <2>1, <2>2, QuietMove
<1> QED BY <1>1, <1>2, <1>3 DEF Lane

LEMMA OtherStep ==
  ASSUME IInv, Running, NEW o \in Others, SendOther(o)
  PROVE  IInv'
<1>1. o \in Writers /\ o \notin Lanes
  BY NetstackAssumption DEF Writers
<1>2. [of |-> o, try |-> 0] \in Packets
  BY <1>1 DEF Packets
<1> QED BY <1>1, <1>2, SendMove DEF SendOther

LEMMA NotifyStep ==
  ASSUME IInv, Running, NEW w \in Writers, WriteNotify(w)
  PROVE  IInv'
<1>1. lane[w].at = "notify" /\ UNCHANGED <<call, dial, accept, cancelled>>
  BY DEF WriteNotify
<1>2. AfterWrite(w) \in {"wait", "idle"}
  BY DEF AfterWrite
<1>3. \E p \in {"wait", "idle", "hand"} : Step(w, p)
  BY <1>2 DEF WriteNotify
<1>4. PICK p \in {"wait", "idle", "hand"}, r \in LaneStates : Good(w, r) /\ SetLane(w, r) /\ r.at = p
  BY <1>1, <1>3, StepMove DEF IInv, Places, Good
<1>5. /\ lane' \in [Writers -> LaneStates] /\ lane'[w] = r
      /\ \A v \in Writers \ {w} : lane'[v] = lane[v]
      /\ Returned' /\ Phases' /\ Share' /\ LookupDecides' /\ EveryAddressTried'
  BY <1>1, <1>4, LaneMove
<1>6. /\ queue' \in Seq(Packets) /\ hand' \in [Writers -> Packets]
      /\ Len(queue') = 0 \/ Len(queue') = Len(queue) - 1
      /\ Len(queue') \in Nat /\ Len(queue) \in Nat
  <2>1. queue \in Seq(Packets) /\ hand \in [Writers -> Packets]
    BY DEF IInv, Typed
  <2>2. CASE queue = <<>>
    BY <2>1, <2>2 DEF WriteNotify
  <2>3. CASE queue # <<>>
    <3>1. Head(queue) \in Packets /\ Tail(queue) \in Seq(Packets) /\ Len(Tail(queue)) = Len(queue) - 1
      BY <2>1, <2>3
    <3>2. queue' = Tail(queue) /\ hand' = [hand EXCEPT ![w] = Head(queue)]
      BY <2>3 DEF WriteNotify
    <3>3. hand' \in [Writers -> Packets]
      BY <2>1, <3>1, <3>2
    <3>4. Len(Tail(queue)) \in Nat /\ Len(queue) \in Nat
      BY <2>1, <3>1
    <3> QED BY <3>1, <3>2, <3>3, <3>4
  <2> QED BY <2>2, <2>3
<1>7. Typed'
  BY <1>1, <1>5, <1>6, SMTT(30) DEF IInv, Typed
<1>8. Notifying' = Notifying \ {w} /\ w \in Notifying
  BY <1>1, <1>4, <1>5 DEF Notifying
<1>9. Cardinality(Notifying') = Cardinality(Notifying) - 1 /\ Cardinality(Notifying') \in Nat
  BY <1>8, NotifyingFinite, FS_RemoveElement, FS_CardinalityType
<1>10. NoPacketStranded'
  BY <1>6, <1>9, NotifyingFinite DEF IInv, NoPacketStranded, Notifying
<1> QED BY <1>5, <1>7, <1>10 DEF IInv

LEMMA ReadStep ==
  ASSUME IInv, Running, NEW w \in Writers, Read(w)
  PROVE  IInv'
<1>1. lane[w].at = "hand" /\ UNCHANGED <<call, dial, accept, cancelled, queue>>
  BY DEF Read
<1>2. AfterWrite(w) \in {"wait", "idle"} /\ Step(w, AfterWrite(w))
  BY DEF AfterWrite, Read
<1>3. PICK r : Good(w, r) /\ SetLane(w, r) /\ r.at = AfterWrite(w)
  BY <1>1, <1>2, StepMove DEF IInv, Places
<1>4. hand' \in [Writers -> Packets]
  BY DEF Read, IInv, Typed, NoPacket, Packets
<1> QED BY <1>1, <1>2, <1>3, <1>4, QuietMove, SMTT(30)

-----------------------------------------------------------------------------
(* The dial. *)

LEMMA TotalZero ==
  ASSUME NEW s \in SUBSET Families, NEW t \in SUBSET s, NEW h \in [s -> Nat]
  PROVE  Total(h, t) \in Nat /\ (Total(h, t) = 0 <=> \A f \in t : h[f] = 0)
BY DEF Total, Families

LEMMA FoundType ==
  ASSUME Typed
  PROVE  /\ Found \in [Families -> Nat]
         /\ \A g \in Families : Found[g] = 0 <=> \A f \in Lanes : lane[f].found[g] = 0
<1> SUFFICES ASSUME NEW g \in Families
             PROVE  LET h == [f \in Lanes |-> lane[f].found[g]]
                    IN  Total(h, Lanes) \in Nat /\ (Total(h, Lanes) = 0 <=> \A f \in Lanes : lane[f].found[g] = 0)
  BY DEF Found
<1> DEFINE h == [f \in Lanes |-> lane[f].found[g]]
<1>1. h \in [Lanes -> Nat]
  BY DEF Typed, LaneStates, Writers
<1> QED BY <1>1, TotalZero, NetstackAssumption, SMTT(30)

LEMMA IdleState == Idle \in LaneStates /\ Idle.at = "idle" /\ Idle.found = NoRecords
BY DEF Idle, NoRecords, LaneStates, Places

\* The end of a lookup that has an error where it has no address.
LEMMA ChooseStep ==
  ASSUME IInv, NEW found \in [Families -> Nat], NEW lastErr \in BOOLEAN,
         Choose(found, lastErr),
         \A f \in Lanes : lane[f].at # "notify",
         dial = NoDial,
         Total(found, Families) = 0 => lastErr,
         \A g \in Families : found[g] = 0 => Found[g] = 0
  PROVE  IInv'
<1> DEFINE addrs == Total(found, accept')
           all == Total(found, Families)
<1>0. /\ Typed /\ Returned /\ Share /\ NoPacketStranded
      /\ UNCHANGED <<queue, hand, cancelled>> /\ accept' \in SUBSET Families
  BY ZenonT(30) DEF IInv, Choose
<1>1. /\ addrs \in Nat /\ (addrs = 0 <=> \A g \in accept' : found[g] = 0)
      /\ all \in Nat /\ (all = 0 <=> \A g \in Families : found[g] = 0)
      /\ all = 0 => lastErr
  BY <1>0, TotalZero
<1> HIDE DEF addrs, all
<1>2. CASE (all = 0 /\ lastErr) \/ (addrs = 0 /\ all # 0)
  <2>1. call' = "failed" /\ UNCHANGED <<lane, dial>>
    BY <1>2, ZenonT(30) DEF Choose, addrs, all
  <2>2. Typed' /\ Returned' /\ Phases' /\ Share' /\ NoPacketStranded'
    BY <1>0, <2>1, SMTT(30) DEF Typed, Returned, Phases, Share, NoPacketStranded
  <2>3. dial'.addrs = 0
    BY <2>1 DEF NoDial
  <2>4. Found' = Found
    BY <2>1 DEF Found
  <2>5. \A g \in accept' : Found[g] = 0
    BY <1>0, <1>1, <1>2
  <2>6. LookupDecides' /\ EveryAddressTried'
    BY <2>1, <2>3, <2>4, <2>5 DEF LookupDecides, EveryAddressTried
  <2> QED BY <2>2, <2>6, SMTT(30) DEF IInv
<1>3. CASE ~((all = 0 /\ lastErr) \/ (addrs = 0 /\ all # 0))
  <2>1. /\ call' = "dial" /\ lane' = [w \in Writers |-> IF w \in Lanes THEN Idle ELSE lane[w]]
        /\ \/ dial' = [NoDial EXCEPT !.addrs = addrs]
           \/ \E t \in 0..Deadline :
                dial' = [NoDial EXCEPT !.addrs = addrs, !.timed = TRUE, !.began = t, !.now = t]
    BY <1>3, ZenonT(30) DEF Choose, addrs, all
  <2>2. addrs > 0
    BY <1>1, <1>3, SMTT(30)
  <2>3. dial' \in Dials /\ dial'.addrs = addrs
    <3>1. CASE dial' = [NoDial EXCEPT !.addrs = addrs]
      BY <1>1, <3>1, ZenonT(30) DEF NoDial, Dials
    <3>2. ASSUME NEW t \in 0..Deadline,
                 dial' = [NoDial EXCEPT !.addrs = addrs, !.timed = TRUE, !.began = t, !.now = t]
          PROVE  dial' \in Dials /\ dial'.addrs = addrs
      <4>1. t \in Nat
        BY NetstackAssumption
      <4> QED BY <1>1, <3>2, <4>1, ZenonT(30) DEF NoDial, Dials
    <3> QED BY <2>1, <3>1, <3>2, ZenonT(30)
  <2>4. Share'
    <3>1. CASE dial' = [NoDial EXCEPT !.addrs = addrs]
      BY <3>1 DEF Share, NoDial
    <3>2. ASSUME NEW t \in 0..Deadline,
                 dial' = [NoDial EXCEPT !.addrs = addrs, !.timed = TRUE, !.began = t, !.now = t]
          PROVE  Share'
      <4>1. dial'.began = t /\ dial'.now = t /\ dial'.tried = 0 /\ dial'.addrs = addrs
        BY <3>2, SMTT(30) DEF NoDial
      <4> QED BY <1>1, <4>1, NetstackAssumption DEF Share
    <3> QED BY <2>1, <3>1, <3>2, ZenonT(30)
  <2>5. Typed' /\ Returned' /\ Phases'
    BY <1>0, <2>1, <2>3, IdleState, ZenonT(30) DEF Typed, Returned, Phases
  <2>6. Notifying' = Notifying
    BY <2>1, IdleState, ZenonT(30) DEF Notifying
  <2>7. NoPacketStranded'
    BY <1>0, <2>6, ZenonT(30) DEF NoPacketStranded, Notifying
  <2>8. LookupDecides' /\ EveryAddressTried'
    BY <2>1, <2>2, <2>3, ZenonT(30) DEF LookupDecides, EveryAddressTried
  <2> QED BY <2>4, <2>5, <2>7, <2>8, SMTT(30) DEF IInv
<1> QED BY <1>2, <1>3

LEMMA CollectStep ==
  ASSUME IInv, Collect
  PROVE  IInv'
<1>1. /\ Typed /\ Returned /\ dial = NoDial /\ Lanes # {}
      /\ \A f \in Lanes : f \in Families /\ f \in Writers /\ lane[f].at = "done"
      /\ Choose(Found, \E f \in Lanes : lane[f].err)
  BY NetstackAssumption, ZenonT(30) DEF IInv, Phases, Collect, Writers
<1>2. Found \in [Families -> Nat]
  BY <1>1, FoundType
<1>3. Total(Found, Families) = 0 => \E f \in Lanes : lane[f].err
  <2> SUFFICES ASSUME Total(Found, Families) = 0 PROVE \E f \in Lanes : lane[f].err
    OBVIOUS
  <2>1. PICK f \in Lanes : TRUE
    BY <1>1
  <2>2. Found[f] = 0
    BY <1>1, <1>2, TotalZero
  <2>3. lane[f].found[f] = 0
    BY <1>1, <2>2, FoundType
  <2> QED BY <1>1, <2>3 DEF Returned
<1> DEFINE lastErr == \E f \in Lanes : lane[f].err
<1>4. lastErr \in BOOLEAN /\ Choose(Found, lastErr) /\ (Total(Found, Families) = 0 => lastErr)
  BY <1>1, <1>3, ZenonT(30)
<1> HIDE DEF lastErr
<1> QED BY <1>1, <1>2, <1>4, ChooseStep

LEMMA LiteralStep ==
  ASSUME IInv, ChooseLiteral
  PROVE  IInv'
<1>1. /\ Typed /\ Returned /\ dial = NoDial
      /\ \A f \in Lanes : f \in Writers /\ lane[f].at = "idle"
  BY DEF IInv, Phases, ChooseLiteral, Writers
<1>2. PICK g \in Families : Choose([NoRecords EXCEPT ![g] = 1], FALSE)
  BY ZenonT(30) DEF ChooseLiteral
<1> DEFINE found == [NoRecords EXCEPT ![g] = 1]
<1>3. found \in [Families -> Nat] /\ found[g] = 1
  BY DEF NoRecords
<1>4. Total(found, Families) # 0
  <2> HIDE DEF found
  <2> QED BY <1>3, TotalZero
<1>5. \A h \in Families : Found[h] = 0
  BY <1>1, FoundType DEF Returned, NoRecords
<1> HIDE DEF found
<1>6. Choose(found, FALSE)
  BY <1>2, ZenonT(30) DEF found
<1> QED BY <1>1, <1>3, <1>4, <1>5, <1>6, ChooseStep, ZenonT(30)

\* The lookup begins or is refused; the lanes were idle.
LEMMA StartStep ==
  ASSUME IInv, Refuse \/ LookupContextHost
  PROVE  IInv'
<1>1. /\ Typed /\ Returned /\ dial = NoDial /\ call = "start"
      /\ \A f \in Lanes : f \in Writers /\ lane[f].at = "idle"
      /\ UNCHANGED <<queue, hand, accept, cancelled, dial>>
  BY DEF IInv, Phases, Refuse, LookupContextHost, Writers, lookupVars
<1>2. Share'
  BY <1>1 DEF IInv, Share
<1>3. dial'.addrs = 0
  BY <1>1 DEF NoDial
<1>4. CASE call' \in {"failed", "literal"} /\ lane' = lane
  <2>1. Typed' /\ Returned' /\ NoPacketStranded' /\ Phases'
    BY <1>1, <1>4 DEF IInv, Typed, Returned, NoPacketStranded, Phases
  <2>2. Found' = Found
    BY <1>4 DEF Found
  <2>3. \A g \in Families : Found[g] = 0
    BY <1>1, FoundType DEF Returned, NoRecords
  <2>4. LookupDecides' /\ EveryAddressTried'
    BY <1>1, <1>3, <1>4, <2>2, <2>3 DEF LookupDecides, EveryAddressTried, Typed
  <2> QED BY <1>2, <2>1, <2>4, SMTT(30) DEF IInv
<1>5. CASE /\ call' = "lookup" /\ Lanes # {}
           /\ \E r \in {[Idle EXCEPT !.at = "done", !.err = TRUE],
                        [Idle EXCEPT !.at = "send", !.try = 1]} :
                lane' = [w \in Writers |-> IF w \in Others THEN lane[w] ELSE r]
  <2>1. PICK r : /\ r \in LaneStates /\ r.at \in {"send", "done"} /\ r.found = NoRecords
                 /\ r.at = "done" => r.err
                 /\ lane' = [w \in Writers |-> IF w \in Others THEN lane[w] ELSE r]
    <3>1. LET r == [Idle EXCEPT !.at = "done", !.err = TRUE]
          IN  r \in LaneStates /\ r.at = "done" /\ r.found = NoRecords /\ r.err
      BY ZenonT(30) DEF Idle, LaneStates, Places, NoRecords
    <3>2. LET r == [Idle EXCEPT !.at = "send", !.try = 1]
          IN  r \in LaneStates /\ r.at = "send" /\ r.found = NoRecords
      BY SendState, ZenonT(30)
    <3>3. PICK r \in {[Idle EXCEPT !.at = "done", !.err = TRUE],
                      [Idle EXCEPT !.at = "send", !.try = 1]} :
             lane' = [w \in Writers |-> IF w \in Others THEN lane[w] ELSE r]
      BY <1>5
    <3>4. /\ r \in LaneStates /\ r.at \in {"send", "done"} /\ r.found = NoRecords
          /\ r.at = "done" => r.err
      BY <3>1, <3>2, <3>3, ZenonT(30)
    <3> QED BY <3>3, <3>4
  <2>2. \A w \in Writers : w \in Others <=> w \notin Lanes
    BY NetstackAssumption DEF Writers
  <2>3. lane' \in [Writers -> LaneStates]
    BY <1>1, <2>1 DEF Typed
  <2>4. Typed' /\ Returned' /\ Phases'
    BY <1>1, <1>5, <2>1, <2>2, <2>3, SMTT(30) DEF Typed, Returned, Phases
  <2>5. Notifying' = Notifying
    BY <1>1, <2>1, <2>2 DEF Notifying
  <2>6. NoPacketStranded'
    BY <1>1, <2>5, ZenonT(30) DEF IInv, NoPacketStranded, Notifying
  <2>7. LookupDecides' /\ EveryAddressTried'
    BY <1>5 DEF LookupDecides, EveryAddressTried
  <2> QED BY <1>2, <2>4, <2>6, <2>7 DEF IInv
<1> QED BY <1>4, <1>5 DEF Refuse, LookupContextHost, lookupVars

\* An attempt takes no more than its share.
LEMMA AttemptStep ==
  ASSUME IInv, Attempt
  PROVE  IInv'
<1>1. /\ Typed /\ call = "dial" /\ dial.addrs > 0 /\ dial \in Dials
      /\ UNCHANGED <<lane, queue, hand, accept, cancelled>>
  BY ZenonT(30) DEF IInv, Typed, LookupDecides, Attempt, lookupVars
<1>2. Returned' /\ NoPacketStranded'
  BY <1>1 DEF IInv, Returned, NoPacketStranded
<1>3. CASE (cancelled \/ Expired \/ dial.tried = dial.addrs) /\ call' = "failed" /\ dial' = dial
  <2>1. Typed' /\ Phases' /\ Share' /\ LookupDecides'
    BY <1>1, <1>3, SMTT(30) DEF IInv, Typed, Phases, Share, LookupDecides
  <2>2. EveryAddressTried'
    <3> SUFFICES ASSUME ~cancelled, Expired, dial.tried # dial.addrs
                 PROVE  dial.tried * SaneMinimum >= Deadline - dial.began
      BY <1>1, <1>3 DEF EveryAddressTried, Expired
    <3> PICK began \in Nat, now \in Nat, addrs \in Nat, tried \in Nat, s \in Nat \ {0}, d \in Nat :
          /\ began = dial.began /\ now = dial.now /\ addrs = dial.addrs /\ tried = dial.tried
          /\ s = SaneMinimum /\ d = Deadline
      BY <1>1, NetstackAssumption, SMTT(30) DEF Dials
    <3>1. /\ now = d /\ tried < addrs
          /\ (addrs - tried) * s <= d - now \/ now - began <= tried * s
      BY DEF IInv, Share, Expired
    <3>2. (addrs - tried) * s > 0
      BY <3>1
    <3> QED BY <3>1, <3>2
  <2> QED BY <1>2, <2>1, <2>2, SMTT(30) DEF IInv
<1>4. ASSUME ~Expired, dial.tried < dial.addrs, call' \in {"dial", "connected"},
             NEW t \in IF dial.timed
                         THEN dial.now .. partialDeadline(dial.now, dial.addrs - dial.tried)
                         ELSE {dial.now},
             dial' = [dial EXCEPT !.now = t, !.tried = @ + 1]
      PROVE  IInv'
  <2> PICK began \in Nat, now \in Nat, addrs \in Nat, tried \in Nat, s \in Nat \ {0}, d \in Nat :
        /\ began = dial.began /\ now = dial.now /\ addrs = dial.addrs /\ tried = dial.tried
        /\ s = SaneMinimum /\ d = Deadline
    BY <1>1, NetstackAssumption, SMTT(30) DEF Dials
  <2> PICK n \in Nat \ {0} : n = addrs - tried
    BY <1>4
  <2>1. dial.timed => partialDeadline(now, n) \in Nat
    BY <1>4, ShareOfAttempt DEF IInv, Share
  <2>2. t \in Nat
    BY <1>4, <2>1
  <2>3. /\ dial' \in Dials /\ dial'.now = t /\ dial'.tried = tried + 1
        /\ dial'.addrs = addrs /\ dial'.began = began /\ dial'.timed = dial.timed
    <3> PICK k \in Nat : k = tried + 1
      OBVIOUS
    <3>1. dial' = [dial EXCEPT !.now = t, !.tried = k]
      BY <1>4
    <3> QED BY <1>1, <2>2, <3>1, ZenonT(30) DEF Dials
  <2>4. Share'
    <3> SUFFICES ASSUME dial.timed
                 PROVE  /\ began <= t /\ t <= d /\ tried + 1 <= addrs
                        /\ (n - 1) * s <= d - t \/ t - began <= (tried + 1) * s
      BY <2>3 DEF Share
    <3>1. /\ began <= now /\ now <= d
          /\ n * s <= d - now \/ now - began <= tried * s
      BY DEF IInv, Share
    <3> PICK e \in Nat : e = partialDeadline(now, n)
      BY <2>1
    <3>2. /\ e <= d
          /\ \/ n * s <= d - now /\ (n - 1) * s <= d - e
             \/ n * s > d - now /\ e <= now + s
      BY <3>1, ShareOfAttempt, ZenonT(30)
    <3>3. now <= t /\ t <= e
      BY <1>4, <2>2
    <3>4. (tried + 1) * s = tried * s + s /\ tried * s \in Nat /\ n * s \in Nat /\ (n - 1) * s \in Nat
      OBVIOUS
    <3> QED BY <1>4, <3>1, <3>2, <3>3, <3>4, SMTT(30)
  <2>5. Typed' /\ Phases' /\ LookupDecides' /\ EveryAddressTried'
    BY <1>1, <1>4, <2>3, SMTT(30) DEF Typed, Phases, LookupDecides, EveryAddressTried
  <2> QED BY <1>2, <2>4, <2>5 DEF IInv
<1> QED BY <1>3, <1>4, ZenonT(30) DEF Attempt

LEMMA StillStep ==
  ASSUME IInv, Running, UNCHANGED <<lane, queue, hand, accept, dial>>,
         call' \in {call, "panic"}
  PROVE  IInv'
<1>1. Typed' /\ Returned' /\ Phases' /\ Share' /\ NoPacketStranded'
  BY DEF IInv, Typed, Returned, Phases, Share, NoPacketStranded
<1>2. LookupDecides' /\ EveryAddressTried'
  BY DEF IInv, LookupDecides, EveryAddressTried, Running
<1> QED BY <1>1, <1>2 DEF IInv

-----------------------------------------------------------------------------
LEMMA InitInv == Init => IInv
<1> SUFFICES ASSUME Init PROVE IInv
  OBVIOUS
<1>1. /\ call = "start" /\ lane = [w \in Writers |-> Idle] /\ queue = <<>>
      /\ hand = [w \in Writers |-> NoPacket] /\ dial = NoDial /\ accept = Families
  BY DEF Init
<1>2. Idle \in LaneStates /\ Idle.at = "idle" /\ Idle.found = NoRecords
  BY DEF Idle, NoRecords, LaneStates, Places
<1>3. Typed
  BY <1>1, <1>2 DEF Typed, Packets, NoPacket, Dials, NoDial
<1>4. Returned /\ Phases
  BY <1>1, <1>2 DEF Returned, Phases, Writers
<1>5. Share
  BY <1>1 DEF Share, NoDial
<1>6. LookupDecides /\ EveryAddressTried
  BY <1>1 DEF LookupDecides, EveryAddressTried
<1>7. NoPacketStranded
  <2>1. {w \in Writers : lane[w].at = "notify"} = {}
    BY <1>1, <1>2
  <2>2. Cardinality({w \in Writers : lane[w].at = "notify"}) = 0
    BY <2>1, FS_EmptySet
  <2>3. Len(queue) = 0
    BY <1>1
  <2> QED BY <2>2, <2>3 DEF NoPacketStranded
<1> QED BY <1>3, <1>4, <1>5, <1>6, <1>7 DEF IInv

LEMMA NextInv == IInv /\ [Next]_vars => IInv'
<1> SUFFICES ASSUME IInv, [Next]_vars PROVE IInv'
  OBVIOUS
<1>1. CASE Next
  <2>0. Running
    BY <1>1 DEF Next
  <2>1. CASE Refuse \/ LookupContextHost
    BY <2>1, StartStep
  <2>2. CASE Collect
    BY <2>2, CollectStep
  <2>3. CASE ChooseLiteral
    BY <2>3, LiteralStep
  <2>4. CASE Attempt
    BY <2>4, AttemptStep
  <2>5. CASE Cancel
    BY <2>0, <2>5, StillStep DEF Cancel, lookupVars
  <2>6. CASE PumpWrites
    BY <2>0, <2>6, StillStep DEF PumpWrites, lookupVars
  <2>7. CASE \E f \in Lanes : Lane(f)
    BY <2>0, <2>7, LaneStep
  <2>8. CASE \E w \in Writers : WriteNotify(w) \/ Read(w)
    BY <2>0, <2>8, NotifyStep, ReadStep, SMTT(30)
  <2>9. CASE \E o \in Others : SendOther(o)
    BY <2>0, <2>9, OtherStep
  <2> QED BY <1>1, <2>1, <2>2, <2>3, <2>4, <2>5, <2>6, <2>7, <2>8, <2>9, SMTT(30) DEF Next
<1>2. CASE UNCHANGED vars
  <2>1. /\ UNCHANGED <<call, lane, queue, hand, accept, dial, cancelled>>
    BY <1>2, SMTT(30) DEF vars, lookupVars
  <2>2. Typed' /\ Returned' /\ Phases' /\ Share' /\ NoPacketStranded'
    BY <2>1 DEF IInv, Typed, Returned, Phases, Share, NoPacketStranded
  <2>3. Found' = Found
    BY <2>1 DEF Found
  <2>4. LookupDecides' /\ EveryAddressTried'
    BY <2>1, <2>3 DEF IInv, LookupDecides, EveryAddressTried
  <2> QED BY <2>2, <2>4 DEF IInv
<1> QED BY <1>1, <1>2

LEMMA Invariance == Spec => []IInv
BY InitInv, NextInv, PTL DEF Spec

-----------------------------------------------------------------------------
\* Whatever the size of the endpoint's queue and however many goroutines send,
\* each packet in it has a writer that has yet to take one.
THEOREM NothingStranded == Spec => []NoPacketStranded
<1>1. IInv => NoPacketStranded
  BY DEF IInv
<1> QED BY <1>1, Invariance, PTL

\* A lookup that ends without an error gave the dial an address, and no error
\* hides an address that was found, whatever the servers answer.
THEOREM LookupNeverHides == Spec => []LookupDecides
<1>1. IInv => LookupDecides
  BY DEF IInv
<1> QED BY <1>1, Invariance, PTL

\* For every deadline, minimum and number of addresses: partialDeadline leaves
\* each address its attempt, or all of the attempts got the minimum.
THEOREM SharesAreFair == Spec => []EveryAddressTried
<1>1. IInv => EveryAddressTried
  BY DEF IInv
<1> QED BY <1>1, Invariance, PTL

-----------------------------------------------------------------------------
(* Names: what the loop of isDomainName computes, by induction over the name. *)

\* A set of numbers that is not empty has a least one.
LEMMA LeastNumber ==
    ASSUME NEW T \in SUBSET Nat, T # {}
    PROVE  \E n \in T : \A m \in T : n <= m
<1>1. \E n \in T : \A m \in T : ~ (<<m, n>> \in OpToRel(<, Nat))
  BY NatLessThanWellFounded, WFMin, Zenon
<1>2. \A m, n \in T : <<m, n>> \in OpToRel(<, Nat) <=> m < n
  BY DEF OpToRel
<1>3. \E n \in T : \A m \in T : ~ (m < n)
  BY <1>1, <1>2, Zenon
<1>4. QED
  BY <1>3

\* A set with 0 that has the successors of its numbers has all numbers.
LEMMA SetInduction ==
    ASSUME NEW S, 0 \in S, \A n \in Nat : n \in S => n + 1 \in S
    PROVE  Nat \subseteq S
<1> SUFFICES ASSUME Nat \ S # {} PROVE FALSE
  OBVIOUS
<1>1. PICK n \in Nat \ S : \A m \in Nat \ S : n <= m
  BY LeastNumber, Zenon
<1>2. n # 0 /\ n - 1 \in Nat /\ n - 1 \in S
  BY <1>1
<1>3. QED
  BY <1>1, <1>2

\* What the loop has before the first character, and after the first k of s.
Fresh == [ok |-> TRUE, last |-> "dot", nonNumeric |-> FALSE, partlen |-> 0]
IsScan(g, s, k) == g = [i \in 0..k |-> IF i = 0 THEN Fresh ELSE Scan(g[i - 1], s[i])]

\* The loop of isDomainName has a value after any number of characters.
LEMMA ScanExists ==
    ASSUME NEW s, NEW n \in Nat
    PROVE  \E g : IsScan(g, s, n)
<1> DEFINE S == {k \in Nat : \E g : IsScan(g, s, k)}
<1>1. 0 \in S
  <2>1. IsScan([i \in 0..0 |-> Fresh], s, 0)
    BY DEF IsScan
  <2>2. QED
    BY <2>1
<1>2. ASSUME NEW k \in Nat, k \in S PROVE k + 1 \in S
  <2>1. PICK g : g = [i \in 0..k |-> IF i = 0 THEN Fresh ELSE Scan(g[i - 1], s[i])]
    BY <1>2 DEF IsScan
  <2> DEFINE h == [i \in 0..(k + 1) |-> IF i <= k THEN g[i] ELSE Scan(g[k], s[k + 1])]
  <2>2. ASSUME NEW i \in 0..(k + 1)
        PROVE  h[i] = IF i = 0 THEN Fresh ELSE Scan(h[i - 1], s[i])
    <3>1. CASE i <= k
      <4>1. h[i] = g[i] /\ (i # 0 => h[i - 1] = g[i - 1])
        BY <3>1
      <4>2. g[i] = IF i = 0 THEN Fresh ELSE Scan(g[i - 1], s[i])
        BY <2>1, <3>1
      <4>3. QED
        BY <4>1, <4>2
    <3>2. CASE i = k + 1
      <4>1. h[i] = Scan(g[k], s[k + 1]) /\ h[k] = g[k] /\ i - 1 = k /\ i # 0
        BY <3>2
      <4>2. QED
        BY <3>2, <4>1
    <3>3. QED
      BY <3>1, <3>2
  <2>3. h = [i \in 0..(k + 1) |-> IF i = 0 THEN Fresh ELSE Scan(h[i - 1], s[i])]
    <3>1. h = [i \in 0..(k + 1) |-> h[i]]
      OBVIOUS
    <3> HIDE DEF h
    <3>2. QED
      BY <2>2, <3>1, ZenonT(30)
  <2>4. IsScan(h, s, k + 1)
    <3> HIDE DEF h
    <3>1. QED
      BY <2>3 DEF IsScan
  <2>5. QED
    BY <2>4
<1>3. Nat \subseteq S
  <2> HIDE DEF S
  <2>1. QED
    BY <1>1, <1>2, SetInduction, Zenon
<1>4. QED
  BY <1>3

\* Scanned is the last of those values.
LEMMA ScannedBy ==
    ASSUME NEW s \in Seq(Classes), NEW n \in Nat, n = Len(s)
    PROVE  \E g : Scanned(s) = g[n] /\ IsScan(g, s, n)
<1> DEFINE h == CHOOSE scan : scan = [i \in 0..Len(s) |->
                  IF i = 0 THEN [ok |-> TRUE, last |-> "dot", nonNumeric |-> FALSE, partlen |-> 0]
                  ELSE Scan(scan[i - 1], s[i])]
<1>1. Scanned(s) = h[Len(s)]
  BY Zenon DEF Scanned
<1>2. \E g : IsScan(g, s, n)
  BY ScanExists, Zenon
<1>3. \E g : g = [i \in 0..Len(s) |->
                  IF i = 0 THEN [ok |-> TRUE, last |-> "dot", nonNumeric |-> FALSE, partlen |-> 0]
                  ELSE Scan(g[i - 1], s[i])]
  BY <1>2, Zenon DEF IsScan, Fresh
<1>4. h = [i \in 0..Len(s) |->
                  IF i = 0 THEN [ok |-> TRUE, last |-> "dot", nonNumeric |-> FALSE, partlen |-> 0]
                  ELSE Scan(h[i - 1], s[i])]
  BY <1>3, ZenonT(30)
<1> HIDE DEF h
<1>5. IsScan(h, s, n)
  BY <1>4, Zenon DEF IsScan, Fresh
<1>6. QED
  BY <1>1, <1>5, Zenon

\* The character before the i-th: before the first, the loop has a dot.
Before(s, i) == IF i = 1 THEN "dot" ELSE s[i - 1]

\* The i-th character may stand where it does.
Allowed(s, i) ==
    /\ s[i] # "other" /\ (s[i] = "hyphen" => Before(s, i) # "dot")
    /\ s[i] = "dot" => Before(s, i) \notin {"dot", "hyphen"}

\* Among the first k characters no label is too long.
Short(s, k) == \A i \in 1..(k - MaxLabel) : \E j \in i..(i + MaxLabel) : s[j] = "dot"

\* The last p of the first k characters, and no more, are not dots.
Run(s, k, p) ==
    /\ p \in 0..k /\ \A i \in 1..k : i > k - p => s[i] # "dot"
    /\ p < k => s[k - p] = "dot"

\* What the loop knows after the first k characters.
Knows(st, s, k) ==
    /\ st.last = IF k = 0 THEN "dot" ELSE s[k]
    /\ st.nonNumeric \in BOOLEAN /\ st.ok \in BOOLEAN
    /\ st.nonNumeric <=> \E i \in 1..k : s[i] \in {"letter", "hyphen"}
    /\ Run(s, k, st.partlen)
    /\ st.ok /\ st.partlen <= MaxLabel <=> (\A i \in 1..k : Allowed(s, i)) /\ Short(s, k)

\* The run of characters without a dot, one character further.
LEMMA RunGrows ==
    ASSUME NEW s, NEW k \in Nat, NEW p, Run(s, k, p)
    PROVE  Run(s, k + 1, IF s[k + 1] = "dot" THEN 0 ELSE p + 1)
<1>1. p \in Nat /\ p <= k
  BY DEF Run
<1>2. CASE s[k + 1] = "dot"
  BY <1>2 DEF Run
<1>3. CASE s[k + 1] # "dot"
  <2>1. p + 1 \in 0..(k + 1) /\ (k + 1) - (p + 1) = k - p
    BY <1>1
  <2>2. ASSUME NEW i \in 1..(k + 1), i > k - p PROVE s[i] # "dot"
    <3>1. CASE i = k + 1
      BY <1>3, <3>1
    <3>2. CASE i \in 1..k
      BY <2>2, <3>2 DEF Run
    <3>3. QED
      BY <3>1, <3>2
  <2>3. p + 1 < k + 1 => s[k - p] = "dot"
    BY <1>1 DEF Run
  <2>4. QED
    BY <1>3, <2>1, <2>2, <2>3 DEF Run
<1>4. QED
  BY <1>2, <1>3

\* A run that is not too long is one of a short label.
LEMMA ShortGrows ==
    ASSUME NEW s, NEW k \in Nat, NEW p, Run(s, k + 1, p), Short(s, k)
    PROVE  Short(s, k + 1) <=> p <= MaxLabel
<1>1. MaxLabel \in Nat /\ p \in Nat /\ p <= k + 1
  BY NetstackAssumption DEF Run
<1>2. ASSUME p <= MaxLabel PROVE Short(s, k + 1)
  <2> SUFFICES ASSUME NEW i \in 1..((k + 1) - MaxLabel)
               PROVE  \E j \in i..(i + MaxLabel) : s[j] = "dot"
    BY DEF Short
  <2>1. CASE i \in 1..(k - MaxLabel)
    BY <2>1 DEF Short
  <2>2. CASE i = (k + 1) - MaxLabel
    <3>1. p < k + 1 /\ (k + 1) - p \in i..(i + MaxLabel)
      BY <1>1, <1>2, <2>2
    <3>2. s[(k + 1) - p] = "dot"
      BY <3>1 DEF Run
    <3>3. QED
      BY <3>1, <3>2
  <2>3. QED
    BY <1>1, <2>1, <2>2
<1>3. ASSUME p > MaxLabel PROVE ~Short(s, k + 1)
  <2> DEFINE i == (k + 1) - MaxLabel
  <2>1. i \in 1..((k + 1) - MaxLabel)
    BY <1>1, <1>3
  <2>2. \A j \in i..(i + MaxLabel) : j \in 1..(k + 1) /\ j > (k + 1) - p
    BY <1>1, <1>3
  <2>3. \A j \in i..(i + MaxLabel) : s[j] # "dot"
    BY <2>2 DEF Run
  <2>4. QED
    BY <2>1, <2>3 DEF Short
<1>4. QED
  BY <1>1, <1>2, <1>3

\* A shorter part of the name has no longer labels.
LEMMA ShortBefore ==
    ASSUME NEW s, NEW k \in Nat, Short(s, k + 1)
    PROVE  Short(s, k)
<1>1. MaxLabel \in Nat
  BY NetstackAssumption
<1>2. 1..(k - MaxLabel) \subseteq 1..((k + 1) - MaxLabel)
  BY <1>1
<1>3. QED
  BY <1>2, Zenon DEF Short

\* One turn of the loop keeps what it knows.
LEMMA ScanStep ==
    ASSUME NEW s, NEW k \in Nat, NEW st, Knows(st, s, k)
    PROVE  Knows(Scan(st, s[k + 1]), s, k + 1)
<1>1. PICK c, p : c = s[k + 1] /\ p = st.partlen
  OBVIOUS
<1>2. PICK nx : nx = Scan(st, c)
  OBVIOUS
<1>3. /\ nx.last = c /\ nx.partlen = (IF c = "dot" THEN 0 ELSE p + 1)
      /\ nx.nonNumeric = (st.nonNumeric \/ c \in {"letter", "hyphen"})
      /\ nx.ok = (/\ st.ok /\ c # "other"
                  /\ c = "hyphen" => st.last # "dot"
                  /\ c = "dot" => st.last \notin {"dot", "hyphen"} /\ p \in 1..MaxLabel)
  BY <1>1, <1>2 DEF Scan
<1>4. Run(s, k, p) /\ Run(s, k + 1, nx.partlen)
  <2>1. Run(s, k, p)
    BY <1>1, Zenon DEF Knows
  <2>2. Run(s, k + 1, IF s[k + 1] = "dot" THEN 0 ELSE p + 1)
    BY <2>1, RunGrows, Zenon
  <2>3. QED
    BY <1>1, <1>3, <2>1, <2>2, Zenon
<1>5. nx.nonNumeric \in BOOLEAN /\ (nx.nonNumeric <=> \E i \in 1..(k + 1) : s[i] \in {"letter", "hyphen"})
  <2>1. (\E i \in 1..(k + 1) : s[i] \in {"letter", "hyphen"})
        <=> (\E i \in 1..k : s[i] \in {"letter", "hyphen"}) \/ c \in {"letter", "hyphen"}
    BY <1>1
  <2>2. QED
    BY <1>3, <2>1, Zenon DEF Knows
<1>6. st.last = Before(s, k + 1)
  <2>1. (k = 0 <=> k + 1 = 1) /\ (k + 1) - 1 = k
    OBVIOUS
  <2>2. QED
    BY <2>1, Zenon DEF Knows, Before
<1>7. (\A i \in 1..(k + 1) : Allowed(s, i)) <=> (\A i \in 1..k : Allowed(s, i)) /\ Allowed(s, k + 1)
  <2>1. 1..(k + 1) = 1..k \cup {k + 1}
    OBVIOUS
  <2>2. QED
    BY <2>1, Zenon
<1>8. Allowed(s, k + 1) <=> /\ c # "other" /\ (c = "hyphen" => st.last # "dot")
                            /\ c = "dot" => st.last \notin {"dot", "hyphen"}
  BY <1>1, <1>6, Zenon DEF Allowed
<1>9. p \in Nat /\ MaxLabel \in Nat /\ (c = "dot" /\ st.last # "dot" => p >= 1)
  <2>1. p \in 0..k /\ MaxLabel \in Nat
    BY <1>4, NetstackAssumption DEF Run
  <2>2. CASE p = 0
    <3>1. st.last = "dot"
      BY <1>4, <2>2 DEF Knows, Run
    <3>2. QED
      BY <2>1, <3>1
  <2>3. CASE p # 0
    BY <2>1, <2>3
  <2>4. QED
    BY <2>2, <2>3
<1>10. nx.ok \in BOOLEAN /\ (nx.ok => st.ok)
  BY <1>3, Zenon
<1>11. Short(s, k + 1) => Short(s, k)
  BY ShortBefore, Zenon
<1>12. Short(s, k) => (Short(s, k + 1) <=> nx.partlen <= MaxLabel)
  BY <1>4, ShortGrows, Zenon
<1>13. st.ok /\ p <= MaxLabel <=> (\A i \in 1..k : Allowed(s, i)) /\ Short(s, k)
  BY <1>1, Zenon DEF Knows
<1>14. nx.partlen <= MaxLabel /\ nx.ok => p <= MaxLabel
  <2>1. CASE c = "dot"
    <3>1. nx.ok => p \in 1..MaxLabel
      BY <1>3, <2>1, Zenon
    <3>2. QED
      BY <1>9, <3>1
  <2>2. CASE c # "dot"
    <3>1. nx.partlen = p + 1
      BY <1>3, <2>2, Zenon
    <3>2. QED
      BY <1>9, <3>1
  <2>3. QED
    BY <2>1, <2>2
<1>15. st.ok /\ p <= MaxLabel /\ Allowed(s, k + 1) => nx.ok
  <2>1. CASE c = "dot"
    <3>1. p <= MaxLabel /\ st.last # "dot" => p \in 1..MaxLabel
      BY <1>9, <2>1
    <3>2. QED
      BY <1>3, <1>8, <2>1, <3>1, ZenonT(30)
  <2>2. CASE c # "dot"
    BY <1>3, <1>8, <2>2, Zenon
  <2>3. QED
    BY <2>1, <2>2
<1>16. nx.ok => Allowed(s, k + 1)
  BY <1>3, <1>8, Zenon
<1>17. nx.ok /\ nx.partlen <= MaxLabel
         <=> (\A i \in 1..(k + 1) : Allowed(s, i)) /\ Short(s, k + 1)
  BY <1>7, <1>10, <1>11, <1>12, <1>13, <1>14, <1>15, <1>16, ZenonT(30)
<1>18. nx.last = IF k + 1 = 0 THEN "dot" ELSE s[k + 1]
  BY <1>1, <1>3
<1>19. Knows(nx, s, k + 1)
  BY <1>4, <1>5, <1>10, <1>17, <1>18, ZenonT(30) DEF Knows
<1>20. QED
  BY <1>1, <1>2, <1>19, Zenon

\* What the loop knows at the end.
LEMMA ScannedKnows ==
    ASSUME NEW s \in Seq(Classes), NEW n \in Nat, n = Len(s)
    PROVE  Knows(Scanned(s), s, n)
<1>1. PICK g : Scanned(s) = g[n] /\ IsScan(g, s, n)
  BY ScannedBy, Zenon
<1> DEFINE S == {k \in Nat : k <= n => Knows(g[k], s, k)}
<1>2. 0 \in S
  <2>1. g[0] = Fresh
    BY <1>1 DEF IsScan
  <2>2. Run(s, 0, 0) /\ Short(s, 0) /\ 0 <= MaxLabel /\ 1..0 = {}
    BY NetstackAssumption DEF Run, Short
  <2>3. Knows(Fresh, s, 0)
    BY <2>2, Zenon DEF Knows, Fresh
  <2>4. QED
    BY <2>1, <2>3
<1>3. ASSUME NEW k \in Nat, k \in S PROVE k + 1 \in S
  <2> SUFFICES ASSUME k + 1 <= n PROVE Knows(g[k + 1], s, k + 1)
    OBVIOUS
  <2>1. g[k + 1] = Scan(g[k], s[k + 1])
    <3>1. k + 1 \in 0..n /\ k + 1 # 0 /\ (k + 1) - 1 = k
      OBVIOUS
    <3>2. QED
      BY <1>1, <3>1, Zenon DEF IsScan
  <2>2. Knows(g[k], s, k)
    BY <1>3
  <2>3. QED
    BY <2>1, <2>2, ScanStep, Zenon
<1>4. n \in S
  <2> HIDE DEF S
  <2>1. QED
    BY <1>2, <1>3, SetInduction, Zenon
<1>5. QED
  BY <1>1, <1>4

\* The conditions on single characters, as conditions on neighbours.
LEMMA NeighboursIff ==
    ASSUME NEW s, NEW n \in Nat \ {0}, \A i \in 1..n : s[i] \in Classes
    PROVE  (\A i \in 1..n : Allowed(s, i)) <=>
             /\ \A i \in 1..n : s[i] # "other"
             /\ s[1] \notin {"dot", "hyphen"}
             /\ \A i \in 1..(n - 1) :
                  "dot" \in {s[i], s[i + 1]} => {s[i], s[i + 1]} \cap {"letter", "digit"} # {}
<1> DEFINE Pair(i) ==
      "dot" \in {s[i], s[i + 1]} => {s[i], s[i + 1]} \cap {"letter", "digit"} # {}
<1>1. ASSUME \A i \in 1..n : Allowed(s, i)
      PROVE  /\ \A i \in 1..n : s[i] # "other"
             /\ s[1] \notin {"dot", "hyphen"}
  <2>1. 1 \in 1..n
    OBVIOUS
  <2>2. QED
    BY <1>1, <2>1, Zenon DEF Allowed, Before
<1>2. ASSUME \A i \in 1..n : Allowed(s, i), NEW i \in 1..(n - 1) PROVE Pair(i)
  <2>1. i \in 1..n /\ i + 1 \in 1..n /\ i + 1 # 1 /\ (i + 1) - 1 = i
    OBVIOUS
  <2>2. Allowed(s, i) /\ Allowed(s, i + 1) /\ Before(s, i + 1) = s[i]
    BY <1>2, <2>1, Zenon DEF Before
  <2>3. s[i] \in Classes /\ s[i + 1] \in Classes
    BY <2>1
  <2>4. QED
    BY <2>2, <2>3, ZenonT(30) DEF Allowed, Classes
<1>3. ASSUME \A i \in 1..n : s[i] # "other", s[1] \notin {"dot", "hyphen"},
             \A i \in 1..(n - 1) : Pair(i), NEW i \in 1..n
      PROVE  Allowed(s, i)
  <2>1. CASE i = 1
    BY <1>3, <2>1, Zenon DEF Allowed
  <2>2. CASE i # 1
    <3>1. i - 1 \in 1..(n - 1) /\ (i - 1) + 1 = i
      BY <2>2
    <3>2. Pair(i - 1) /\ Before(s, i) = s[i - 1]
      BY <1>3, <2>2, <3>1, ZenonT(30) DEF Before
    <3>3. s[i] # "other"
      BY <1>3
    <3>4. QED
      BY <3>1, <3>2, <3>3 DEF Allowed
  <2>3. QED
    BY <2>1, <2>2
<1>4. QED
  BY <1>1, <1>2, <1>3, Zenon

\* A name, as NamesAccepted has it.
Name(s) ==
    /\ s # <<>> /\ "other" \notin Range(s)
    /\ Len(s) - (IF s[Len(s)] = "dot" THEN 1 ELSE 0) < MaxName
    /\ {"letter", "hyphen"} \cap Range(s) # {}
    /\ Head(s) \notin {"dot", "hyphen"} /\ s[Len(s)] # "hyphen"
    /\ \A i \in 1..(Len(s) - 1) :
         "dot" \in {s[i], s[i + 1]} => {s[i], s[i + 1]} \cap {"letter", "digit"} # {}
    /\ \A i \in 1..(Len(s) - MaxLabel) : \E j \in i..(i + MaxLabel) : s[j] = "dot"

\* isDomainName tells names from what is not one.
LEMMA NameIff ==
    ASSUME NEW s \in Seq(Classes)
    PROVE  isDomainName(s) <=> Name(s)
<1>1. PICK n \in Nat : n = Len(s)
  OBVIOUS
<1>2. PICK r : r = Scanned(s)
  OBVIOUS
<1>3. Knows(r, s, n)
  BY <1>1, <1>2, ScannedKnows, Zenon
<1>4. CASE n = 0
  <2>1. s = <<>>
    BY <1>1, <1>4, EmptySeq, ZenonT(30)
  <2>2. n \notin 1..MaxName
    BY <1>4, NetstackAssumption
  <2>3. QED
    BY <1>1, <2>1, <2>2, Zenon DEF isDomainName, Name
<1>5. CASE n # 0
  <2>1. n \in Nat \ {0} /\ (\A i \in 1..n : s[i] \in Classes) /\ Head(s) = s[1] /\ s # <<>>
    BY <1>1, <1>5
  <2>2. Range(s) = {s[i] : i \in 1..n}
    <3>1. DOMAIN s = 1..n
      BY <1>1
    <3>2. QED
      BY <3>1, Zenon DEF Range
  <2>3. ("other" \notin Range(s) <=> \A i \in 1..n : s[i] # "other")
        /\ ({"letter", "hyphen"} \cap Range(s) # {} <=> \E i \in 1..n : s[i] \in {"letter", "hyphen"})
    BY <2>2, Zenon
  <2>4. MaxName \in Nat
    BY NetstackAssumption
  <2>5. n - (IF s[n] = "dot" THEN 1 ELSE 0) < MaxName
          <=> n \in 1..MaxName /\ (n = MaxName => s[n] = "dot")
    <3>1. CASE s[n] = "dot"
      BY <2>1, <2>4, <3>1, SMTT(30)
    <3>2. CASE s[n] # "dot"
      BY <2>1, <2>4, <3>2
    <3>3. QED
      BY <3>1, <3>2
  <2>6. r.last = s[n]
    BY <1>3, <1>5, ZenonT(30) DEF Knows
  <2>7. (\A i \in 1..n : Allowed(s, i)) <=>
          /\ \A i \in 1..n : s[i] # "other"
          /\ s[1] \notin {"dot", "hyphen"}
          /\ \A i \in 1..(n - 1) :
               "dot" \in {s[i], s[i + 1]} => {s[i], s[i + 1]} \cap {"letter", "digit"} # {}
    BY <2>1, NeighboursIff, SMTT(30)
  <2>8. isDomainName(s) <=>
          /\ n \in 1..MaxName /\ (n = MaxName => s[n] = "dot")
          /\ r.ok /\ r.last # "hyphen" /\ r.partlen <= MaxLabel /\ r.nonNumeric
    BY <1>1, <1>2, Zenon DEF isDomainName
  <2>9. isDomainName(s) <=>
          /\ n \in 1..MaxName /\ (n = MaxName => s[n] = "dot")
          /\ (\A i \in 1..n : Allowed(s, i)) /\ Short(s, n) /\ s[n] # "hyphen"
          /\ \E i \in 1..n : s[i] \in {"letter", "hyphen"}
    BY <1>3, <2>6, <2>8, Zenon DEF Knows
  <2>10. Name(s) <=>
          /\ \A i \in 1..n : s[i] # "other"
          /\ n - (IF s[n] = "dot" THEN 1 ELSE 0) < MaxName
          /\ \E i \in 1..n : s[i] \in {"letter", "hyphen"}
          /\ s[1] \notin {"dot", "hyphen"} /\ s[n] # "hyphen"
          /\ \A i \in 1..(n - 1) :
               "dot" \in {s[i], s[i + 1]} => {s[i], s[i + 1]} \cap {"letter", "digit"} # {}
          /\ Short(s, n)
    BY <1>1, <2>1, <2>3, ZenonT(30) DEF Name, Short
  <2>11. QED
    BY <2>5, <2>7, <2>9, <2>10, ZenonT(30)
<1>6. QED
  BY <1>4, <1>5

\* Only the dialled host is ever looked at.
Dialled == call = "start" => host \in Hosts \cup {Literal}

\* The host is the dialled one until the lookup has looked at it.
LEMMA DialledStays == Dialled /\ [Next]_vars => Dialled'
<1> SUFFICES ASSUME Dialled, [Next]_vars, call' = "start"
             PROVE  host' \in Hosts \cup {Literal}
  BY DEF Dialled
<1>1. call = "start" /\ host' = host
  <2>1. CASE Collect \/ ChooseLiteral
    <3>1. \A found, err : Choose(found, err) => call' # "start"
      BY DEF Choose
    <3>2. QED
      BY <2>1, <3>1, Zenon DEF Collect, ChooseLiteral
  <2>2. CASE Refuse \/ LookupContextHost \/ Attempt \/ Cancel \/ PumpWrites
    <3>1. ~Refuse /\ ~Attempt /\ ~LookupContextHost
      BY Zenon DEF Refuse, Attempt, LookupContextHost
    <3>2. CASE Cancel
      BY <3>2, Zenon DEF Cancel
    <3>3. CASE PumpWrites
      BY <3>3 DEF PumpWrites
    <3>4. QED
      BY <2>2, <3>1, <3>2, <3>3, ZenonT(30)
  <2>3. CASE UNCHANGED vars
    BY <2>3 DEF vars
  <2>4. CASE \E f \in Lanes : Lane(f)
    BY <2>4, Zenon DEF Lane, SendUDP, ReceiveUDP, Expire, ExchangeTCP
  <2>5. CASE \/ \E w \in Writers : WriteNotify(w) \/ Read(w)
             \/ \E o \in Others : SendOther(o)
    BY <2>5, Zenon DEF WriteNotify, Read, SendOther
  <2>6. QED
    BY <2>1, <2>2, <2>3, <2>4, <2>5, ZenonT(30) DEF Next
<1>2. QED
  BY <1>1 DEF Dialled

\* DialContext takes for a name exactly what is one, whatever the bounds on the
\* length of a name and of a label.
THEOREM NamesAreNames == Spec => []NamesAccepted
<1>1. Init => Dialled
  BY DEF Init, Dialled
<1>2. Dialled => NamesAccepted
  <2> SUFFICES ASSUME call = "start", host # Literal, host \in Hosts
               PROVE  isDomainName(host) <=> Name(host)
    BY Zenon DEF Dialled, NamesAccepted, Name
  <2>1. host \in Seq(Classes)
    BY NetstackAssumption
  <2>2. QED
    BY <2>1, NameIff, Zenon
<1>3. QED
  BY <1>1, <1>2, DialledStays, PTL DEF Spec

=============================================================================
