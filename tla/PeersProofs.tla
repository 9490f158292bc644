---------------------------- MODULE PeersProofs ----------------------------
(***************************************************************************)
(* Proofs about what leads to a peer.                                      *)
(*                                                                         *)
(* PeerRouting, for any peers and addresses, whatever they know and        *)
(* however the goroutines of FindPeer interleave: no answer is lost.       *)
(*                                                                         *)
(* Naming, for any configuration: names and references mean the same peer  *)
(* wherever they are used, and the access lists are those of the file.     *)
(***************************************************************************)
EXTENDS PeerRouting, Naming, FiniteSetTheorems, TLAPS

-----------------------------------------------------------------------------
(* PeerRouting. *)

Typed ==
    /\ task \in [Routings -> TaskSteps] /\ answer \in [Routings -> SUBSET Addrs]
    /\ knows \in [PeerIDs -> SUBSET Addrs] /\ finds \in [{"dht", "http"} -> SUBSET Addrs]
    /\ seen \in SUBSET Addrs /\ info \in SUBSET Addrs

\* The goroutine that merges has the mutex, and nobody changed info since it
\* read it.
Exclusive ==
    /\ \A r \in Routings : task[r] = "merge" <=> mutex = r
    /\ mutex \in Routings => seen = info

\* A goroutine that is past the call of its routing has its answer.
Answered ==
    \A r \in Routings : task[r] \in {"lock", "merge", "done"} =>
        FindPeerOf(r).ok /\ answer[r] = FindPeerOf(r).addrs

\* Only a merged answer starts the timer that cuts the search short.
CutByAnswer ==
    timer \/ subCtx = "answered" => \E r \in Routings : task[r] = "done"

IInv == Typed /\ Exclusive /\ Answered /\ CutByAnswer /\ AnswersAreMerged

-----------------------------------------------------------------------------
LEMMA FirstPeer == Head(vpnPeers) \in PeerIDs
BY RoutingAssumption DEF PeerIDs

\* What a routing answers with are addresses, if it answers.
LEMMA AnswerTypes ==
  ASSUME Typed, NEW r \in Routings
  PROVE  FindPeerOf(r).addrs \in SUBSET Addrs
BY FirstPeer
   DEF Typed, FindPeerOf, PeXFindPeer, RequestPeX, NewPeXStreamHandler, FailedAnswer, Routings

LEMMA InitInv == Init => IInv
<1> SUFFICES ASSUME Init PROVE IInv
  OBVIOUS
<1>1. Typed
  BY DEF Init, Typed, TaskSteps
<1>2. Exclusive
  BY DEF Init, Exclusive, Routings
<1>3. Answered /\ CutByAnswer
  BY DEF Init, Answered, CutByAnswer
<1>4. AnswersAreMerged
  BY DEF Init, AnswersAreMerged, Merged
<1> QED BY <1>1, <1>2, <1>3, <1>4 DEF IInv

\* A goroutine that does not merge leaves the merged answers as they are.
LEMMA QuietStep ==
  ASSUME Typed, AnswersAreMerged, NEW r \in Routings, NEW next \in TaskSteps \ {"done"},
         task[r] # "done", task' = [task EXCEPT ![r] = next],
         \A x \in Routings \ {r} : answer'[x] = answer[x], info' = info
  PROVE  AnswersAreMerged'
<1>1. \A x \in Routings : task'[x] = "done" <=> task[x] = "done"
  BY DEF Typed
<1>2. {x \in Routings : task'[x] = "done"} = {x \in Routings : task[x] = "done"}
  BY <1>1
<1>3. \A x \in {y \in Routings : task[y] = "done"} : answer'[x] = answer[x]
  OBVIOUS
<1>4. Merged' = Merged
  BY <1>2, <1>3 DEF Merged
<1> QED BY <1>4 DEF AnswersAreMerged

LEMMA AnswersStep ==
  ASSUME IInv, NEW r \in Routings, Answers(r) \/ Fails(r)
  PROVE  IInv'
<1>1. /\ Typed /\ task[r] = "asking"
      /\ UNCHANGED <<env, mutex, seen, info, timer, subCtx>>
  BY DEF IInv, Answers, Fails
<1>2. CASE Answers(r)
  <2>1. /\ task' = [task EXCEPT ![r] = "lock"] /\ FindPeerOf(r).ok
        /\ answer' = [answer EXCEPT ![r] = FindPeerOf(r).addrs]
    BY <1>2 DEF Answers
  <2>2. Typed'
    BY <1>1, <2>1, AnswerTypes DEF Typed, TaskSteps, env
  <2>3. \A x \in Routings : FindPeerOf(x)' = FindPeerOf(x)
    BY <1>1 DEF env, FindPeerOf, PeXFindPeer, RequestPeX, NewPeXStreamHandler, FailedAnswer
  <2>4. Exclusive' /\ CutByAnswer'
    BY <1>1, <2>1 DEF IInv, Typed, Exclusive, CutByAnswer
  <2>5. Answered'
    BY <1>1, <2>1, <2>3 DEF IInv, Typed, Answered
  <2>6. AnswersAreMerged'
    BY <1>1, <2>1, QuietStep, ZenonT(30) DEF IInv, Typed, TaskSteps
  <2> QED BY <2>2, <2>4, <2>5, <2>6 DEF IInv
<1>3. CASE Fails(r)
  <2>1. task' = [task EXCEPT ![r] = "failed"] /\ answer' = answer
    BY <1>3 DEF Fails
  <2>2. Typed'
    BY <1>1, <2>1 DEF Typed, TaskSteps, env
  <2>3. \A x \in Routings : FindPeerOf(x)' = FindPeerOf(x)
    BY <1>1 DEF env, FindPeerOf, PeXFindPeer, RequestPeX, NewPeXStreamHandler, FailedAnswer
  <2>4. Exclusive' /\ CutByAnswer'
    BY <1>1, <2>1 DEF IInv, Typed, Exclusive, CutByAnswer
  <2>5. Answered'
    BY <1>1, <2>1, <2>3 DEF IInv, Typed, Answered
  <2>6. AnswersAreMerged'
    BY <1>1, <2>1, QuietStep, ZenonT(30) DEF IInv, TaskSteps
  <2> QED BY <2>2, <2>4, <2>5, <2>6 DEF IInv
<1> QED BY <1>2, <1>3

LEMMA LockStep ==
  ASSUME IInv, NEW r \in Routings, Lock(r)
  PROVE  IInv'
<1>1. /\ Typed /\ task[r] = "lock" /\ mutex = "none"
      /\ task' = [task EXCEPT ![r] = "merge"] /\ mutex' = r /\ seen' = info
      /\ UNCHANGED <<env, answer, info, timer, subCtx>>
  BY DEF IInv, Lock
<1>2. Typed'
  BY <1>1 DEF Typed, TaskSteps, env
<1>3. \A x \in Routings : FindPeerOf(x)' = FindPeerOf(x)
  BY <1>1 DEF env, FindPeerOf, PeXFindPeer, RequestPeX, NewPeXStreamHandler, FailedAnswer
<1>4. \A x \in Routings : task[x] # "merge"
  BY <1>1 DEF IInv, Exclusive, Routings
<1>5. Exclusive' /\ CutByAnswer'
  BY <1>1, <1>4 DEF IInv, Typed, Exclusive, CutByAnswer
<1>6. Answered'
  BY <1>1, <1>3 DEF IInv, Typed, Answered
<1>7. AnswersAreMerged'
  BY <1>1, QuietStep, ZenonT(30) DEF IInv, TaskSteps
<1> QED BY <1>2, <1>5, <1>6, <1>7 DEF IInv

LEMMA MergeStep ==
  ASSUME IInv, NEW r \in Routings, Merge(r)
  PROVE  IInv'
<1>1. /\ Typed /\ task[r] = "merge"
      /\ task' = [task EXCEPT ![r] = "done"] /\ mutex' = "none" /\ info' = seen \cup answer[r]
      /\ UNCHANGED <<env, answer, seen, subCtx>>
  BY DEF IInv, Merge
<1>2. mutex = r /\ seen = info
  BY <1>1 DEF IInv, Exclusive
<1>3. Typed'
  BY <1>1 DEF Typed, TaskSteps, env
<1>4. \A x \in Routings : FindPeerOf(x)' = FindPeerOf(x)
  BY <1>1 DEF env, FindPeerOf, PeXFindPeer, RequestPeX, NewPeXStreamHandler, FailedAnswer
<1>5. \A x \in Routings : task'[x] = "done" <=> task[x] = "done" \/ x = r
  BY <1>1 DEF Typed
<1>6. Exclusive' /\ CutByAnswer'
  BY <1>1, <1>2, <1>5 DEF IInv, Typed, Exclusive, CutByAnswer, Routings
<1>7. Answered'
  BY <1>1, <1>4 DEF IInv, Typed, Answered
<1>8. AnswersAreMerged'
  <2>1. {x \in Routings : task'[x] = "done"} = {x \in Routings : task[x] = "done"} \cup {r}
    BY <1>5
  <2>2. Merged' = Merged \cup answer[r]
    BY <1>1, <2>1 DEF Merged
  <2> QED BY <1>1, <1>2, <2>2 DEF IInv, AnswersAreMerged
<1> QED BY <1>3, <1>6, <1>7, <1>8 DEF IInv

LEMMA NextInv == IInv /\ [Next]_vars => IInv'
<1> SUFFICES ASSUME IInv, [Next]_vars PROVE IInv'
  OBVIOUS
<1>1. CASE \E r \in Routings : Answers(r) \/ Fails(r) \/ Lock(r) \/ Merge(r)
  BY <1>1, AnswersStep, LockStep, MergeStep
<1>2. CASE TimerFires \/ Timeout \/ Return \/ UNCHANGED vars
  <2>1. UNCHANGED <<env, task, answer, mutex, seen, info, timer>>
    BY <1>2 DEF TimerFires, Timeout, Return, vars
  <2>2. subCtx' = "answered" => timer \/ subCtx = "answered"
    BY <1>2 DEF TimerFires, Timeout, Return, vars
  <2>3. \A x \in Routings : FindPeerOf(x)' = FindPeerOf(x)
    BY <2>1 DEF env, FindPeerOf, PeXFindPeer, RequestPeX, NewPeXStreamHandler, FailedAnswer
  <2>4. Typed' /\ Exclusive' /\ Answered' /\ CutByAnswer' /\ AnswersAreMerged'
    BY <2>1, <2>2, <2>3
       DEF IInv, env, Typed, Exclusive, Answered, CutByAnswer, AnswersAreMerged, Merged
  <2> QED BY <2>4 DEF IInv
<1> QED BY <1>1, <1>2 DEF Next

LEMMA Invariance == Spec => []IInv
BY InitInv, NextInv, PTL DEF Spec

-----------------------------------------------------------------------------
\* Whatever the routings find, in whatever order they answer and merge, FindPeer
\* has exactly the addresses of the ones that are done.
THEOREM NoAnswerLost == Spec => []AnswersAreMerged
<1>1. IInv => AnswersAreMerged
  BY DEF IInv
<1> QED BY <1>1, Invariance, PTL

\* For any configuration: a search that was cut short without an address was cut
\* short by the empty answer of the first peer to peer exchange.
THEOREM OnlyPeXCutsEmpty == Spec => []EmptyCutIsPeX
<1>1. IInv => EmptyCutIsPeX
  <2> SUFFICES ASSUME IInv, subCtx = "answered", info = {}
               PROVE  /\ task["pex"] = "done"
                      /\ Head(vpnPeers) \in reachable \cap lists /\ knows[Head(vpnPeers)] = {}
    BY DEF EmptyCutIsPeX
  <2>1. PICK r \in Routings : task[r] = "done"
    BY DEF IInv, CutByAnswer
  <2>2. answer[r] = {}
    BY <2>1 DEF IInv, AnswersAreMerged, Merged
  <2>3. FindPeerOf(r).ok /\ FindPeerOf(r).addrs = {}
    BY <2>1, <2>2 DEF IInv, Answered
  <2>4. r = "pex"
    BY <2>3, ZenonT(30) DEF FindPeerOf, Routings
  <2>5. PeXFindPeer.ok /\ PeXFindPeer.addrs = {}
    BY <2>3, <2>4 DEF FindPeerOf
  <2>6. Head(vpnPeers) \in reachable \cap lists /\ knows[Head(vpnPeers)] = {}
    BY <2>5 DEF PeXFindPeer, RequestPeX, NewPeXStreamHandler, FailedAnswer
  <2> QED BY <2>1, <2>4, <2>6
<1> QED BY <1>1, Invariance, PTL

-----------------------------------------------------------------------------
(* Naming. *)

\* A number is the least of any set of them.
LEMMA LeastNumber ==
    ASSUME NEW T \in SUBSET Nat, T # {}
    PROVE  \E n \in T : \A m \in T : n <= m
<1>1. \E n \in T : \A m \in T : ~ (<<m, n>> \in OpToRel(<, Nat))
  BY NatLessThanWellFounded, WFMin, Zenon
<1>2. \A m, n \in T : <<m, n>> \in OpToRel(<, Nat) <=> m < n
  BY DEF OpToRel
<1>3. \E n \in T : \A m \in T : ~ (m < n)
  BY <1>1, <1>2, Zenon
<1>4. QED
  BY <1>3

\* Two entries cannot be the only one.
LEMMA AtMostOne ==
    ASSUME NEW n \in Nat, NEW T \in SUBSET (1..n), ~(Cardinality(T) > 1),
           NEW i \in T, NEW j \in T
    PROVE  i = j
<1> SUFFICES ASSUME i # j PROVE FALSE
  OBVIOUS
<1>1. IsFiniteSet(1..n)
  BY FS_Interval
<1>2. IsFiniteSet(T)
  BY <1>1, FS_Subset, Zenon
<1>3. IsFiniteSet({i}) /\ Cardinality({i}) = 1
  BY FS_Singleton, Zenon
<1>4. Cardinality({i} \cup {j}) = 2
  <2>1. Cardinality({i} \cup {j}) = IF j \in {i} THEN Cardinality({i}) ELSE Cardinality({i}) + 1
    BY <1>3, FS_AddElement, Zenon
  <2>2. QED
    BY <1>3, <2>1
<1>5. {i} \cup {j} \in SUBSET T
  OBVIOUS
<1>6. Cardinality({i} \cup {j}) <= Cardinality(T) /\ Cardinality(T) \in Nat
  BY <1>2, <1>5, FS_Subset, FS_CardinalityType, Zenon
<1>7. QED
  BY <1>4, <1>6

NamingTyped ==
    /\ input \in Seq(Peer) /\ peers \in Seq(Peer)
    /\ refs \in [Lists -> SUBSET Ref] /\ given \in [Lists -> SUBSET Ref]
    /\ acl \in [Lists -> SUBSET IDs]
    /\ step \in {"peers", "white", "black", "done", "failed"}

LabelsOf(i) == LowerCase(peers[i].name)

\* The last of the entries with the same labels is the one in ByName.
Entered ==
    \A i \in Named :
        (\A j \in Named : j > i => LabelsOf(j) # LabelsOf(i))
        => LabelsOf(i) \in DOMAIN byName /\ byName[LabelsOf(i)] = peers[i].id

\* The reference put a peer it denotes into the list.
Settles(l, r) ==
    \E i \in DOMAIN peers :
        /\ Denotes(r, peers[i]) /\ peers[i].id \in acl[l]
        /\ r.by = "prefix" => \A j \in DOMAIN peers : Denotes(r, peers[j]) => j = i

\* A reference put it there.
Justified(l, id) ==
    \E r \in given[l], i \in DOMAIN peers : Denotes(r, peers[i]) /\ peers[i].id = id

Resolved ==
    \A l \in Lists :
        /\ refs[l] \subseteq given[l]
        /\ \A r \in given[l] \ refs[l] : Settles(l, r)
        /\ \A id \in acl[l] : Justified(l, id)

\* The loops of Read follow each other.
InOrder ==
    /\ step = "peers" => refs = given /\ acl = [l \in Lists |-> {}]
    /\ step \in {"black", "done"} => refs["white"] = {}
    /\ step = "done" => refs["black"] = {}

NInv == NamingTyped /\ Entered /\ Resolved /\ InOrder

LEMMA NamingInitInv == NamingInit => NInv
<1> SUFFICES ASSUME NamingInit PROVE NInv
  OBVIOUS
<1>1. input \in Seq(Peer)
  BY NamingAssumption DEF NamingInit
<1>2. given \in [Lists -> SUBSET Ref]
  BY DEF NamingInit
<1>3. peers \in Seq(Peer) /\ DOMAIN peers = {}
  BY DEF NamingInit
<1>4. NamingTyped
  BY <1>1, <1>2, <1>3 DEF NamingInit, NamingTyped
<1>5. Entered
  BY <1>3 DEF Entered, Named
<1>6. Resolved
  BY <1>2 DEF NamingInit, Resolved
<1>7. InOrder
  BY DEF NamingInit, InOrder
<1>8. QED
  BY <1>4, <1>5, <1>6, <1>7 DEF NInv

\* A peer is read.
LEMMA ReadPeerStep ==
    ASSUME NInv, ReadPeer
    PROVE  NInv'
<1>1. PICK n \in Nat : n = Len(peers) /\ DOMAIN peers = 1..n /\ peers \in Seq(Peer)
  BY DEF NInv, NamingTyped
<1>2. PICK p \in Peer :
        /\ peers' = Append(peers, p)
        /\ byName' = IF p.name = NoName THEN byName ELSE Put(byName, LowerCase(p.name), p.id)
  <2>1. input[Len(peers) + 1] \in Peer
    BY <1>1 DEF ReadPeer, NInv, NamingTyped
  <2>2. QED
    BY <2>1, Zenon DEF ReadPeer
<1>3. UNCHANGED <<input, refs, given, acl, step>> /\ step = "peers"
  BY DEF ReadPeer
<1>4. /\ peers' \in Seq(Peer) /\ DOMAIN peers' = 1..(n + 1) /\ peers'[n + 1] = p
      /\ \A i \in 1..n : peers'[i] = peers[i]
  BY <1>1, <1>2
<1>5. NamingTyped'
  BY <1>3, <1>4, ZenonT(30) DEF NInv, NamingTyped
<1>6. ASSUME NEW i \in Named', \A j \in Named' : j > i => LabelsOf(j)' # LabelsOf(i)'
      PROVE  LabelsOf(i)' \in DOMAIN byName' /\ byName'[LabelsOf(i)'] = peers'[i].id
  <2>1. i \in 1..(n + 1) /\ peers'[i].name # NoName /\ LabelsOf(i)' = LowerCase(peers'[i].name)
    BY <1>4, ZenonT(30) DEF Named, LabelsOf
  <2>2. CASE i = n + 1
    BY <1>2, <1>4, <2>1, <2>2, ZenonT(30) DEF Put
  <2>3. CASE i \in 1..n
    <3>1. i \in Named /\ LabelsOf(i)' = LabelsOf(i) /\ peers'[i] = peers[i]
      BY <1>1, <1>4, <2>1, <2>3 DEF Named, LabelsOf
    <3>2. ASSUME NEW j \in Named, j > i
          PROVE  LabelsOf(j) # LabelsOf(i)
      <4>1. j \in Named' /\ LabelsOf(j)' = LabelsOf(j)
        BY <1>1, <1>4 DEF Named, LabelsOf
      <4>2. QED
        BY <1>6, <3>1, <3>2, <4>1
    <3>3. LabelsOf(i) \in DOMAIN byName /\ byName[LabelsOf(i)] = peers[i].id
      BY <3>1, <3>2 DEF NInv, Entered
    <3>4. CASE p.name = NoName
      BY <1>2, <3>1, <3>3, <3>4
    <3>5. CASE p.name # NoName
      <4>1. n + 1 \in Named' /\ n + 1 > i /\ LabelsOf(n + 1)' = LowerCase(p.name)
        BY <1>4, <2>3, <3>5 DEF Named, LabelsOf
      <4>2. LowerCase(p.name) # LabelsOf(i)
        BY <1>6, <3>1, <4>1
      <4>3. QED
        BY <1>2, <3>1, <3>3, <3>5, <4>2, ZenonT(30) DEF Put
    <3>6. QED
      BY <3>4, <3>5
  <2>4. QED
    BY <2>1, <2>2, <2>3
<1>7. Entered'
  BY <1>6 DEF Entered
<1>8. Resolved'
  BY <1>3 DEF NInv, InOrder, Resolved, Lists
<1>9. InOrder'
  BY <1>3, ZenonT(30) DEF NInv, InOrder
<1>10. QED
  BY <1>5, <1>7, <1>8, <1>9 DEF NInv

\* What a reference resolves to: an entry it denotes, and with a prefix the
\* only one.
LEMMA ResolvesTo ==
    ASSUME NInv, NEW r \in Ref, FindPeerByCLIRef(r).ids # {}
    PROVE  \E i \in DOMAIN peers :
             /\ FindPeerByCLIRef(r).ids = {peers[i].id} /\ Denotes(r, peers[i])
             /\ r.by = "prefix" => \A j \in DOMAIN peers : Denotes(r, peers[j]) => j = i
<1>1. PICK n \in Nat : DOMAIN peers = 1..n
  BY DEF NInv, NamingTyped
<1>2. CASE r.by = "name"
  <2> DEFINE at == {i \in DOMAIN peers : peers[i].name = r.name}
  <2>1. FindPeerByCLIRef(r) = IF at = {} THEN NotFound
                              ELSE Found(peers[CHOOSE i \in at : \A j \in at : i <= j])
    BY <1>2, Zenon DEF FindPeerByCLIRef, FindPeerByName
  <2>2. at # {} /\ at \in SUBSET Nat
    BY <1>1, <2>1 DEF NotFound
  <2>3. \E i \in at : \A j \in at : i <= j
    BY <2>2, LeastNumber, Zenon
  <2>4. PICK i \in at : i = CHOOSE k \in at : \A j \in at : k <= j
    BY <2>3, Zenon
  <2>5. FindPeerByCLIRef(r).ids = {peers[i].id}
    BY <2>1, <2>2, <2>4 DEF Found
  <2>6. QED
    BY <1>2, <2>5 DEF Denotes
<1>3. CASE r.by = "prefix"
  <2> DEFINE at == {i \in DOMAIN peers : peers[i].id \in Matches[r.prefix]}
  <2>1. FindPeerByCLIRef(r) = IF at = {} THEN NotFound
                              ELSE IF Cardinality(at) > 1 THEN Ambiguous
                              ELSE Found(peers[CHOOSE i \in at : TRUE])
    BY <1>3, Zenon DEF FindPeerByCLIRef, FindPeerByIDPrefix
  <2>2. at # {} /\ ~(Cardinality(at) > 1)
    BY <2>1 DEF NotFound, Ambiguous
  <2>3. PICK i \in at : i = CHOOSE k \in at : TRUE
    BY <2>2, Zenon
  <2>4. FindPeerByCLIRef(r).ids = {peers[i].id}
    BY <2>1, <2>2, <2>3 DEF Found
  <2>5. at \in SUBSET (1..n)
    BY <1>1
  <2>6. \A j \in at : j = i
    BY <2>2, <2>5, AtMostOne, Zenon
  <2>7. QED
    BY <1>3, <2>4, <2>6 DEF Denotes
<1>4. CASE r.by = "nothing"
  BY <1>4 DEF FindPeerByCLIRef, NotFound
<1>5. QED
  BY <1>2, <1>3, <1>4 DEF Ref

\* A reference is resolved.
LEMMA ReadRefStep ==
    ASSUME NInv, NEW l \in Lists, NEW r \in Ref, ReadRef(l, r)
    PROVE  NInv'
<1>1. UNCHANGED <<input, given, peers, byName>> /\ step = l /\ r \in refs[l]
  BY DEF ReadRef
<1>2. Entered'
  BY <1>1 DEF NInv, Entered, Named, LabelsOf
<1>3. CASE step' = "failed" /\ UNCHANGED <<acl, refs>>
  <2>1. Resolved'
    BY <1>1, <1>3 DEF NInv, Resolved, Settles, Justified
  <2>2. QED
    BY <1>1, <1>2, <1>3, <2>1, ZenonT(30) DEF NInv, NamingTyped, InOrder
<1>4. CASE /\ FindPeerByCLIRef(r).ids # {} /\ UNCHANGED step
           /\ acl' = [acl EXCEPT ![l] = @ \cup FindPeerByCLIRef(r).ids]
           /\ refs' = [refs EXCEPT ![l] = @ \ {r}]
  <2>1. PICK i \in DOMAIN peers :
          /\ FindPeerByCLIRef(r).ids = {peers[i].id} /\ Denotes(r, peers[i])
          /\ r.by = "prefix" => \A j \in DOMAIN peers : Denotes(r, peers[j]) => j = i
    BY <1>4, ResolvesTo, Zenon
  <2>2. PICK id \in IDs : id = peers[i].id
    <3>1. peers[i] \in Peer
      BY DEF NInv, NamingTyped
    <3>2. peers[i].id \in IDs
      BY <3>1, ZenonT(30) DEF Peer
    <3>3. QED
      BY <3>2, Zenon
  <2>3. /\ acl' = [acl EXCEPT ![l] = @ \cup {id}] /\ refs' = [refs EXCEPT ![l] = @ \ {r}]
        /\ acl \in [Lists -> SUBSET IDs] /\ refs \in [Lists -> SUBSET Ref]
    BY <1>4, <2>1, <2>2, ZenonT(30) DEF NInv, NamingTyped
  <2>4. NamingTyped'
    BY <1>1, <1>4, <2>3, SMTT(30) DEF NInv, NamingTyped
  <2>5. ASSUME NEW k \in Lists
        PROVE  /\ refs'[k] \subseteq given[k]
               /\ \A s \in given[k] \ refs'[k] : Settles(k, s)'
               /\ \A d \in acl'[k] : Justified(k, d)'
    <3>1. acl[k] \subseteq acl'[k]
      BY <2>3
    <3>2. \A s : Settles(k, s) => Settles(k, s)'
      BY <1>1, <3>1 DEF Settles, Denotes
    <3>3. \A d : Justified(k, d) => Justified(k, d)'
      BY <1>1, ZenonT(30) DEF Justified, Denotes
    <3>4. CASE k # l
      BY <2>3, <3>2, <3>3, <3>4, SMTT(30) DEF NInv, Resolved
    <3>5. CASE k = l
      <4>1. Settles(l, r)'
        <5>1. id \in acl'[l]
          BY <2>3
        <5>2. QED
          BY <1>1, <2>1, <2>2, <5>1, ZenonT(30) DEF Settles, Denotes
      <4>2. Justified(l, id)'
        <5>1. r \in given[l]
          BY <1>1, ZenonT(30) DEF NInv, Resolved
        <5>2. QED
          BY <1>1, <2>1, <2>2, <5>1, ZenonT(30) DEF Justified, Denotes
      <4>3. refs'[k] = refs[k] \ {r} /\ acl'[k] = acl[k] \cup {id}
        BY <2>3, <3>5, ZenonT(30)
      <4>4. QED
        BY <3>2, <3>3, <3>5, <4>1, <4>2, <4>3, ZenonT(30) DEF NInv, Resolved
    <3>6. QED
      BY <3>4, <3>5
  <2>6. Resolved'
    BY <1>1, <2>5, ZenonT(30) DEF Resolved
  <2>7. InOrder'
    BY <1>1, <1>4, <2>3 DEF NInv, InOrder, Lists
  <2>8. QED
    BY <1>2, <2>4, <2>6, <2>7 DEF NInv
<1>5. QED
  BY <1>3, <1>4, ZenonT(30) DEF ReadRef

\* Read goes on to its next loop, or gives up.
LEMMA LoopStep ==
    ASSUME NInv, NextLoop \/ Malformed \/ UNCHANGED namingVars
    PROVE  NInv'
<1>1. UNCHANGED <<input, refs, given, peers, byName, acl>>
  BY ZenonT(30) DEF NextLoop, Malformed, namingVars
<1>2. Entered' /\ Resolved'
  BY <1>1 DEF NInv, Entered, Named, LabelsOf, Resolved, Settles, Justified
<1>3. /\ step' \in {"peers", "white", "black", "done", "failed"}
      /\ step' = "peers" => step = "peers"
      /\ step' = "black" => step = "black" \/ refs["white"] = {}
      /\ step' = "done" => step = "done" \/ (step = "black" /\ refs["black"] = {})
  BY DEF NextLoop, Malformed, namingVars, NInv, NamingTyped
<1>4. NamingTyped' /\ InOrder'
  BY <1>1, <1>3 DEF NInv, NamingTyped, InOrder
<1>5. QED
  BY <1>2, <1>4 DEF NInv

LEMMA NamingInvariance == NamingSpec => []NInv
<1>1. NInv /\ [NamingNext]_namingVars => NInv'
  BY ReadPeerStep, ReadRefStep, LoopStep, ZenonT(30) DEF NamingNext
<1>2. QED
  BY <1>1, NamingInitInv, PTL DEF NamingSpec

\* For any configuration that is accepted: each reference of an access list put
\* in a peer it denotes, a prefix the only entry it denotes, and nothing else is
\* in the list.
THEOREM ListsFaithful == NamingSpec => []ListsAsGiven
<1>1. NInv => ListsAsGiven
  <2> SUFFICES ASSUME NInv, step = "done", NEW l \in Lists
               PROVE  /\ \A r \in given[l] : Settles(l, r)
                      /\ \A id \in acl[l] : Justified(l, id)
    BY DEF ListsAsGiven, Settles, Justified
  <2>1. refs[l] = {}
    BY DEF NInv, InOrder, Lists
  <2>2. QED
    BY <2>1, ZenonT(30) DEF NInv, Resolved
<1>2. QED
  BY <1>1, NamingInvariance, PTL

\* A name of one label is the sequence of that label, in any case.
LEMMA OneLabel ==
    ASSUME NEW n \in Names, Len(n) = 1
    PROVE  /\ Head(n) \in Labels /\ n = <<Head(n)>>
           /\ LowerCase(n) = <<Lower[Head(n)]>>
<1>1. n \in Seq(Labels)
  BY NamingAssumption
<1>2. Head(n) \in Labels /\ n = <<Head(n)>> /\ DOMAIN n = 1..1
  BY <1>1
<1>3. PICK x : x = Head(n) /\ n = <<x>>
  BY <1>2, Zenon
<1>4. [k \in DOMAIN <<x>> |-> Lower[<<x>>[k]]] = <<Lower[x]>>
  OBVIOUS
<1>5. QED
  BY <1>2, <1>3, <1>4, Zenon DEF LowerCase

\* The DNS server finds the entry of a label that is only a name.
LEMMA NameFound ==
    ASSUME NEW x, x \notin IDs \cup {Self}, Lower[x] # Hostname, <<Lower[x]>> \in DOMAIN byName
    PROVE  NodeOf(x) = {byName[<<Lower[x]>>]}
BY DEF NodeOf

LEMMA NamesMean ==
    ASSUME NInv, NEW i \in Named, OwnName(i)
    PROVE  /\ \A x \in Labels \ (IDs \cup {Self}) : Lower[x] = Lower[Head(peers[i].name)] =>
                /\ MagicDns(<<x>>) = Node(peers[i].id)
                /\ \A service \in Labels :
                     MagicDns(<<service, x>>) = ServiceOf(peers[i].id, service)
           /\ FindPeerByCLIRef([by |-> "name", name |-> peers[i].name]) = Found(peers[i])
<1>1. i \in DOMAIN peers /\ peers[i] \in Peer /\ peers[i].name \in Names
  <2>1. i \in DOMAIN peers /\ peers[i].name # NoName /\ peers \in Seq(Peer)
    BY DEF NInv, NamingTyped, Named
  <2>2. peers[i] \in Peer
    BY <2>1
  <2>3. peers[i].name \in Names
    BY <2>1, <2>2, ZenonT(30) DEF Peer
  <2>4. QED
    BY <2>1, <2>2, <2>3
<1>2. PICK label : /\ label = Lower[Head(peers[i].name)] /\ LabelsOf(i) = <<label>>
                   /\ label # Hostname
  BY <1>1, OneLabel DEF LabelsOf, OwnName
<1>3. <<label>> \in DOMAIN byName /\ byName[<<label>>] = peers[i].id
  <2>1. \A j \in Named : j > i => LabelsOf(j) # LabelsOf(i)
    <3>1. i \in Nat
      BY <1>1 DEF NInv, NamingTyped
    <3>2. ASSUME NEW j \in Named, j > i PROVE j \in DOMAIN peers \ {i}
      BY <3>1, <3>2 DEF Named
    <3>3. QED
      BY <3>2, Zenon DEF OwnName, LabelsOf
  <2>2. QED
    BY <1>2, <2>1, ZenonT(30) DEF NInv, Entered
<1>4. ASSUME NEW x \in Labels \ (IDs \cup {Self}), Lower[x] = label
      PROVE  NodeOf(x) = {peers[i].id}
  BY <1>2, <1>3, <1>4, NameFound
<1>5. ASSUME NEW x \in Labels \ (IDs \cup {Self}), Lower[x] = label,
             NEW q, Len(q) \in {1, 2}, q[Len(q)] = x
      PROVE  MagicDns(q) = IF Len(q) = 1 THEN Node(peers[i].id) ELSE ServiceOf(peers[i].id, q[1])
  <2>1. NodeOf(q[Len(q)]) = {peers[i].id}
    BY <1>4, <1>5
  <2>2. (CHOOSE id \in {peers[i].id} : TRUE) = peers[i].id
    OBVIOUS
  <2>3. /\ NodeOf(q[Len(q)]) # {}
        /\ (CHOOSE id \in NodeOf(q[Len(q)]) : TRUE) = peers[i].id
    BY <2>1, <2>2, Zenon
  <2>4. QED
    BY <1>5, <2>3, Zenon DEF MagicDns
<1>6. ASSUME NEW x \in Labels \ (IDs \cup {Self}), Lower[x] = label
      PROVE  MagicDns(<<x>>) = Node(peers[i].id)
  <2>1. PICK q : q = <<x>>
    BY ZenonT(30)
  <2>2. Len(q) = 1
    BY <2>1
  <2>3. Len(q) \in {1, 2} /\ q[Len(q)] = x
    BY <2>1
  <2>4. MagicDns(q) = IF Len(q) = 1 THEN Node(peers[i].id) ELSE ServiceOf(peers[i].id, q[1])
    BY <1>5, <1>6, <2>3, SMTT(30)
  <2>5. QED
    BY <2>1, <2>2, <2>4, Zenon
<1>7. ASSUME NEW x \in Labels \ (IDs \cup {Self}), Lower[x] = label, NEW service \in Labels
      PROVE  MagicDns(<<service, x>>) = ServiceOf(peers[i].id, service)
  <2>1. PICK q : q = <<service, x>>
    BY ZenonT(30)
  <2>2. Len(q) = 2 /\ q[1] = service
    BY <2>1
  <2>3. Len(q) \in {1, 2} /\ q[Len(q)] = x
    BY <2>1
  <2>4. MagicDns(q) = IF Len(q) = 1 THEN Node(peers[i].id) ELSE ServiceOf(peers[i].id, q[1])
    BY <1>5, <1>7, <2>3, SMTT(30)
  <2>5. ~(Len(q) = 1)
    BY <2>2
  <2>6. QED
    BY <2>1, <2>2, <2>4, <2>5, Zenon
<1>8. FindPeerByCLIRef([by |-> "name", name |-> peers[i].name]) = Found(peers[i])
  <2> DEFINE at == {j \in DOMAIN peers : peers[j].name = peers[i].name}
  <2>1. at = {i}
    <3>1. ASSUME NEW j \in DOMAIN peers, peers[j].name = peers[i].name PROVE j = i
      BY <3>1, Zenon DEF OwnName
    <3>2. QED
      BY <1>1, <3>1
  <2>2. (CHOOSE k \in at : \A j \in at : k <= j) = i
    <3>1. i \in Nat
      BY <1>1 DEF NInv, NamingTyped
    <3>2. QED
      BY <2>1, <3>1
  <2>3. QED
    BY <2>1, <2>2, ZenonT(30) DEF FindPeerByCLIRef, FindPeerByName
<1>9. QED
  BY <1>2, <1>6, <1>7, <1>8, Zenon

\* For any configuration that is accepted: a name of one label that nothing else
\* has means the same peer in the DNS, in any case, for its services and as a
\* reference.
THEOREM NamesMeanOnePeer == NamingSpec => []NamesAgree
<1>1. NInv => NamesAgree
  BY NamesMean DEF NamesAgree
<1>2. QED
  BY <1>1, NamingInvariance, PTL
=============================================================================
