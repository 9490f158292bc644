--------------------------- MODULE RoutingProofs ---------------------------
(***************************************************************************)
(* Proofs about RouteControl, for any networks, peers and clients.         *)
(*                                                                         *)
(* A Route call that runs alone keeps the kernel's routes and ByRoute in   *)
(* agreement, whatever overlapping calls did to other networks.            *)
(***************************************************************************)
EXTENDS RouteControl, TLAPS

Own == Networks \ ServiceNets

\* Between calls the tables agree about a network that no overlapping call named.
Settled == \A n \in Own : n \notin overlapped /\ ~InCall(n) => Agree(n)

\* A call on such a network is the only one, after the start of the node, and
\* nothing races with it.  Until Apply the tables agree; then the kernel has what
\* the call asked for, and ByRoute is about to follow.
Alone ==
    \A c \in Clients : Serving(c) /\ call[c].net \notin overlapped =>
        /\ Ready /\ c \notin raced
        /\ \A d \in Clients \ {c} : ~Serving(d)
        /\ call[c].step = "apply" /\ call[c].net \in Own => Agree(call[c].net)
        /\ call[c].step # "apply" => (call[c].net \in kernel <=> call[c].op = "add")

\* Only goroutines in the trie have raced there.
Racing == \A c \in raced : Serving(c) /\ call[c].step = "updating"

IInv == TypeOK /\ Settled /\ Alone /\ Racing

-----------------------------------------------------------------------------
\* A goroutine that serves has a call, and no call is the idle one.
LEMMA Serves ==
    /\ \A r \in Call :
         /\ r # Idle /\ r.step \in {"apply", "update", "updating"} /\ r.net \in Networks
         /\ r.op \in {"add", "del"} /\ r.peer \in Peers \cup {NoPeer}
         /\ r.op = "add" <=> r.peer # NoPeer
    /\ TypeOK => \A c \in Clients : Serving(c) => call[c] \in Call
BY RouteAssumption DEF Call, Idle, TypeOK, Serving

\* The next step of a call is one of the same call.
LEMMA NextStep ==
    ASSUME NEW r \in Call, NEW s \in {"update", "updating"}, NEW j, j = [r EXCEPT !.step = s]
    PROVE  j \in Call /\ j # Idle /\ j.step = s /\ j.net = r.net /\ j.op = r.op
BY DEF Call, Idle

\* The tables start in agreement, the kernel's routes being those to apply.
LEMMA InitInv == Init => IInv
<1> SUFFICES ASSUME Init PROVE IInv
  OBVIOUS
<1>1. \A c \in Clients : ~Serving(c)
  BY DEF Init, Serving
<1>2. TypeOK /\ Racing
  BY RouteAssumption DEF Init, TypeOK, Racing
<1>3. Settled
  BY RouteAssumption DEF Init, Settled, Own, Agree
<1> QED BY <1>1, <1>2, <1>3 DEF IInv, Alone

\* The start of the node: the routes pass from those to apply to the kernel.
LEMMA StartStep ==
    ASSUME IInv, Up \/ \E n \in Networks : ApplyRoute(n)
    PROVE  IInv'
<1> USE DEF IInv
<1>1. /\ UNCHANGED <<byRoute, call, raced, overlapped>>
      /\ ~Ready /\ kernel \cup routeOpts = kernel' \cup routeOpts'
  BY DEF Up, ApplyRoute, Ready
<1>2. TypeOK'
  BY <1>1 DEF Up, ApplyRoute, TypeOK
<1>3. Settled' /\ Racing'
  BY <1>1 DEF Settled, Racing, InCall, Serving, Agree
<1>4. \A c \in Clients : Serving(c) => call[c].net \in overlapped
  BY <1>1 DEF Alone
<1> QED BY <1>1, <1>2, <1>3, <1>4 DEF Alone, Serving

\* A call begins, alone or not.
LEMMA BeginStep ==
    ASSUME IInv, NEW c \in Clients, NEW r \in Call, r.step = "apply", Begin(c, r)
    PROVE  IInv'
<1> USE DEF IInv
<1> DEFINE others == {d \in Clients : Serving(d)}
<1>a. r # Idle /\ r.net \in Networks /\ \A d \in others : call[d].net \in Networks
  BY Serves
<1>b. /\ call \in [Clients -> Call \cup {Idle}] /\ overlapped \subseteq Networks
      /\ call' = [call EXCEPT ![c] = r] /\ ~Serving(c)
      /\ UNCHANGED <<kernel, byRoute, link, routeOpts, raced, process>>
      /\ overlapped' = overlapped \cup {call[d].net : d \in others}
                          \cup (IF others = {} /\ Ready THEN {} ELSE {r.net})
  BY DEF Begin, TypeOK
<1> HIDE DEF others
<1>0. /\ \A d \in others : call[d].net \in overlapped'
      /\ overlapped \subseteq overlapped'
      /\ r.net \notin overlapped' => others = {} /\ Ready
      /\ overlapped' \subseteq Networks
  BY <1>a, <1>b
<1>1. /\ \A d \in Clients : Serving(d)' <=> d = c \/ Serving(d)
      /\ \A d \in Clients \ {c} : call'[d] = call[d]
      /\ call'[c] = r
  BY <1>a, <1>b DEF Serving
<1>2. TypeOK' /\ Racing'
  BY <1>0, <1>b, <1>1 DEF TypeOK, Racing
<1>3. Settled'
  <2>1. ASSUME NEW n \in Own, n \notin overlapped', ~InCall(n)' PROVE Agree(n)
    <3>1. ~InCall(n)
      BY <1>0, <1>b, <1>1, <2>1 DEF InCall
    <3> QED BY <1>0, <1>b, <2>1, <3>1 DEF Settled
  <2> QED BY <1>0, <1>b, <2>1 DEF Settled, Agree
<1>4. Alone'
  <2> SUFFICES ASSUME NEW d \in Clients, Serving(d)', call'[d].net \notin overlapped'
               PROVE  /\ Ready /\ d \notin raced
                      /\ \A e \in Clients \ {d} : ~Serving(e)'
                      /\ call'[d].step = "apply" /\ (call'[d].net \in Own => Agree(call'[d].net))
    BY <1>0, <1>b DEF Alone, Ready, Agree, Own
  <2>1. d = c
    BY <1>0, <1>b, <1>1 DEF others
  <2>2. others = {} /\ Ready
    BY <1>0, <1>b, <1>1, <2>1
  <2>3. c \notin raced
    BY <1>0, <1>b DEF Racing
  <2>4. r.net \in Own => Agree(r.net)
    BY <1>0, <1>b, <1>1, <2>1, <2>2 DEF others, Settled, InCall
  <2> QED BY <1>1, <2>1, <2>2, <2>3, <2>4 DEF others
<1> QED BY <1>2, <1>3, <1>4

\* A call goes on, or ends.  If others overlapped it, the tables may disagree
\* about its network, which then is one of those named; if none did, the step it
\* takes is the next of the two changes.
LEMMA CallStep ==
    ASSUME IInv, NEW c \in Clients, ApplyFails(c) \/ Apply(c) \/ Enter(c) \/ Leave(c)
    PROVE  IInv'
<1> USE DEF IInv
<1>a. Serving(c) /\ call[c] \in Call
  BY Serves DEF ApplyFails, Apply, Enter, Leave
<1>b. PICK k \in Call, m \in Networks : k = call[c] /\ m = k.net
  BY <1>a, Serves
<1>0. /\ call \in [Clients -> Call \cup {Idle}] /\ byRoute \in [Networks -> Peers \cup {NoPeer}]
      /\ Serving(c) /\ call[c] = k /\ k.net = m /\ k.op \in {"add", "del"}
      /\ k.peer \in Peers \cup {NoPeer} /\ (k.op = "add" <=> k.peer # NoPeer)
      /\ k.step \in {"apply", "update", "updating"}
  BY <1>a, <1>b, Serves DEF TypeOK
<1>1. /\ UNCHANGED <<link, routeOpts, overlapped, process>>
      /\ \A d \in Clients \ {c} : call'[d] = call[d]
      /\ \A n \in Networks \ {m} : (n \in kernel' <=> n \in kernel) /\ byRoute'[n] = byRoute[n]
  BY <1>0 DEF ApplyFails, Apply, Enter, Leave, Update
<1>c. call' = [call EXCEPT ![c] = call'[c]]
      /\ \/ call'[c] = Idle /\ (ApplyFails(c) \/ Leave(c))
         \/ call'[c] = [k EXCEPT !.step = "update"] /\ Apply(c)
         \/ call'[c] = [k EXCEPT !.step = "updating"] /\ Enter(c)
  BY <1>0 DEF ApplyFails, Apply, Enter, Leave
<1>d. ASSUME NEW s \in {"update", "updating"}, call'[c] = [k EXCEPT !.step = s]
      PROVE  /\ call'[c] \in Call /\ call'[c] # Idle /\ call'[c].step = s
             /\ call'[c].net = m /\ call'[c].op = k.op
  BY <1>0, <1>d, NextStep
<1>2. /\ call' \in [Clients -> Call \cup {Idle}]
      /\ \/ call'[c] = Idle
         \/ call'[c] \in Call /\ call'[c].net = m /\ call'[c].op = k.op /\ call'[c] # Idle
  BY <1>0, <1>c, <1>d
<1>3. /\ kernel' \subseteq Networks /\ byRoute' \in [Networks -> Peers \cup {NoPeer}]
      /\ raced' \subseteq Clients
  BY <1>0 DEF ApplyFails, Apply, Enter, Leave, Update, TypeOK
<1>4. TypeOK'
  BY <1>1, <1>2, <1>3 DEF TypeOK
<1>5. Racing'
  <2>1. ASSUME NEW d \in raced', d # c PROVE Serving(d) /\ call[d].step = "updating" /\ d \in Clients
    BY <2>1 DEF ApplyFails, Apply, Enter, Leave, Racing, TypeOK
  <2>2. c \in raced' => Enter(c)
    BY <1>0 DEF ApplyFails, Apply, Leave, Racing
  <2>3. Enter(c) => call'[c].step = "updating" /\ call'[c] # Idle
    BY <1>0, <1>c, <1>d DEF Enter, Apply, ApplyFails, Leave
  <2> QED BY <1>1, <2>1, <2>2, <2>3 DEF Racing, Serving
<1>6. ASSUME NEW n \in Networks \ {m} PROVE (InCall(n)' <=> InCall(n)) /\ (Agree(n)' <=> Agree(n))
  BY <1>0, <1>1, <1>2 DEF InCall, Serving, Agree
<1>7. CASE m \in overlapped
  <2>1. Settled'
    BY <1>1, <1>6, <1>7 DEF Settled, Own
  <2>2. \A d \in Clients : Serving(d)' => call'[d].net \in overlapped
    BY <1>0, <1>1, <1>2, <1>7 DEF Alone, Serving
  <2> QED BY <1>1, <1>4, <1>5, <2>1, <2>2 DEF Alone
<1>8. CASE m \notin overlapped
  <2>0. /\ Ready /\ c \notin raced /\ \A d \in Clients \ {c} : ~Serving(d)
        /\ k.step = "apply" /\ m \in Own => Agree(m)
        /\ k.step # "apply" => (m \in kernel <=> k.op = "add")
    BY <1>0, <1>8, SMTT(30) DEF Alone
  <2>1. \A d \in Clients \ {c} : ~Serving(d)'
    BY <1>1, <2>0 DEF Serving
  <2>2. CASE ApplyFails(c)
    <3>1. ~Serving(c)' /\ UNCHANGED <<kernel, byRoute, routeOpts>> /\ k.step = "apply"
      BY <1>0, <2>2 DEF ApplyFails, Serving
    <3>2. m \in Own => Agree(m)'
      BY <2>0, <3>1 DEF Agree
    <3> QED BY <1>1, <1>4, <1>5, <1>6, <2>1, <3>1, <3>2 DEF Settled, Alone, Own
  <2>3. CASE Apply(c) \/ Enter(c)
    <3>1. /\ Serving(c)' /\ call'[c].net = m /\ call'[c].op = k.op
          /\ call'[c].step \in {"update", "updating"}
      BY <1>0, <1>c, <1>d, <2>3 DEF ApplyFails, Apply, Enter, Leave, Serving
    <3>2. (m \in kernel' <=> k.op = "add") /\ c \notin raced'
      BY <1>0, <2>0, <2>3 DEF Apply, Enter
    <3>3. Settled'
      BY <1>1, <1>6, <3>1 DEF Settled, InCall, Own
    <3>4. Alone'
      BY <1>1, <2>0, <2>1, <3>1, <3>2, SMTT(30) DEF Alone, Ready
    <3> QED BY <1>4, <1>5, <3>3, <3>4, SMTT(30)
  <2>4. CASE Leave(c)
    <3>1. ~Serving(c)' /\ byRoute'[m] = k.peer /\ UNCHANGED kernel /\ k.step = "updating"
      BY <1>0, <2>0, <2>4 DEF Leave, Update, Serving
    <3>2. Agree(m)'
      BY <1>0, <1>1, <2>0, <3>1 DEF Agree, Ready
    <3> QED BY <1>1, <1>4, <1>5, <1>6, <2>1, <3>1, <3>2 DEF Settled, Alone, Own
  <2> QED BY <2>2, <2>3, <2>4
<1> QED BY <1>7, <1>8

\* A lookup changes no table.
LEMMA StillStep ==
    ASSUME IInv, UNCHANGED <<kernel, byRoute, link, routeOpts, call, raced, overlapped>>,
           process' \in {process, "panic"}
    PROVE  IInv'
BY DEF IInv, TypeOK, Settled, Alone, Racing, InCall, Serving, Agree, Ready

\* Every step of the node keeps the invariant.
LEMMA NextInv == IInv /\ [Next]_vars => IInv'
<1> SUFFICES ASSUME IInv, [Next]_vars PROVE IInv'
  OBVIOUS
<1>1. ASSUME NEW c \in Clients, NEW n \in Networks, Del(c, n) PROVE IInv'
  <2>1. [step |-> "apply", op |-> "del", net |-> n, peer |-> NoPeer] \in Call
    BY DEF Call
  <2> QED BY <1>1, <2>1, BeginStep DEF Del
<1>2. ASSUME NEW c \in Clients, NEW n \in Networks, NEW p \in Peers, Add(c, n, p) PROVE IInv'
  <2>1. [step |-> "apply", op |-> "add", net |-> n, peer |-> p] \in Call
    BY DEF Call
  <2> QED BY <1>2, <2>1, BeginStep DEF Add
<1>3. ASSUME NEW a \in Addresses, FindRouteForIP(a) PROVE IInv'
  BY <1>3, StillStep DEF FindRouteForIP
<1>4. CASE UNCHANGED vars
  BY <1>4, StillStep DEF vars
<1> QED BY <1>1, <1>2, <1>3, <1>4, StartStep, CallStep DEF Next

\* The two tables and the calls keep their types.
THEOREM TypeCorrect == Spec => []TypeOK
<1>1. IInv => TypeOK
  BY DEF IInv
<1> QED BY <1>1, InitInv, NextInv, PTL DEF Spec

\* For any number of concurrent Route calls on any networks: the tables agree
\* about every network whose calls ran alone.
THEOREM SoloCallsSafe == Spec => []SoloCallsAgree
<1>1. IInv => SoloCallsAgree
  BY DEF IInv, Settled, SoloCallsAgree, Own
<1> QED BY <1>1, InitInv, NextInv, PTL DEF Spec
=============================================================================
