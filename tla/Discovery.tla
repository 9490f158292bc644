----------------------------- MODULE Discovery -----------------------------
(***************************************************************************)
(* How a node finds its peers and stays connected to them: the rounds of   *)
(* Discover and the requests of Rediscover, mDNS (p2p/discover.go), the    *)
(* exchange of addresses when a peer comes or goes (PeXService in          *)
(* p2p/pex.go), and the gaters every dial has to pass (p2p/filter.go,      *)
(* multigater.go, routing.go).                                             *)
(*                                                                         *)
(* Whether a dial succeeds is not determined: peers come and go.  The      *)
(* ticker fires at any time: its intervals are not modelled.               *)
(***************************************************************************)
EXTENDS Naturals, Sequences

CONSTANTS
    vpnPeers,     \* the peers of the configuration, in order
    Strangers,    \* peers that only others have in theirs
    Addrs,        \* addresses
    AddrsOf,      \* AddrsOf[p]: the addresses of peer p
    IP4,          \* those of them that are IPv4 addresses
    Routable,     \* addresses that a route to their own peer may come to cover
    Filtered,     \* addresses in the networks of the FilterGater
    Known,        \* Known[q]: the peers whose addresses q passes on
    Askers        \* goroutines that may call Rediscover

PeerIDs == {vpnPeers[i] : i \in 1..Len(vpnPeers)}
Everyone == PeerIDs \cup Strangers

ASSUME DiscoveryAssumption ==
    /\ Len(vpnPeers) > 0 /\ Strangers \cap PeerIDs = {}
    /\ AddrsOf \in [PeerIDs -> SUBSET Addrs] /\ IP4 \cup Routable \cup Filtered \subseteq Addrs
    /\ Known \in [PeerIDs -> SUBSET Everyone]

VARIABLES
    connected,       \* those of vpnPeers this node is connected to
    tunnelled,       \* addresses that a route to their own peer covers
    round,           \* Discover: 0 in its select, else the peer it is at
    ticker,          \* "armed" or "due"
    asks,            \* goroutines that wait in Rediscover
    news,            \* the change of a peer that PeXService has not handled
    asked,           \* the peers that a RequestPeX is asking
    dialling,        \* the peers that a goroutine of host.Connect dials
    cancelled        \* the node's context is

discover == <<round, ticker>>
exchange == <<asked, dialling>>
discoveryVars == <<connected, tunnelled, discover, asks, news, exchange, cancelled>>

DiscoveryInit ==
    /\ connected = {} /\ tunnelled = {}
    /\ round = 0 /\ ticker = "armed"
    /\ asks = {}
    /\ news = [p \in PeerIDs |-> "none"]
    /\ asked = {} /\ dialling = {}
    /\ cancelled = FALSE

Left == Len(vpnPeers) + 2     \* Discover returned

-----------------------------------------------------------------------------
(* The gaters and the connections. *)

FilterGater(p, a) == a \notin Filtered

\* Only an address the kernel says it sends to the TUN device is refused: found is
\* FALSE when RouteGet fails or returns nothing.
RecursionGater(p, a, found) == ~(a \in IP4 /\ a \in tunnelled /\ found)

\* MultiGater: all have to agree.
InterceptAddrDial(p, a, found) == FilterGater(p, a) /\ RecursionGater(p, a, found)

\* The event bus keeps the last change of a peer until its subscribers take it.
Connect(p) ==
    /\ connected' = connected \cup {p}
    /\ news' = [news EXCEPT ![p] = "Connected"]

\* host.Connect: nothing to do, a new connection, or an error.
DialNew(p) ==
    /\ p \notin connected
    /\ \E a \in AddrsOf[p], found \in BOOLEAN : InterceptAddrDial(p, a, found)
    /\ Connect(p)
Dial(p) == DialNew(p) \/ (p \in connected /\ UNCHANGED <<connected, news>>)
DialFails(p) == p \notin connected /\ UNCHANGED <<connected, news>>

\* A peer connects to this node: RecursionGater agrees to any, FilterGater does
\* not if the remote address is filtered.
Accept(p) ==
    /\ p \notin connected
    /\ \E a \in AddrsOf[p] : FilterGater(p, a)
    /\ Connect(p)
    /\ UNCHANGED <<tunnelled, discover, asks, exchange, cancelled>>

Disconnect(p) ==
    /\ p \in connected
    /\ connected' = connected \ {p}
    /\ news' = [news EXCEPT ![p] = "NotConnected"]
    /\ UNCHANGED <<tunnelled, discover, asks, exchange, cancelled>>

\* Run's Apply or a Route call puts up or takes down a route through the tunnel.
\* The connections there are stay: the gaters see an address when it is dialled.
ChangeRoute(a) ==
    /\ a \in Routable
    /\ tunnelled' = IF a \in tunnelled THEN tunnelled \ {a} ELSE tunnelled \cup {a}
    /\ UNCHANGED <<connected, discover, asks, news, exchange, cancelled>>

-----------------------------------------------------------------------------
(* Discover. *)

\* A tick during a round is lost: Reset empties the channel of the ticker.
Tick ==
    /\ round = 0 /\ ticker = "armed"
    /\ ticker' = "due"
    /\ UNCHANGED <<connected, tunnelled, round, asks, news, exchange, cancelled>>

\* case <-ticker.C
StartRound ==
    /\ round = 0 /\ ticker = "due"
    /\ round' = 1 /\ ticker' = "armed"
    /\ UNCHANGED <<connected, tunnelled, asks, news, exchange, cancelled>>

\* Defect used to test the properties: the error of a peer ends the round.
TryPeerBreaks ==
    /\ round \in 1..Len(vpnPeers)
    /\ \/ Dial(vpnPeers[round]) /\ round' = round + 1
       \/ DialFails(vpnPeers[round]) /\ round' = Len(vpnPeers) + 1
    /\ UNCHANGED <<tunnelled, ticker, asks, exchange, cancelled>>

TryPeer ==
    /\ round \in 1..Len(vpnPeers)
    /\ Dial(vpnPeers[round]) \/ DialFails(vpnPeers[round])
    /\ round' = round + 1
    /\ UNCHANGED <<tunnelled, ticker, asks, exchange, cancelled>>

\* Defect used to test the properties: without a connection the round starts over.
EndRoundRepeats ==
    /\ round = Len(vpnPeers) + 1
    /\ ticker' = "armed"
    /\ round' = IF connected # {} THEN 0 ELSE 1
    /\ UNCHANGED <<connected, tunnelled, asks, news, exchange, cancelled>>

\* Bootstrap and RefreshRoutingTable are the DHT's; then the ticker is reset, to
\* an interval that depends on whether a dial of the round succeeded.
EndRound ==
    /\ round = Len(vpnPeers) + 1
    /\ ticker' = "armed" /\ round' = 0
    /\ UNCHANGED <<connected, tunnelled, asks, news, exchange, cancelled>>

\* case <-discoverNow, which releases a goroutine in Rediscover.
TakeRequest(g) ==
    /\ round = 0 /\ g \in asks
    /\ asks' = asks \ {g}
    /\ ticker' = "armed"
    /\ UNCHANGED <<connected, tunnelled, round, news, exchange, cancelled>>

DiscoverReturns ==
    /\ round = 0 /\ cancelled
    /\ round' = Left
    /\ UNCHANGED <<connected, tunnelled, ticker, asks, news, exchange, cancelled>>

\* sendPacket could not open a stream, or SIGUSR1 arrived.
Rediscover(g) ==
    /\ g \notin asks
    /\ asks' = asks \cup {g}
    /\ UNCHANGED <<connected, tunnelled, discover, news, exchange, cancelled>>

\* mDNS: a peer of the configuration is announced on the local network.
HandlePeerFound(p) ==
    /\ dialling' = dialling \cup {p}
    /\ UNCHANGED <<connected, tunnelled, discover, asks, news, asked, cancelled>>

-----------------------------------------------------------------------------
(* PeXService. *)

\* A peer that came is asked; when one went, the first of all peers is.  What it
\* hears of strangers it ignores.
PeXService(p) ==
    /\ ~cancelled /\ news[p] # "none"
    /\ news' = [news EXCEPT ![p] = "none"]
    /\ asked' = asked \cup {IF news[p] = "Connected" THEN p ELSE Head(vpnPeers)}
    /\ UNCHANGED <<connected, tunnelled, discover, asks, dialling, cancelled>>

\* NewStream dials a peer that is not connected.
PeXDials(q) ==
    /\ q \in asked
    /\ DialNew(q)
    /\ UNCHANGED <<tunnelled, discover, asks, exchange, cancelled>>

\* Defect used to test the properties: the peer is asked again and again.
PeXAnswersAgain(q) ==
    /\ q \in asked /\ q \in connected
    /\ dialling' = dialling \cup Known[q]
    /\ UNCHANGED <<connected, tunnelled, discover, asks, news, asked, cancelled>>

\* RequestPeX returns; each peer it names, stranger or not, is dialled on a
\* goroutine of its own.
PeXAnswers(q) ==
    /\ q \in asked /\ q \in connected
    /\ asked' = asked \ {q}
    /\ dialling' = dialling \cup Known[q]
    /\ UNCHANGED <<connected, tunnelled, discover, asks, news, cancelled>>

PeXFails(q) ==
    /\ q \in asked
    /\ asked' = asked \ {q}
    /\ UNCHANGED <<connected, tunnelled, discover, asks, news, dialling, cancelled>>

DialReturns(p) ==
    /\ p \in dialling
    /\ IF p \in PeerIDs THEN Dial(p) \/ DialFails(p) ELSE UNCHANGED <<connected, news>>
    /\ dialling' = dialling \ {p}
    /\ UNCHANGED <<tunnelled, discover, asks, asked, cancelled>>

-----------------------------------------------------------------------------
\* Node.Stop cancels the context.
Cancel ==
    /\ ~cancelled
    /\ cancelled' = TRUE
    /\ UNCHANGED <<connected, tunnelled, discover, asks, news, exchange>>

Discover == StartRound \/ TryPeer \/ EndRound \/ DiscoverReturns
Exchange(p) == PeXService(p) \/ PeXDials(p) \/ PeXAnswers(p) \/ PeXFails(p)

DiscoveryNext ==
    \/ Tick \/ Discover \/ Cancel
    \/ \E g \in Askers : Rediscover(g) \/ TakeRequest(g)
    \/ \E a \in Addrs : ChangeRoute(a)
    \/ \E p \in PeerIDs : Accept(p) \/ Disconnect(p) \/ HandlePeerFound(p) \/ Exchange(p)
    \/ \E p \in Everyone : DialReturns(p)

DiscoverySpec == DiscoveryInit /\ [][DiscoveryNext]_discoveryVars

\* Dials and requests return, and the goroutines run.  The interval of the ticker
\* passes unless a request sets it anew, to a millisecond, before it has.  A select with several ready cases picks one at
\* random, and the senders on a channel are served in turn, so that none that is
\* ready again and again waits for ever.
Fairness ==
    /\ WF_discoveryVars(Tick \/ \E g \in Askers : TakeRequest(g)) /\ SF_discoveryVars(StartRound) /\ WF_discoveryVars(TryPeer)
    /\ WF_discoveryVars(EndRound) /\ WF_discoveryVars(DiscoverReturns)
    /\ \A g \in Askers : SF_discoveryVars(TakeRequest(g))
    /\ \A p \in PeerIDs :
         WF_discoveryVars(PeXService(p)) /\ WF_discoveryVars(PeXAnswers(p) \/ PeXFails(p))
    /\ \A p \in Everyone : WF_discoveryVars(DialReturns(p))

FairSpec == DiscoverySpec /\ Fairness

-----------------------------------------------------------------------------
(* Properties. *)

\* A peer that is not connected is dialled again and again until the node stops,
\* whatever the dials of other peers come to.  One thing can keep a round from
\* starting: requests that never cease, for each rearms the ticker, although
\* its comment says that it immediately triggers discovery.
PeersAreTried ==
    \A i \in 1..Len(vpnPeers) :
        \/ []<>(round = i \/ vpnPeers[i] \in connected)
        \/ []<>(asks # {})
        \/ <>cancelled

\* discoverNow has no buffer, and nobody takes from it during a round.  All the
\* same each goroutine in Rediscover, one for each packet that could not be sent,
\* gets rid of its request, unless the node stops: none of them stays behind.
RequestsAreTaken == \A g \in Askers : g \in asks ~> (g \notin asks \/ cancelled)

\* Exchange makes connections, and a connection makes exchange.  It dies down:
\* once the peers stay connected, no more requests for addresses are made.
ExchangeSettles ==
    \/ []<>(connected # PeerIDs)
    \/ <>[](asked = {} /\ (cancelled \/ \A p \in PeerIDs : news[p] = "none"))
=============================================================================
