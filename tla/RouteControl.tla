---------------------------- MODULE RouteControl ----------------------------
(***************************************************************************)
(* The two route tables of a node: the routes of the kernel that lead to   *)
(* the TUN device, and PeerLookup.ByRoute, which names the peer of each    *)
(* network.  Run fills the first from the second (node/node.go); the Route *)
(* calls of the RPC server, which net/rpc runs concurrently, change both   *)
(* (rpc/server.go); the packet loop and the connection gater look          *)
(* addresses up in the second (config/config.go).                          *)
(*                                                                         *)
(* ByRoute has no lock.  Changes of the trie that overlap race: each may   *)
(* take effect or be lost.                                                 *)
(***************************************************************************)
EXTENDS Naturals, FiniteSets

CONSTANTS
    Networks, Addresses,
    Contains,     \* Contains[n]: the addresses of network n
    Peers,        \* the peers of the configuration
    Configured,   \* Configured[n]: the peer of n in the configuration, or NoPeer
    ServiceNets,  \* the networks of the service network, which have no peer
    Clients,      \* goroutines that serve Route calls
    NoPeer

ASSUME RouteAssumption ==
    /\ Contains \in [Networks -> SUBSET Addresses]
    /\ NoPeer \notin Peers
    /\ Configured \in [Networks -> Peers \cup {NoPeer}]
    /\ ServiceNets \subseteq {n \in Networks : Configured[n] = NoPeer}

VARIABLES
    kernel,      \* networks the kernel routes to the TUN device
    byRoute,     \* PeerLookup.ByRoute; NoPeer where the trie has no entry
    link,        \* the TUN device is "down" or "up"
    routeOpts,   \* Run: the routes Apply has still to add
    call,        \* the Route call each goroutine serves, and its next step
    raced,       \* goroutines in the trie that were not there alone
    overlapped,  \* networks named by a call that did not run alone
    process      \* "running", or how it ended

vars == <<kernel, byRoute, link, routeOpts, call, raced, overlapped, process>>

Idle == [step |-> "idle"]
Call == [step : {"apply", "update", "updating"}, op : {"add"}, net : Networks, peer : Peers]
        \cup [step : {"apply", "update", "updating"}, op : {"del"}, net : Networks, peer : {NoPeer}]

TypeOK ==
    /\ kernel \subseteq Networks
    /\ byRoute \in [Networks -> Peers \cup {NoPeer}]
    /\ link \in {"down", "up"}
    /\ routeOpts \subseteq Networks
    /\ call \in [Clients -> Call \cup {Idle}]
    /\ raced \subseteq Clients
    /\ overlapped \subseteq Networks
    /\ process \in {"running", "runFailed", "panic"}

\* Run has read the configuration and collected the routes to apply.
Init ==
    /\ kernel = {}
    /\ byRoute = Configured
    /\ link = "down"
    /\ routeOpts = {n \in Networks : Configured[n] # NoPeer} \cup ServiceNets
    /\ call = [c \in Clients |-> Idle]
    /\ raced = {} /\ overlapped = {}
    /\ process = "running"

Running == process = "running"
Serving(c) == call[c] # Idle
Ready == link = "up" /\ routeOpts = {}

-----------------------------------------------------------------------------
(* Run, after it started the RPC server. *)

Up ==
    /\ Running /\ link = "down"
    /\ link' = "up"
    /\ UNCHANGED <<kernel, byRoute, routeOpts, call, raced, overlapped, process>>

\* Apply adds one of the routes; one that is there already is an error, and
\* Run gives up.
ApplyRoute(n) ==
    /\ Running /\ link = "up" /\ n \in routeOpts
    /\ routeOpts' = routeOpts \ {n}
    /\ kernel' = kernel \cup {n}
    /\ process' = IF n \in kernel THEN "runFailed" ELSE process
    /\ UNCHANGED <<byRoute, link, call, raced, overlapped>>

-----------------------------------------------------------------------------
(* HyprspaceRPC.Route.  Calls with bad arguments return before any of this. *)

Begin(c, request) ==
    /\ Running /\ ~Serving(c)
    /\ call' = [call EXCEPT ![c] = request]
    /\ overlapped' = LET others == {d \in Clients : Serving(d)} IN
           overlapped \cup {call[d].net : d \in others}
                      \cup (IF others = {} /\ Ready THEN {} ELSE {request.net})
    /\ UNCHANGED <<kernel, byRoute, link, routeOpts, raced, process>>

\* Defect used to test the properties: a reference that no peer matches is not
\* refused, and the target is nil.
AddUnresolved(c, n, p) ==
    \E q \in {p, NoPeer} : Begin(c, [step |-> "apply", op |-> "add", net |-> n, peer |-> q])

Add(c, n, p) == Begin(c, [step |-> "apply", op |-> "add", net |-> n, peer |-> p])
Del(c, n) == Begin(c, [step |-> "apply", op |-> "del", net |-> n, peer |-> NoPeer])

\* netlink.RouteAdd fails on a route that exists and while the device is down,
\* netlink.RouteDel on one that does not exist.
KernelRefuses(c) ==
    IF call[c].op = "add" THEN call[c].net \in kernel \/ link = "down"
                          ELSE call[c].net \notin kernel

\* The call returns the error of Apply, and has changed nothing.
ApplyFails(c) ==
    /\ Running /\ Serving(c) /\ call[c].step = "apply"
    /\ KernelRefuses(c)
    /\ call' = [call EXCEPT ![c] = Idle]
    /\ UNCHANGED <<kernel, byRoute, link, routeOpts, raced, overlapped, process>>

Apply(c) ==
    /\ Running /\ Serving(c) /\ call[c].step = "apply"
    /\ ~KernelRefuses(c)
    /\ kernel' = IF call[c].op = "add" THEN kernel \cup {call[c].net}
                                       ELSE kernel \ {call[c].net}
    /\ call' = [call EXCEPT ![c].step = "update"]
    /\ UNCHANGED <<byRoute, link, routeOpts, raced, overlapped, process>>

\* ByRoute.Insert or ByRoute.Remove begins.
Enter(c) ==
    /\ Running /\ Serving(c) /\ call[c].step = "update"
    /\ call' = [call EXCEPT ![c].step = "updating"]
    /\ raced' = LET inside == {d \in Clients : Serving(d) /\ call[d].step = "updating"} IN
           raced \cup inside \cup (IF inside = {} THEN {} ELSE {c})
    /\ UNCHANGED <<kernel, byRoute, link, routeOpts, overlapped, process>>

\* Defect used to test the properties: Del leaves the entry in the trie.
UpdateAddsOnly(c) ==
    byRoute' = IF call[c].op = "add" THEN [byRoute EXCEPT ![call[c].net] = call[c].peer]
                                     ELSE byRoute

\* Insert replaces an entry of the same network, Remove of a missing entry is
\* not an error.
Update(c) == byRoute' = [byRoute EXCEPT ![call[c].net] = call[c].peer]

\* ... and ends; the call returns without an error.  Remove never gives one, so
\* that the branch of Del that puts the kernel's route back is not taken.
Leave(c) ==
    /\ Running /\ Serving(c) /\ call[c].step = "updating"
    /\ Update(c) \/ (c \in raced /\ UNCHANGED byRoute)
    /\ raced' = raced \ {c}
    /\ call' = [call EXCEPT ![c] = Idle]
    /\ UNCHANGED <<kernel, link, routeOpts, overlapped, process>>

-----------------------------------------------------------------------------
(* FindRouteForIP, for a packet or for an address the gater is asked about. *)

ContainingNetworks(a) == {n \in Networks : byRoute[n] # NoPeer /\ a \in Contains[n]}

\* With one network the lookup changes nothing.  With several it reports the
\* duplicates, and the type assertion in the report panics: the trie holds
\* *RouteTableEntry, not RouteTableEntry.
FindRouteForIP(a) ==
    /\ Running /\ Cardinality(ContainingNetworks(a)) > 1
    /\ process' = "panic"
    /\ UNCHANGED <<kernel, byRoute, link, routeOpts, call, raced, overlapped>>

-----------------------------------------------------------------------------
Next ==
    \/ Up
    \/ \E n \in Networks : ApplyRoute(n)
    \/ \E c \in Clients :
         \/ \E n \in Networks : Del(c, n) \/ \E p \in Peers : Add(c, n, p)
         \/ ApplyFails(c) \/ Apply(c) \/ Enter(c) \/ Leave(c)
    \/ \E a \in Addresses : FindRouteForIP(a)

Spec == Init /\ [][Next]_vars

-----------------------------------------------------------------------------
(* Properties. *)

InCall(n) == \E c \in Clients : Serving(c) /\ call[c].net = n

\* The kernel sends the packets of n here, or Run is about to have it do so,
\* exactly when ByRoute has a peer for them.
Agree(n) == n \in kernel \cup routeOpts <=> byRoute[n] # NoPeer

\* A Route call that neither another call nor the start of the node overlaps
\* keeps the tables in agreement, whether it succeeds or is refused: no black
\* hole and no entry the kernel sends nothing to.
SoloCallsAgree ==
    \A n \in Networks \ ServiceNets : n \notin overlapped /\ ~InCall(n) => Agree(n)
=============================================================================
