---------------------------- MODULE PeerRouting ----------------------------
(***************************************************************************)
(* Finding the addresses of a peer: ParallelRouting.FindPeer               *)
(* (p2p/routing.go) asks peer exchange, the DHT and an HTTP router at once *)
(* and merges their answers; PeXRouting.FindPeer and RequestPeX            *)
(* (p2p/pex.go) ask the peers of the VPN.                                  *)
(***************************************************************************)
EXTENDS Naturals, Sequences, FiniteSets

CONSTANTS
    Addrs,      \* addresses of peers
    vpnPeers,   \* PeXRouting.vpnPeers, in the order of the configuration
    Target,     \* the peer that is looked for
    Stranger    \* a peer that is not in the configuration

PeerIDs == {vpnPeers[i] : i \in 1..Len(vpnPeers)}

ASSUME RoutingAssumption ==
    /\ Len(vpnPeers) > 0
    /\ Stranger \notin PeerIDs
    /\ Target \in PeerIDs \cup {Stranger}

Routings == {"pex", "dht", "http"}

VARIABLES
    reachable,  \* peers to which a stream can be opened
    lists,      \* peers whose configuration lists this node
    knows,      \* knows[q]: addresses of the target in the peerstore of q
    finds,      \* finds[r]: what the DHT and the HTTP router can find
    task,       \* the goroutine of each routing
    answer,     \* the addresses its FindPeer returned
    mutex,      \* the holder of FindPeer's mutex, or "none"
    seen,       \* info.Addrs as the holder of the mutex read it
    info,       \* info.Addrs
    timer,      \* AfterFunc timers are pending
    subCtx,     \* "live", or what cancelled it
    returned    \* FindPeer returned info

env == <<reachable, lists, knows, finds>>
vars == <<env, task, answer, mutex, seen, info, timer, subCtx, returned>>

TaskSteps == {"asking", "lock", "merge", "done", "failed"}

\* A peer that is asked about itself leaves itself out: its own configuration
\* does not list it.
Init ==
    /\ reachable \in SUBSET PeerIDs /\ lists \in SUBSET PeerIDs
    /\ knows \in [PeerIDs -> SUBSET Addrs]
    /\ \A q \in PeerIDs : q = Target => knows[q] = {}
    /\ finds \in [{"dht", "http"} -> SUBSET Addrs]
    /\ task = [r \in Routings |-> "asking"]
    /\ answer = [r \in Routings |-> {}]
    /\ mutex = "none" /\ seen = {} /\ info = {}
    /\ timer = FALSE /\ subCtx = "live" /\ returned = FALSE

Live == subCtx = "live"
FailedAnswer == [ok |-> FALSE, addrs |-> {}]

-----------------------------------------------------------------------------
(* Peer exchange. *)

\* The stream handler of q writes what its peerstore has, and closes the stream;
\* it resets the stream of a node it does not list.
NewPeXStreamHandler(q) ==
    IF q \in lists THEN [ok |-> TRUE, addrs |-> knows[q]] ELSE FailedAnswer

\* RequestPeX: the loop over the peers ends in its first round, with the error
\* of NewStream or with what the first peer's stream handler wrote.
\* Peers run this same code, so every line they write has its '|' (the reader
\* indexes the second part of the line without asking whether it is there).
RequestPeX(peers) ==
    IF Head(peers) \in reachable THEN NewPeXStreamHandler(Head(peers)) ELSE FailedAnswer

\* PeXRouting.FindPeer: a peer outside the VPN is not found; no addresses is a
\* result like any other.
PeXFindPeer == IF Target \in PeerIDs THEN RequestPeX(vpnPeers) ELSE FailedAnswer

\* The DHT and the HTTP router answer only with addresses.
FindPeerOf(r) ==
    IF r = "pex" THEN PeXFindPeer ELSE [ok |-> finds[r] # {}, addrs |-> finds[r]]

-----------------------------------------------------------------------------
(* ParallelRouting.FindPeer: one goroutine per routing. *)

\* A routing returns its answer; it may do so when its time is just up.
Answers(r) ==
    /\ task[r] = "asking"
    /\ FindPeerOf(r).ok
    /\ answer' = [answer EXCEPT ![r] = FindPeerOf(r).addrs]
    /\ task' = [task EXCEPT ![r] = "lock"]
    /\ UNCHANGED <<env, mutex, seen, info, timer, subCtx, returned>>

\* Defect used to test the properties: an error starts the timer, too.
FailsLikeAnswer(r) ==
    /\ task[r] = "asking"
    /\ ~Live \/ ~FindPeerOf(r).ok \/ r = "pex"
    /\ task' = [task EXCEPT ![r] = "failed"]
    /\ timer' = TRUE
    /\ UNCHANGED <<env, answer, mutex, seen, info, subCtx, returned>>

\* It returns an error: it has no answer, its stream broke, or its time is up.
Fails(r) ==
    /\ task[r] = "asking"
    /\ ~Live \/ ~FindPeerOf(r).ok \/ r = "pex"
    /\ task' = [task EXCEPT ![r] = "failed"]
    /\ UNCHANGED <<env, answer, mutex, seen, info, timer, subCtx, returned>>

\* Defect used to test the properties: the mutex is not waited for.
LockUnguarded(r) ==
    /\ task[r] = "lock"
    /\ mutex' = r /\ seen' = info
    /\ task' = [task EXCEPT ![r] = "merge"]
    /\ UNCHANGED <<env, answer, info, timer, subCtx, returned>>

Lock(r) ==
    /\ task[r] = "lock" /\ mutex = "none"
    /\ mutex' = r /\ seen' = info
    /\ task' = [task EXCEPT ![r] = "merge"]
    /\ UNCHANGED <<env, answer, info, timer, subCtx, returned>>

\* Defect used to test the properties: the mutex is not released.
MergeLocked(r) ==
    /\ task[r] = "merge"
    /\ info' = seen \cup answer[r]
    /\ timer' = TRUE
    /\ task' = [task EXCEPT ![r] = "done"]
    /\ UNCHANGED <<env, answer, mutex, seen, subCtx, returned>>

\* append, AfterFunc(500ms, cancelSubCtx), and the deferred Unlock and Done.
Merge(r) ==
    /\ task[r] = "merge"
    /\ info' = seen \cup answer[r]
    /\ timer' = TRUE
    /\ mutex' = "none"
    /\ task' = [task EXCEPT ![r] = "done"]
    /\ UNCHANGED <<env, answer, seen, subCtx, returned>>

TimerFires ==
    /\ timer /\ Live
    /\ subCtx' = "answered"
    /\ UNCHANGED <<env, task, answer, mutex, seen, info, timer, returned>>

\* The 30 seconds of WithTimeout.
Timeout ==
    /\ Live
    /\ subCtx' = "timeout"
    /\ UNCHANGED <<env, task, answer, mutex, seen, info, timer, returned>>

\* wg.Wait returns once every goroutine has; then cancelSubCtx.
Return ==
    /\ ~returned /\ \A r \in Routings : task[r] \in {"done", "failed"}
    /\ returned' = TRUE
    /\ subCtx' = IF Live THEN "returned" ELSE subCtx
    /\ UNCHANGED <<env, task, answer, mutex, seen, info, timer>>

Next ==
    \/ \E r \in Routings : Answers(r) \/ Fails(r) \/ Lock(r) \/ Merge(r)
    \/ TimerFires \/ Timeout \/ Return

Spec == Init /\ [][Next]_vars

\* The goroutines run, time passes, and a routing returns once its context is
\* cancelled.  Nothing makes it return before.
Fairness ==
    /\ \A r \in Routings : WF_vars(Lock(r)) /\ WF_vars(Merge(r)) /\ WF_vars(~Live /\ Fails(r))
    /\ WF_vars(TimerFires) /\ WF_vars(Timeout) /\ WF_vars(Return)

FairSpec == Spec /\ Fairness

-----------------------------------------------------------------------------
(* Properties. *)

Merged == UNION {answer[r] : r \in {x \in Routings : task[x] = "done"}}

\* FindPeer returns the addresses of every routing that answered in time, in
\* whatever order they came: none is lost to another that merges at the same
\* time, and none is left out because the search was cut short after it.
AnswersAreMerged == info = Merged

\* FindPeer returns, though a routing may never answer: the time limit or the
\* first answer ends the wait for the others, and none holds the mutex for ever.
FindPeerReturns == <>returned

\* The comment in FindPeer: after the first answer the others have a short time
\* to find a better address.  A search is cut short without any address in one
\* case only: peer exchange reached the first peer, and that one knew none.
EmptyCutIsPeX ==
    subCtx = "answered" /\ info = {} =>
        /\ task["pex"] = "done"
        /\ Head(vpnPeers) \in reachable \cap lists /\ knows[Head(vpnPeers)] = {}
=============================================================================
