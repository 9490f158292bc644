SPECIFICATION FairSpec
CONSTANTS
    q1 = q1  q2 = q2
    Addrs = {a1, a2}
    vpnPeers <- TwoPeers
    Target = q2
    Stranger = x
INVARIANTS AnswersAreMerged EmptyCutIsPeX
PROPERTIES FindPeerReturns
\* FindPeer returns once.
CHECK_DEADLOCK FALSE
