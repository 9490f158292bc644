SPECIFICATION SpecOneRef
CONSTANTS
    k1 = k1  k2 = k2  k3 = k3  me = me  x1 = x1  x2 = x2
    IDs = {k1, k2, k3, me}
    Self = me
    Labels <- SomeLabels
    Lower <- LowerOf
    Names <- SomeNames
    Hostname = "deb"
    IDPrefixes = {x1, x2}
    Matches <- MatchesOf
    MaxPeers = 2
    MaxRefs = 1
    OwnID <- MyKey
    PeerIDs <- Keys
    ServiceNames <- Texts
    Networks <- SomeNetworks
    Key <- KeyOf
    Text <- TextOf
    Routes <- RoutesOf
INVARIANTS TypeOK NamesAgree ListsAsGiven  
\* A configuration has an end.
CHECK_DEADLOCK FALSE
