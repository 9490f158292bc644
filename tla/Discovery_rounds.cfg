SPECIFICATION FairSpec
CONSTANTS
    q1 = q1  q2 = q2  other = other
    lan4 = lan4  lan6 = lan6  private = private  public = public
    vpnPeers <- TwoPeers
    Strangers = {other}
    Addrs = {lan4, lan6, private, public}
    AddrsOf <- Own
    IP4 = {lan4, private, public}
    Routable = {lan4}
    Filtered = {private}
    Known <- Others
    Askers = {g1, g2}
PROPERTIES PeersAreTried RequestsAreTaken ExchangeSettles
\* After Stop the goroutines that are left have nothing to do.
CHECK_DEADLOCK FALSE
