SPECIFICATION FairSpec
CONSTANTS
    v1 = v1  v2 = v2
    i1 = i1
    q1 = q1  q2 = q2
    Services = {v1, v2}
    ServiceId <- IdOf
    Ids = {i1, i2}
    Acl <- Lists
    Provider = self
    Clients = {q1, q2}
    Strangers = {x}
    Ports = {p1, p2}
    Conns = {c1, c2}
    Foreign = Foreign
    None = None
INVARIANTS TypeOK ListenOnce RelayPermitted
PROPERTIES ConnectionsSettle
\* Connections end, and the process may.
CHECK_DEADLOCK FALSE
