SPECIFICATION Spec
CONSTANTS
    own = own  extra = extra  service = service
    a1 = a1  a2 = a2  a3 = a3
    q1 = q1  q2 = q2
    NoPeer = NoPeer
    Networks <- Nets
    Addresses = {a1, a2, a3}
    Contains <- Covered
    Peers = {q1, q2}
    Configured <- OneRoute
    ServiceNets = {service}
    Clients = {c1, c2}
SYMMETRY Symmetry
INVARIANTS TypeOK SoloCallsAgree
\* The process may end.
CHECK_DEADLOCK FALSE
