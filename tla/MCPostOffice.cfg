SPECIFICATION FairSpec
CONSTANTS
    near = near
    Hosts = {near, far}
    Clients = {c1, c2}
    HostOf <- AllNear
    Boxes = {0}
    Worker = worker
    NoClient = NoClient
    NoMail = NoMail
    MaxCalls = 2
INVARIANTS
    InboxAnnounced
    OneAtATime
PROPERTIES
    ImplementsLossyMail
    Settles
