CONSTANTS
    c1 = c1
    c2 = c2
    c3 = c3
    None = None
    Clients <- TwoClients
    Settings <- EnoughForTwo
    MayDie <- Nobody
    Early <- Nobody
SPECIFICATION Spec
INVARIANTS OwnSession
