CONSTANTS
    c1 = c1
    c2 = c2
    c3 = c3
    None = None
    Clients <- OneClient
    Settings <- EnoughForOne
    MayDie <- Nobody
    Early <- Nobody
SPECIFICATION Spec
INVARIANTS AcceptedIsServed
