CONSTANTS
    c1 = c1
    c2 = c2
    c3 = c3
    None = None
    Clients <- ThreeClients
    Settings <- ThreeInTurn
    MayDie <- Nobody
    Early <- Nobody
SYMMETRY AnyClient
SPECIFICATION Spec
INVARIANTS NeverBlocks
