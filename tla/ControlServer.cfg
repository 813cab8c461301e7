CONSTANTS
    c1 = c1
    c2 = c2
    c3 = c3
    None = None
    Clients <- TwoClients
    Settings <- EnoughOrScarce
    MayDie <- TwoClients
    Early <- OneClient
SPECIFICATION LiveSpec
INVARIANTS TypeOK InStep SessionFound
PROPERTIES EveryoneGreeted LeaversReleased
