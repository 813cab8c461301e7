CONSTANTS
    s1 = s1
    t1 = t1
    t2 = t2
    None = None
    Word = 256
    Senders <- OneSender
    Targets <- TwoTargets
    MaxPackets = 2
    MaxCopies = 0
    Faults = {}
    Buffers = {"apart"}
SPECIFICATION Spec
INVARIANTS StampsAligned
