CONSTANTS
    s1 = s1
    t1 = t1
    t2 = t2
    None = None
    Word = 256
    Senders <- OneSender
    Targets <- OneTarget
    MaxPackets = 4
    MaxCopies = 0
    Faults = {"reorder"}
    Buffers = {"apart", "shared", "overwritten"}
SPECIFICATION Spec
INVARIANTS LossAddsUp
