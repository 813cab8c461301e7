CONSTANTS
    s1 = s1
    t1 = t1
    t2 = t2
    None = None
    Word = 256
    Senders <- OneSender
    Targets <- OneTarget
    MaxPackets = 3
    MaxCopies = 1
    Faults = {"loss", "copy", "reorder", "expire", "senderr", "icmp"}
    Buffers = {"apart", "shared", "overwritten"}
SPECIFICATION Spec
INVARIANTS TypeOK AnsweredArrived ReflectionsDistinct
