CONSTANTS
    None = None
    Word = 256
    NSECS_CONVERSION = 10
    FRACTION_CONVERSION = 43
    NTP_EPOCH = 9
    Seconds = 16
    HalfUlp = 1
    Offsets <- ClockOffsets
    Starts = {3, 61}
    PacketGap = 3
    Trips <- FewTrips
    MaxSent = 5
SPECIFICATION Spec
INVARIANTS TypeOK DelaysExact JitterWithoutOffset SummariesOrdered AveragesAddUp EveryPacketCounted
