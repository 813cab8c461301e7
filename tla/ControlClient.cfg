CONSTANTS
    Programs <- WorkerOnly
    PeerMessages <- NoMessages
    SelfMessages <- NoMessages
    MaxSends = 6
    NoToken = NoToken
    Families <- BothFamilies
SPECIFICATION ClientSpec
INVARIANTS ClientTypeOK WaitsForSomeone JoinEnds TimerOnSocket
PROPERTIES HandedOverReturns
