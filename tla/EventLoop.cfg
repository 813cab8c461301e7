CONSTANTS
    Programs <- AllPrograms
    PeerMessages <- AllMessages
    SelfMessages <- RegisterOnly
    MaxSends = 3
    NoToken = NoToken
SPECIFICATION LiveSpec
INVARIANTS TypeOK Polled NoPanic OvertimeDropsTimers OkAfterDeadline BatchFresh
PROPERTIES DeadlineEndsRun LivesAsPromised
