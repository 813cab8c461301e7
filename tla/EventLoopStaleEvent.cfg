CONSTANTS
    Programs <- WithoutPeer
    PeerMessages <- NoMessages
    SelfMessages <- NoMessages
    MaxSends = 0
    NoToken = NoToken
SPECIFICATION Spec
INVARIANTS OvertimeLasts
