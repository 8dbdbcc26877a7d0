SPECIFICATION Spec
CONSTANTS
    PerSec = 4
    Durations = {0, 1, 3}
    Limit = 2
    OnDur = 1
    OffDur = 2
    ReplyDur <- MCReply
    LockCount = 1
    OtcCount = 4
    Watch = 4
    ListMax = 4
    MaxOps = 2
INVARIANTS RadioConfigured
PROPERTIES LockNeverShortens Alternates
