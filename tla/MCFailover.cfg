SPECIFICATION FailoverSpec
CONSTANTS
    d1 = d1
    d2 = d2
    k1 = k1
    b1 = b1
    m1 = m1
    Workers = {w1, w2}
    Shared = Shared
    Direct = {d1, d2}
    ApiKeys = {k1}
    Cookies = {b1}
    NoKey = NoKey
    InitAccounts <- MCInitAccounts
    Addable = {d2, k1}
    InitOr <- MCNone
    ConfigKey <- MCConfigKey
    ConfigCookie <- MCConfigCookie
    RequestKeys <- MCRequestKeys
    InboundKeys = {k1}
    OrEnabled = TRUE
    Models <- MCModels
    Default = Default
    UpstreamStatuses = {200, 400, 402, 429}
    Lost = Lost
    Lap = 2
    MaxRequests = 2
INVARIANTS TypeOK NoAccountLeftUntried EvenRotation
PROPERTY ExhaustedLast
CHECK_DEADLOCK FALSE
