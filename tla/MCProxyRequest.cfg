CONSTANTS
    Requests = {r1, r2}
    Bodies <- MCBodies
    Baseline <- MCBaseline
    Extend <- MCExtend
    Filter = TRUE
    NoMethod = NoMethod
    Null = 0
    Statuses = {200, 502}
    get = get
    extra = extra
    refused = refused
SPECIFICATION FairSpec
INVARIANTS OnlyAllowedReachUpstream ReplyFits AnsweredAreCounted RefusalsCounted
PROPERTIES EveryRequestAnswered
CHECK_DEADLOCK FALSE
