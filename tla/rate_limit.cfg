SPECIFICATION LimitFairSpec
CONSTANTS
 Caller = {1,2}
 MaxCalls = 4
 Window = 3
 Limit = 3
 Margin = 1
 Reserve = 1
 Headers = {"full","no reset","none"}
 Retries = 1
 Mishap = {"elsewhere","restart","failed"}
 MaxMishaps = 1
INVARIANT QuotaKept
PROPERTY EveryCallEnds
CHECK_DEADLOCK FALSE
