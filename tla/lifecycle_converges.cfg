\* One controller that may crash and restart, one control, a promotion, a TTL.
CONSTANTS
    c1 = c1  c2 = c2  a1 = a1  a2 = a2  r1 = r1
    Controllers = {c1}
    ApiServers = {c1}
    Actions = {a1}
    Rules = {r1}
    RuleOf <- OneRule
    NoAction = NoAction
    NoController = NoController
    Expiring = {a1}
    MaxRevision = 1
    MaxMishaps = 1
    ReloadMayFail = TRUE
    SlowWorkers = FALSE
SPECIFICATION FairSpec
PROPERTIES
    AbsentConverges
    ActionsLeaveQueue
    ExpiredControlsLeave
    ForbiddenControlsLeave
