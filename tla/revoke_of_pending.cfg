\* An operator revokes a row a dispatcher is about to claim; nothing fails.
CONSTANTS
    c1 = c1  c2 = c2  a1 = a1  a2 = a2  r1 = r1
    Controllers = {c1}
    ApiServers = {c1}
    Actions = {a1}
    Rules = {r1}
    RuleOf <- OneRule
    NoAction = NoAction
    NoController = NoController
    Expiring = {}
    MaxRevision = 0
    MaxMishaps = 0
    ReloadMayFail = FALSE
    SlowWorkers = FALSE
SPECIFICATION Spec
INVARIANTS
    NeverSilentlyGone
