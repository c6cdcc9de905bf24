\* Two controllers on one ledger, one control.
CONSTANTS
    c1 = c1  c2 = c2  a1 = a1  a2 = a2  r1 = r1
    Controllers = {c1, c2}
    Actions = {a1}
    Rules = {r1}
    RuleOf <- OneRule
    NoAction = NoAction
    NoController = NoController
    ApiServers = {c1}
    Expiring = {a1}
    MaxRevision = 0
    MaxMishaps = 1
    ReloadMayFail = TRUE
    SlowWorkers = FALSE
SPECIFICATION Spec
INVARIANTS
    TypeOK
    AbsentNeverReapplied
    RemoverHasIntent
    VerifiedIsEnforced
PROPERTIES
    ImplementsContract
