\* Two ingest workers and a replaying operator, two overlapping batches.
CONSTANTS
    o1 = o1  o2 = o2  out = out  wild = wild  b1 = b1  b2 = b2
    enforce = enforce  revised = revised  shadow = shadow  emergency = emergency
    NoPolicy = NoPolicy  NoBatch = NoBatch  NoBudget = NoBudget
    Observables = {o1, o2, wild}
    Batches = {b1, b2}
    Payload <- OverlappingBatches
    Workers = {w1, w2}
    Operators = {p1}
    Contents = {enforce, shadow}
    VersionOf <- Version
    ModeOf <- Mode
    Rung <- AllDeny
    Scope <- ShadowIsNarrow
    BudgetOf <- OneBudget
    Wildcards = {wild}
    AdapterScope = {o1, o2}
    AdapterMax = "ENFORCE"
    InitialPolicies = {shadow, enforce}
    MaxPromotions = 1
    MaxMishaps = 1
SPECIFICATION Spec
CHECK_DEADLOCK FALSE
SYMMETRY ThreadSymmetry
INVARIANTS
    TypeOK
    ActionsAreAuthorized
    BudgetHolds
    CompleteIsHandled
