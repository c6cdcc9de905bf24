\* Two operators and one ingest worker: proposals, approvals and rejections.
CONSTANTS
    o1 = o1  o2 = o2  out = out  wild = wild  b1 = b1  b2 = b2
    enforce = enforce  revised = revised  shadow = shadow  emergency = emergency
    NoPolicy = NoPolicy  NoBatch = NoBatch  NoBudget = NoBudget
    Observables = {o1, out}
    Batches = {b1}
    Payload <- OneBatch
    Workers = {w1}
    Operators = {p1, p2}
    Contents = {enforce, emergency}
    VersionOf <- Version
    ModeOf <- Mode
    Rung <- AllDeny
    Scope <- ShadowIsNarrow
    BudgetOf <- OneBudget
    Wildcards = {}
    AdapterScope = {o1}
    AdapterMax = "ENFORCE"
    InitialPolicies = {NoPolicy, emergency}
    MaxPromotions = 1
    MaxMishaps = 1
SPECIFICATION FairSpec
CHECK_DEADLOCK FALSE
PROPERTIES
    ImplementsProposals
    BatchesSettle
