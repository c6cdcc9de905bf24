\* Two processes on one zone directory; serials wrap; postures may change.
CONSTANTS
    o1 = o1  o2 = o2  p1 = p1  p2 = p2  w1 = w1  w2 = w2
    Owners = {o1, o2}
    Processes = {p1, p2}
    Workers = {w1, w2}
    ProcessOf <- TwoProcesses
    NoWorker = NoWorker
    NoOwner = NoOwner
    Postures = {"SHADOW", "ENFORCE"}
    ActionModes = {"SHADOW", "ENFORCE"}
    SerialMod = 16
    OldSerials = {14}
    MaxCalls = 4
    MaxFailures = 1
SPECIFICATION Spec
INVARIANTS
    TypeOK
    ShadowNeverServed
    ReloadPropagates
PROPERTIES
    LiveLeavesByEnforceRevoke
    ImplementsArtifacts
SYMMETRY OwnerSymmetry
\* The instance stops when its calls are spent.
CHECK_DEADLOCK FALSE
