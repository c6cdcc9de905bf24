\* One indicator, four global policies, three overlays, up to three records.
CONSTANTS
    corp = corp  sub = sub  other = other  wild = wild  addr = addr  net = net
    cur1 = cur1  cur2 = cur2  loc = loc  ann = ann  now = now  old = old
    enforce = enforce  deep = deep  shadow = shadow  emergency = emergency
    prefixes = prefixes
    strict = strict  wide = wide  narrow = narrow
    Names = {corp, sub, other, wild, addr, net}
    TypeOf <- Type
    Below <- Under
    Wildcards = {wild}
    NoFloor = NoFloor
    Kinds = {"curated_source", "two_curated_sources", "contradictory_benign",
             "direct_local_detection", "behavioral_beacon_periodicity",
             "behavioral_dga_likelihood", "recent", "bounded_scope",
             "verified_rollback", "dedicated_use", "exactness", "shared_cdn"}
    FamilyOf <- Family
    NoFamily = "none"
    Asserting = {"curated_source", "direct_local_detection"}
    SharedInfra = {"shared_cdn"}
    Needs <- Need
    Plain = "curated_source"
    Sources = {cur1, cur2, loc, ann}
    ClassOf <- Class
    UpstreamOf <- Upstream
    Qualified = {cur1, cur2}
    Weight <- Table
    Instants = {now, old}
    Stale = {old}
    CorroboratedCap = 92
    Contents = {enforce, deep, shadow, emergency}
    PolicyText <- Text
    Overlays = {strict, wide, narrow}
    OverlayText <- Over
    Nothing = Nothing
    AdapterMax = "ENFORCE"
    Targets = {sub, other, wild, addr}
    Reports <- SeenOf
    MaxEvidence = 3
SPECIFICATION Spec
INVARIANTS
    TypeOK
    LiveWithinGlobal
    OverlayNeverStrengthens
    AnnotationsNeverDeny
PROPERTIES
    CancelledHasCause
