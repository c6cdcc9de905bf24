\* A run of any batch, and a later one, of up to three indicators.
CONSTANTS
    corp = corp  sub = sub  wild = wild  addr = addr  net = net  page = page
    other = other  cur1 = cur1  cur2 = cur2  res = res  loc = loc  ann = ann
    h1 = h1  h2 = h2
    Names = {corp, sub, wild, addr, net, page, other}
    TypeOf <- Type
    Below <- Under
    Wildcards = {wild}
    NoFloor = NoFloor
    Kinds = {"curated_source", "two_curated_sources", "contradictory_benign",
             "direct_local_detection", "behavioral_beacon_periodicity",
             "behavioral_first_seen_novelty", "recent", "bounded_scope",
             "verified_rollback", "dedicated_use", "exactness", "shared_cdn"}
    FamilyOf <- Family
    NoFamily = "none"
    Asserting = {"curated_source", "direct_local_detection"}
    SharedInfra = {"shared_cdn"}
    Needs <- Need
    Plain = "curated_source"
    Sources = {cur1, cur2, res, loc, ann, Unregistered, LocalBehavioral}
    ClassOf <- Class
    UpstreamOf <- Upstream
    Qualified = {cur1, cur2, res}
    Weight <- Table
    Rows <- TheRows
    Instants = {1, 20, 30, 40, 50, 60}
    Stale = {1}
    CorroboratedCap = 92
    Absent = Absent  Garbled = Garbled  Unheard = Unheard  Nobody = Nobody
    Clients = {h1, h2, Demo}
    Demo = Demo
    Unregistered = Unregistered
    LocalBehavioral = LocalBehavioral
    Batches <- All
    Input <- Inputs
    Again <- Later
    MaxRecords = 7
    MinGaps = 3  Slack = 1  MinMedian = 10  MaxMedian = 3600  Tolerance = 250000
    Skew = 15  MaxWindows = 2  MaxContacts = 5  MaxPlaces = 2  Retention = 25
SPECIFICATION Spec
INVARIANTS
    AgreesWithProduction
    AnnotationsNeverMove
    BudgetsHold
    OutputsAttested
