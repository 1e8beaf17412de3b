\* The components of MCComponents, one per behaviour, each with two threads,
\* sends or loads; one account per role, two of them of companies.
SPECIFICATION Spec
CONSTANTS
    None = None
    Threads = {t1, t2}
    Sends = {s1, s2}
    MaxFailures = 1
    MaxSearches = 1
    Loads = {l1, l2}
    Actions = {1}
    MaxChanges = 2
    MaxLoads = 4
    Collectors = {"k1", "k2"}
    ServiceZones = {"z"}
    WasteCompanies = {"a"}
    CompanyOf <- CompanyDef
    Platform = "platform"
    Null = None
    Days = {0, 1, 4}
    Preferred = {1}
    Sites <- Corners
    Near <- NearDef
    Distance <- DistanceDef
    RowOrders <- OrdersDef
    MaxPickups = 4
    MaxRecycled = 1
    Limit = 1
    MaxStops = 3
    Complaint = {c1}
    Users <- Accounts
    RoleOf <- RoleDef
    OrgOf <- OrgDef
    RecyclerOf <- RecyclerDef
    HomeCompany <- HomeDef
    Companies = {"a", "b"}
    Requests = {1, 2}
    Connections = {1, 2}
    Redeemers = {"u1", "u2"}
    Rewards = {"w1"}
    Unlimited = None
    Costs = {2}
    Stocks = {2, None}
    Points = {1, 2}
    RedeemThreads = {t1, t2}
    MaxEntries = 4
    Levels = {50, 94, 95}
    Places = {0, 1}
    Zones = {1}
    Vehicles = {1}
    RowThreads = {t1, t2}
    MaxCommits = 4
SYMMETRY Symmetry
INVARIANTS
    TypeOK
    RedemptionsAreCovered
    StagesAreTold
    ResolutionIsDated
    RowsAreWhatWasMeant
    ReportsCohere
    MostUrgentListed
    ScreensAgree
    RouteIsGreedyTour
    ContextIsOwn
    PoliciesMatchHandlers
    FormIsAsEntered
    OnePickupPerRequest
    PageIsTruthful
\* Bounds and terminal statuses end behaviours.
CHECK_DEADLOCK FALSE
