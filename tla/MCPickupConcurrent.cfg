\* Two threads race on one pickup.
SPECIFICATION Spec
CONSTANTS
    citizen = citizen
    otherCitizen = otherCitizen
    orgAdmin = orgAdmin
    collectorA = collectorA
    collectorB = collectorB
    adminA = adminA
    platformAdmin = platformAdmin
    companyA = companyA
    companyB = companyB
    None = None
    Collectors = {collectorA, collectorB}
    CompanyAdmins = {adminA}
    PlatformAdmins = {platformAdmin}
    Companies = {companyA, companyB}
    CompanyOf <- MCCompanyOf
    Citizens = {citizen}
    OrgAdmins = {}
    Pickups = {p1}
    Requests = {r1, r2}
SYMMETRY RequestSymmetry
\* Requests stop once every pickup is in a terminal status.
CHECK_DEADLOCK FALSE
INVARIANTS
    TypeOK
    RewardOnlyForProof
    WasteMatchesProof
    CompanyFollowsCollector
    ProofByAssignee
    NoStageSkipped
    AuditExplainsRow
