\* One thread: every request commits before the next one reads.
SPECIFICATION Spec
CONSTANTS
    citizen = citizen
    otherCitizen = otherCitizen
    orgAdmin = orgAdmin
    collectorA = collectorA
    collectorB = collectorB
    adminA = adminA
    platformAdmin = platformAdmin
    companyA = companyA
    companyB = companyB
    None = None
    Collectors = {collectorA, collectorB}
    CompanyAdmins = {adminA}
    PlatformAdmins = {platformAdmin}
    Companies = {companyA, companyB}
    CompanyOf <- MCCompanyOf
    Citizens = {citizen, otherCitizen}
    OrgAdmins = {orgAdmin}
    Pickups = {p1, p2}
    Requests = {r1}
\* Requests stop once every pickup is in a terminal status.
CHECK_DEADLOCK FALSE
INVARIANTS
    ProofMatchesRow
    CancelledIsStamped
PROPERTY
    ImplementsFlow
