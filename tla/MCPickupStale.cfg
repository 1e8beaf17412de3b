\* Two threads: a commit overwrites a COLLECTED status it has not read.
SPECIFICATION Spec
CONSTANTS
    citizen = citizen
    otherCitizen = otherCitizen
    orgAdmin = orgAdmin
    collectorA = collectorA
    collectorB = collectorB
    adminA = adminA
    platformAdmin = platformAdmin
    companyA = companyA
    companyB = companyB
    None = None
    Collectors = {collectorA, collectorB}
    CompanyAdmins = {adminA}
    PlatformAdmins = {platformAdmin}
    Companies = {companyA, companyB}
    CompanyOf <- MCCompanyOf
    Citizens = {citizen}
    OrgAdmins = {}
    Pickups = {p1}
    Requests = {r1, r2}
CHECK_DEADLOCK FALSE
PROPERTY
    CollectedIsFinal
