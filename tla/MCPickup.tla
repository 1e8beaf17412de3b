------------------------------ MODULE MCPickup ------------------------------
(***************************************************************************)
(* Values for model checking PickupLifecycle: two collectors of different  *)
(* companies, an administrator of one of them, and one of the platform.    *)
(***************************************************************************)
EXTENDS PickupLifecycle, TLC

CONSTANTS
    citizen, otherCitizen, orgAdmin, collectorA, collectorB, adminA, platformAdmin,
    companyA, companyB

MCCompanyOf ==
    [u \in Collectors \cup CompanyAdmins |->
        IF u = collectorB THEN companyB ELSE companyA]

RequestSymmetry == Permutations(Requests)

=============================================================================
