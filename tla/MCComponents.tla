---------------------------- MODULE MCComponents -----------------------------
(***************************************************************************)
(* Values for model checking the components that share no state with each  *)
(* other here: a behaviour is about one subject, and the variables of the  *)
(* others stay as they began.  Two components have several subjects, each  *)
(* with the part of the data its question needs.  The components theorems  *)
(* are proved about are extended, so that both are about one definition.   *)
(***************************************************************************)
EXTENDS Integers, Sequences, FiniteSets, TLC, Complaints, RowSecurity, PickupWizard,
    RewardLedger, StaleRows, OperationalViews, Pages

VARIABLES subject

vars == <<subject, ledgerVars, complaintVars, rowVars, viewVars, securityVars, wizardVars,
          pageVars>>

-----------------------------------------------------------------------------
(* A line of places, one of which is a hot spot; two collectors.           *)

Corners == {0, 3, 5, 9}
CompanyDef == [k \in Collectors |-> "a"]
NearDef == [p \in Corners |-> IF p = 0 THEN [complaints |-> 0, fill |-> 0]
                                       ELSE [complaints |-> 1, fill |-> 3]]
DistanceDef == [x \in Corners \X Corners |-> IF x[1] > x[2] THEN x[1] - x[2] ELSE x[2] - x[1]]

\* As they were inserted, and the other way round.
OrdersDef == {[i \in 1..MaxPickups |-> i], [i \in 1..MaxPickups |-> MaxPickups - i]}

EveryPickup(P(_)) == \A i \in DOMAIN pickup' : P(pickup'[i])

\* Reports while pickups change, on one day.
Counting ==
    /\ today' = today /\ Len(pickup') <= 2
    /\ EveryPickup(LAMBDA p : p.place = 0 /\ p.preferred = Null)

\* The lists of pickups, of which most are to be collected.
Listing ==
    /\ report' = report /\ recycled' = 0
    /\ EveryPickup(LAMBDA p : p.status \in {"REQUESTED", "CANCELLED"} /\ p.place \in {0, 3})

\* The figures of several screens over days.
Screens ==
    /\ report' = report /\ recycled' = 0 /\ Len(pickup') <= 2
    /\ EveryPickup(LAMBDA p : p.place = 0 /\ p.preferred = Null)

\* The route of a collector.
Routing ==
    /\ report' = report /\ recycled' = 0 /\ today' = today
    /\ EveryPickup(LAMBDA p : p.status \in OpenStatus /\ p.collector \in {Null, "k1"}
                              /\ p.preferred = Null)

-----------------------------------------------------------------------------
(* An account of each role, two of companies.                              *)

RoleDef ==
    [citizen |-> "CITIZEN", collector |-> "COLLECTOR", companyA |-> "COMPANY_ADMIN",
     companyB |-> "COMPANY_ADMIN", municipal |-> "MUNICIPAL_ADMIN", super |-> "SUPER_ADMIN",
     organization |-> "ORGANIZATION_ADMIN", recycler |-> "RECYCLER"]

Accounts == DOMAIN RoleDef
OrgDef == [u \in Accounts |-> IF RoleDef[u] = "ORGANIZATION_ADMIN" THEN "o" ELSE None]
RecyclerDef == [u \in Accounts |-> IF RoleDef[u] = "RECYCLER" THEN "y" ELSE None]
HomeDef ==
    [u \in Accounts |-> CASE u = "companyA" -> "a" [] u = "companyB" -> "b" [] OTHER -> None]

-----------------------------------------------------------------------------
(* What is entered in the form, without sending it; and sending without a  *)
(* search or an address.                                                   *)

Filling == sent' = sent
Sending == search' = {} /\ location'.address = "none"

-----------------------------------------------------------------------------
ViewSubjects == {"counting", "listing", "screens", "routing"}
WizardSubjects == {"filling", "sending"}
Subjects ==
    ViewSubjects \cup WizardSubjects
    \cup {"rewards", "complaints", "rows", "security", "pages"}

Init ==
    /\ subject \in Subjects
    /\ ComplaintInit /\ SecurityInit /\ WizardInit /\ LedgerInit /\ ViewInit
    /\ RowInit /\ (subject = "rows" \/ table = "bin")
    /\ PageInit /\ (subject = "pages" \/ page = "admin")

ViewStep ==
    /\ ViewNext
    /\ \/ subject = "counting" /\ Counting
       \/ subject = "listing" /\ Listing
       \/ subject = "screens" /\ Screens
       \/ subject = "routing" /\ Routing

WizardStep ==
    /\ WizardNext
    /\ \/ subject = "filling" /\ Filling
       \/ subject = "sending" /\ Sending

\* The steps of the subject's component.
Next ==
    /\ UNCHANGED subject
    /\ IF subject = "rewards" THEN LedgerNext ELSE UNCHANGED ledgerVars
    /\ IF subject = "complaints" THEN ComplaintNext ELSE UNCHANGED complaintVars
    /\ IF subject = "rows" THEN RowNext ELSE UNCHANGED rowVars
    /\ IF subject = "security" THEN SecurityNext ELSE UNCHANGED securityVars
    /\ IF subject = "pages" THEN PageNext ELSE UNCHANGED pageVars
    /\ IF subject \in ViewSubjects THEN ViewStep ELSE UNCHANGED viewVars
    /\ IF subject \in WizardSubjects THEN WizardStep ELSE UNCHANGED wizardVars

Spec == Init /\ [][Next]_vars

Symmetry == Permutations(Sends)

-----------------------------------------------------------------------------
(* The properties are stated and explained in the modules they are from.   *)

\* The type invariant of each component.
TypeOK ==
    /\ ComplaintTypeOK /\ SecurityTypeOK /\ WizardTypeOK
    /\ LedgerTypeOK /\ RowTypeOK /\ ViewTypeOK /\ PageTypeOK

=============================================================================
