-------------------------- MODULE WebPages_proofs ---------------------------
(***************************************************************************)
(* Proofs about the pages of the web client.  PickupWizard: for any number *)
(* of requests and searches; what the form shows depends on the searches   *)
(* under way and on the requests that wait for their answer, so the        *)
(* invariants speak of both.  Pages: for any number of loads and actions   *)
(* under way.                                                              *)
(***************************************************************************)
EXTENDS PickupWizard, Pages, FiniteSetTheorems, TLAPS

Locations == [coords : Coords, address : {"none", "address"}]
Phases == {"unsent", "sent", "stored", "refused"}

\* The values of the form and of the searches.
FieldType ==
    /\ step \in 1..4
    /\ location \in Locations
    /\ search \subseteq [from : Locations, own : BOOLEAN]

PastLocation == step >= 3 => location.coords = "good"

\* The address of the form, and the one with which a search began, is the one
\* typed now, unless the search was overtaken.
AddressKept ==
    /\ location.address = typed \/ overtaken
    /\ \A q \in search : q.from.address = typed \/ overtaken

FormInv == FieldType /\ PastLocation /\ AddressKept

LEMMA EnterStepKeeps ==
    ASSUME FormInv, NEW n \in 1..4, EnterStep(n), n >= 3 => location.coords = "good",
           UNCHANGED <<location, typed, overtaken>>
    PROVE  FormInv'
<1>1. \A q \in search : /\ [q EXCEPT !.own = FALSE] \in [from : Locations, own : BOOLEAN]
                        /\ [q EXCEPT !.own = FALSE].from = q.from
  BY DEF FormInv, FieldType
<1>2. \A m \in search' : m \in search \/ \E q \in search : m = [q EXCEPT !.own = FALSE]
  BY DEF EnterStep, Remount
<1>3. search' \subseteq [from : Locations, own : BOOLEAN]
  BY <1>1, <1>2 DEF FormInv, FieldType
<1>4. \A m \in search' : \E q \in search : m.from = q.from
  BY <1>1, <1>2
<1>5. AddressKept'
  BY <1>4 DEF FormInv, AddressKept
<1>6. FieldType' /\ PastLocation'
  BY <1>3 DEF FormInv, FieldType, EnterStep, PastLocation
<1>. QED  BY <1>5, <1>6 DEF FormInv

\* A step in which neither the fields nor the step change.
LEMMA FormUntouched ==
    ASSUME FormInv, UNCHANGED <<step, location, search, typed, overtaken>>
    PROVE  FormInv'
BY DEF FormInv, FieldType, PastLocation, AddressKept

\* A step that takes a search away or adds none.
LEMMA FewerSearches ==
    ASSUME FormInv, search' \subseteq search, UNCHANGED <<step, location, typed, overtaken>>
    PROVE  FormInv'
<1>1. FieldType' /\ PastLocation'
  BY DEF FormInv, FieldType, PastLocation
<1>2. AddressKept'
  BY DEF FormInv, AddressKept
<1>. QED  BY <1>1, <1>2 DEF FormInv

LEMMA FormStep ==
    ASSUME FormInv, [WizardNext]_wizardVars
    PROVE  FormInv'
<1>. USE DEF FormInv
<1>1. CASE NextStep
  <2>1. step + 1 \in 1..4 /\ (step + 1 >= 3 => location.coords = "good")
    BY <1>1 DEF NextStep, MayLeave, ValidStep, FieldType, PastLocation
  <2>. QED  BY <1>1, <2>1, EnterStepKeeps DEF NextStep, history
<1>2. CASE PrevStep
  <2>1. step - 1 \in 1..4 /\ (step - 1 >= 3 => location.coords = "good")
    BY <1>2 DEF PrevStep, FieldType, PastLocation
  <2>. QED  BY <1>2, <2>1, EnterStepKeeps DEF PrevStep, history
<1>3. ASSUME NEW c \in Coords, EnterCoordinate(c)
      PROVE  FormInv'
  <2>1. location' \in Locations /\ location'.address = location.address
    BY <1>3 DEF EnterCoordinate, FieldType, Locations
  <2>2. FieldType' /\ PastLocation'
    BY <1>3, <2>1 DEF EnterCoordinate, Picking, FieldType, PastLocation
  <2>3. AddressKept'
    BY <1>3, <2>1 DEF EnterCoordinate, history, AddressKept
  <2>. QED  BY <2>2, <2>3
<1>4. ASSUME NEW a \in {"none", "address"}, EnterAddress(a)
      PROVE  FormInv'
  <2>1. location' \in Locations /\ location'.address = a
    BY <1>4 DEF EnterAddress, FieldType, Locations
  <2>2. step = 2 /\ UNCHANGED <<step, search>>
    BY <1>4 DEF EnterAddress, Picking
  <2>2a. FieldType' /\ PastLocation'
    BY <2>1, <2>2 DEF FieldType, PastLocation
  <2>3. AddressKept'
    BY <1>4, <2>1 DEF EnterAddress, AddressKept
  <2>. QED  BY <2>2a, <2>3
<1>5. CASE Locate
  <2>1. [from |-> location, own |-> TRUE] \in [from : Locations, own : BOOLEAN]
    BY DEF FieldType
  <2>1a. FieldType' /\ PastLocation'
    BY <1>5, <2>1 DEF Locate, FieldType, PastLocation
  <2>2. \A q \in search' : q \in search \/ q.from = location
    BY <1>5 DEF Locate
  <2>3. AddressKept'
    BY <1>5, <2>2 DEF Locate, history, AddressKept
  <2>. QED  BY <2>1a, <2>3
<1>6. ASSUME NEW q \in search, Located(q)
      PROVE  FormInv'
  <2>1. location' \in Locations /\ location'.coords = "good"
        /\ location'.address = q.from.address
    BY <1>6 DEF Located, Answered, FieldType, Locations, Coords
  <2>2. FieldType' /\ PastLocation'
    BY <1>6, <2>1 DEF Located, FieldType, PastLocation
  <2>3. AddressKept'
    BY <1>6, <2>1 DEF Located, history, AddressKept
  <2>. QED  BY <2>2, <2>3
<1>7. ASSUME NEW q \in search, NotLocated(q)
      PROVE  FormInv'
  BY <1>7, FewerSearches DEF NotLocated, history
<1>8. ASSUME NEW s \in Sends, OnSubmit(s)
      PROVE  FormInv'
  <2>1. CASE badDate /\ step = 4
    BY <1>8, <2>1, EnterStepKeeps DEF OnSubmit
  <2>2. CASE ~(badDate /\ step = 4)
    BY <1>8, <2>2, FormUntouched DEF OnSubmit
  <2>. QED  BY <2>1, <2>2
<1>9. ASSUME NEW s \in Sends, ContinueSubmits(s)
      PROVE  FormInv'
  <2>1. FieldType' /\ PastLocation'
    BY <1>9 DEF ContinueSubmits, FieldType, PastLocation
  <2>2. AddressKept'
    BY <1>9 DEF ContinueSubmits, history, AddressKept
  <2>. QED  BY <2>1, <2>2
<1>10. CASE \/ ToggleManual \/ DismissError \/ UNCHANGED wizardVars
            \/ \E bad \in BOOLEAN : EnterDate(bad)
            \/ \E s \in Sends : Stored(s) \/ Succeeds(s) \/ Fails(s)
  BY <1>10, FormUntouched DEF ToggleManual, DismissError, wizardVars, EnterDate, Stored,
            Succeeds, Fails, history
<1>. QED
  BY <1>1, <1>2, <1>3, <1>4, <1>5, <1>6, <1>7, <1>8, <1>9, <1>10
  DEF WizardNext, PressSubmit, PressEnter

LEMMA FormStart == WizardInit => FormInv
<1>1. WizardInit => FieldType /\ PastLocation
  BY DEF WizardInit, FieldType, Locations, Coords, PastLocation
<1>2. WizardInit => AddressKept
  BY DEF WizardInit, AddressKept
<1>. QED  BY <1>1, <1>2 DEF FormInv

\* Past the second step the form has two coordinates in range, and its address
\* is the one typed, however many searches for the device are under way and in
\* whatever order they end (page.tsx:179-222, LocationPicker.tsx:103-147).
THEOREM FormCorrect == WizardSpec => []FormIsAsEntered
<1>1. WizardInit => FormInv
  BY FormStart
<1>2. FormInv /\ [WizardNext]_wizardVars => FormInv'
  BY FormStep
<1>3. FormInv => FormIsAsEntered
  BY DEF FormInv, PastLocation, AddressKept, FormIsAsEntered
<1>. QED  BY <1>1, <1>2, <1>3, PTL DEF WizardSpec

\* The form and its searches hold values of their kinds.
THEOREM WizardTypeCorrect == WizardSpec => []WizardTypeOK
<1>. DEFINE Rest == submitState \in {"idle", "submitting", "success", "error"}
            Inv == FormInv /\ Rest
<1>1. WizardInit => Inv
  BY FormStart DEF WizardInit
<1>2. Inv /\ [WizardNext]_wizardVars => Inv'
  <2>. SUFFICES ASSUME FormInv, Rest, [WizardNext]_wizardVars  PROVE Rest'
    BY FormStep
  <2>1. ASSUME NEW s \in Sends, PressSubmit(s) \/ ContinueSubmits(s) \/ PressEnter(s)
        PROVE  Rest'
    BY <2>1 DEF PressSubmit, ContinueSubmits, PressEnter, OnSubmit
  <2>2. ASSUME NEW s \in Sends, Stored(s) \/ Succeeds(s) \/ Fails(s)
        PROVE  Rest'
    BY <2>2 DEF Stored, Succeeds, Fails
  <2>3. CASE NextStep \/ PrevStep \/ ToggleManual \/ Locate \/ DismissError
    BY <2>3 DEF NextStep, PrevStep, ToggleManual, Locate, DismissError
  <2>4. CASE \/ \E bad \in BOOLEAN : EnterDate(bad)
             \/ \E c \in Coords : EnterCoordinate(c)
             \/ \E a \in {"none", "address"} : EnterAddress(a)
             \/ \E q \in search : Located(q) \/ NotLocated(q)
             \/ UNCHANGED wizardVars
    BY <2>4 DEF EnterDate, EnterCoordinate, EnterAddress, Located, NotLocated, wizardVars
  <2>. QED  BY <2>1, <2>2, <2>3, <2>4 DEF WizardNext
<1>3. Inv => WizardTypeOK
  BY DEF FormInv, FieldType, Locations, WizardTypeOK
<1>. QED  BY <1>1, <1>2, <1>3, PTL DEF WizardSpec

-----------------------------------------------------------------------------
(* One pickup per request.                                                 *)

Requested == {s \in Sends : sent[s].phase # "unsent"}

\* The submission under way or done, as far as the person knows.
Undertaken == IF submitState \in {"submitting", "success"} THEN 1 ELSE 0

SentType ==
    /\ DOMAIN sent = Sends
    /\ \A s \in Sends : sent[s].phase \in Phases
    /\ failures \in Nat
    /\ doubled \subseteq Requested

\* Every request beyond the failures shown and the ones sent by Enter is the
\* one under way or done.
Accounted ==
    /\ IsFiniteSet(Requested)
    /\ Cardinality(Requested) <= failures + Cardinality(doubled) + Undertaken

\* A page that says it is sending waits for an answer; one that says it has
\* succeeded has a row.
PageIsHonest ==
    /\ submitState = "submitting" => \E s \in Sends : Waiting(s)
    /\ submitState = "success" => StoredRows # {}

SubmitInv == SentType /\ Accounted /\ PageIsHonest

\* A request that is sent now is counted, by its name among the doubled ones
\* or as the one under way.
LEMMA SendIsCounted ==
    ASSUME SubmitInv, NEW s \in Sends, sent[s] = Unsent,
           NEW fields, fields.phase = "sent", fields.awaited = TRUE,
           sent' = [sent EXCEPT ![s] = fields],
           submitState' = "submitting", UNCHANGED failures,
           \/ submitState \notin {"submitting", "success"}
              /\ (doubled' = doubled \/ doubled' = doubled \cup {s})
           \/ doubled' = doubled \cup {s} /\ submitState # "success"
    PROVE  SubmitInv'
<1>1. s \notin Requested /\ s \notin doubled
  BY DEF SubmitInv, SentType, Requested, Unsent
<1>2. Requested' = Requested \cup {s}
  BY DEF SubmitInv, SentType, Requested
<1>3. IsFiniteSet(doubled)
  BY FS_Subset DEF SubmitInv, SentType, Accounted
<1>4. /\ IsFiniteSet(Requested')
      /\ Cardinality(Requested') = Cardinality(Requested) + 1
      /\ Cardinality(Requested) \in Nat /\ Cardinality(doubled) \in Nat
  BY <1>1, <1>2, <1>3, FS_AddElement, FS_CardinalityType DEF SubmitInv, Accounted
<1>5. doubled' = doubled \/ Cardinality(doubled') = Cardinality(doubled) + 1
  BY <1>1, <1>3, FS_AddElement
<1>6. SentType'
  BY <1>2 DEF SubmitInv, SentType, Phases
<1>7. Undertaken' = 1 /\ Undertaken \in {0, 1}
      /\ (submitState \notin {"submitting", "success"} => Undertaken = 0)
  BY DEF Undertaken
<1>7a. Accounted'
  BY <1>1, <1>3, <1>4, <1>5, <1>7, FS_AddElement DEF SubmitInv, SentType, Accounted
<1>8. PageIsHonest'
  BY DEF SubmitInv, SentType, PageIsHonest, Waiting
<1>. QED  BY <1>6, <1>7a, <1>8 DEF SubmitInv

LEMMA SubmitUntouched ==
    ASSUME SubmitInv, UNCHANGED <<sent, submitState, failures, doubled>>
    PROVE  SubmitInv'
BY DEF SubmitInv, SentType, Accounted, PageIsHonest, Requested, Undertaken, Waiting, StoredRows

LEMMA SubmitStep ==
    ASSUME SubmitInv, [WizardNext]_wizardVars
    PROVE  SubmitInv'
<1>. USE DEF SubmitInv
<1>1. ASSUME NEW s \in Sends, PressSubmit(s)
      PROVE  SubmitInv'
  <2>1. CASE badDate
    BY <1>1, <2>1, SubmitUntouched DEF PressSubmit, OnSubmit
  <2>2. CASE ~badDate
    BY <1>1, <2>2, SendIsCounted DEF PressSubmit, OnPage, CanSubmit, OnSubmit
  <2>. QED  BY <2>1, <2>2
<1>2. ASSUME NEW s \in Sends, PressEnter(s)
      PROVE  SubmitInv'
  <2>1. CASE badDate
    BY <1>2, <2>1, SubmitUntouched DEF PressEnter, OnSubmit
  <2>2. CASE ~badDate
    BY <1>2, <2>2, SendIsCounted DEF PressEnter, OnPage, OnSubmit, PageIsHonest
  <2>. QED  BY <2>1, <2>2
<1>3. ASSUME NEW s \in Sends, ContinueSubmits(s)
      PROVE  SubmitInv'
  BY <1>3, SendIsCounted DEF ContinueSubmits, OnPage, history
<1>4. ASSUME NEW s \in Sends, Stored(s)
      PROVE  SubmitInv'
  <2>1. sent[s].phase = "sent" /\ sent'[s].phase \in {"stored", "refused"}
        /\ sent'[s].awaited = sent[s].awaited
    BY <1>4 DEF Stored, SentType
  <2>2. \A o \in Sends \ {s} : sent'[o] = sent[o]
    BY <1>4 DEF Stored, SentType
  <2>3. Requested' = Requested /\ SentType'
    BY <1>4, <2>1, <2>2 DEF Stored, SentType, Phases, Requested, history
  <2>4. Accounted'
    BY <1>4, <2>3 DEF Stored, Accounted, Undertaken, history
  <2>5. PageIsHonest'
    BY <1>4, <2>1, <2>2 DEF Stored, PageIsHonest, Waiting, StoredRows
  <2>. QED  BY <2>3, <2>4, <2>5
<1>5. ASSUME NEW s \in Sends, Succeeds(s)
      PROVE  SubmitInv'
  <2>1. \A o \in Sends : sent'[o].phase = sent[o].phase
    BY <1>5 DEF Succeeds, SentType
  <2>2. Requested' = Requested /\ SentType'
    BY <1>5, <2>1 DEF Succeeds, SentType, Requested, history
  <2>3. Accounted'
    BY <1>5, <2>2, FS_CardinalityType, FS_Subset
    DEF Succeeds, Accounted, Undertaken, history, SentType
  <2>4. PageIsHonest'
    BY <1>5, <2>1 DEF Succeeds, PageIsHonest, Waiting, StoredRows
  <2>. QED  BY <2>2, <2>3, <2>4
<1>6. ASSUME NEW s \in Sends, Fails(s)
      PROVE  SubmitInv'
  <2>1. \A o \in Sends : sent'[o].phase = sent[o].phase
    BY <1>6 DEF Fails, SentType
  <2>2. Requested' = Requested /\ SentType'
    BY <1>6, <2>1 DEF Fails, SentType, Requested
  <2>3. Accounted'
    BY <1>6, <2>2, FS_CardinalityType, FS_Subset DEF Fails, Accounted, Undertaken, SentType
  <2>4. PageIsHonest'
    BY <1>6 DEF Fails, PageIsHonest
  <2>. QED  BY <2>2, <2>3, <2>4
<1>7. CASE DismissError
  BY <1>7 DEF DismissError, SentType, Accounted, PageIsHonest, Requested, Undertaken, history
<1>8. CASE \/ NextStep \/ PrevStep \/ ToggleManual \/ Locate \/ UNCHANGED wizardVars
           \/ \E bad \in BOOLEAN : EnterDate(bad)
           \/ \E c \in Coords : EnterCoordinate(c)
           \/ \E a \in {"none", "address"} : EnterAddress(a)
           \/ \E q \in search : Located(q) \/ NotLocated(q)
  BY <1>8, SubmitUntouched
  DEF NextStep, PrevStep, ToggleManual, Locate, wizardVars, EnterDate, EnterCoordinate,
      EnterAddress, Located, NotLocated, history
<1>. QED
  BY <1>1, <1>2, <1>3, <1>4, <1>5, <1>6, <1>7, <1>8 DEF WizardNext

\* A person who is told of no failure gets at most one pickup, and of no other
\* request than the ones he sent himself by Enter while one was under way; and
\* the page says success only when a row is there, for any number of requests
\* (page.tsx:224-273).
THEOREM OnePickupCorrect == WizardSpec => []OnePickupPerRequest
<1>1. WizardInit => SubmitInv
  <2>. SUFFICES ASSUME WizardInit  PROVE SubmitInv
    OBVIOUS
  <2>1. Requested = {} /\ doubled = {} /\ failures = 0 /\ submitState = "idle"
    BY DEF WizardInit, Requested, Unsent
  <2>2. SentType
    BY <2>1 DEF WizardInit, SentType, Phases, Unsent
  <2>3. Accounted
    BY <2>1, FS_EmptySet DEF Accounted, Undertaken
  <2>4. PageIsHonest
    BY <2>1 DEF PageIsHonest
  <2>. QED  BY <2>2, <2>3, <2>4 DEF SubmitInv
<1>2. SubmitInv /\ [WizardNext]_wizardVars => SubmitInv'
  BY SubmitStep
<1>3. SubmitInv => OnePickupPerRequest
  <2>. SUFFICES ASSUME SubmitInv  PROVE OnePickupPerRequest
    OBVIOUS
  <2>1. StoredRows \subseteq Requested
    BY DEF StoredRows, Requested
  <2>2. /\ IsFiniteSet(StoredRows) /\ IsFiniteSet(doubled)
        /\ Cardinality(StoredRows) <= Cardinality(Requested)
    BY <2>1, FS_Subset DEF SubmitInv, SentType, Accounted
  <2>3. Cardinality(StoredRows) \in Nat /\ Cardinality(Requested) \in Nat
        /\ Cardinality(doubled) \in Nat
    BY <2>2, FS_CardinalityType DEF SubmitInv, Accounted
  <2>. QED
    BY <2>2, <2>3 DEF SubmitInv, SentType, Accounted, PageIsHonest, Undertaken,
       OnePickupPerRequest
<1>. QED  BY <1>1, <1>2, <1>3, PTL DEF WizardSpec

-----------------------------------------------------------------------------
(* Pages: what a page shows after its own changes.  Loads overtake each    *)
(* other, so the invariant is about the load of a group that was begun     *)
(* last: it is the one that knows the changes the page made, and until its *)
(* answer is in, the group is not at rest.                                 *)

\* The loads of a page.
Promises(p) ==
    AtOnce(p) \cup Reloads(p) \cup (IF p = "admin" THEN {{t} : t \in Group["admin"]} ELSE {})

PageLoads ==
    {Free}
    \cup [phase : {"sent"}, groups : Promises(page), number : Nat, crossed : BOOLEAN]
    \cup UNION {[phase : {"read"}, groups : {G}, number : Nat, crossed : BOOLEAN,
                 lost : SUBSET G, knows : SUBSET (1..now)] : G \in Promises(page)}

PageActions ==
    {Free} \cup [phase : {"sent"}, since : Nat]
    \cup [phase : {"made"}, since : Nat, change : 1..now]

\* Nothing is known before the server has it.
DataType ==
    /\ page \in Page /\ now \in 0..MaxChanges
    /\ shown \in [Groups -> SUBSET (1..now)] /\ again \in [Groups -> SUBSET (1..now)]
    /\ \A g \in Groups : again[g] \subseteq shown[g]
    /\ mine \subseteq 1..now

LoadType ==
    /\ load \in [Loads -> PageLoads] /\ action \in [Actions -> PageActions]
    /\ begun \in Nat /\ newest \in [Groups -> 0..begun]
    /\ spinner \subseteq Group[page] /\ failed \subseteq Group[page]
    /\ error \in BOOLEAN /\ hidden \in BOOLEAN

\* The loads of a group have numbers of their own.
Numbered ==
    \A l \in Loads : load[l] # Free =>
        /\ load[l].number \in 1..begun
        /\ \A g \in load[l].groups :
              /\ load[l].number # newest[g]
              /\ \A m \in Loading(g) : m # l => load[m].number # load[l].number

\* The groups that are to show the changes of the page.
Tracked(g) == g \in (UNION Reloads(page)) \cup {"reports"}

Latest(l, g) == \A m \in Loading(g) : load[m].number <= load[l].number
Awaited(g) == \E l \in Loading(g) : load[l].number > newest[g]
Informed(l) == load[l].crossed \/ load[l].phase = "sent" \/ mine \subseteq load[l].knows

\* The load of a group begun last is the one that knows the changes of the page,
\* or will.
LatestKnows ==
    \A g \in Group[page] : \A l \in Loading(g) :
        Tracked(g) /\ Latest(l, g) /\ load[l].number > newest[g] => Informed(l)

\* When it is in, the group shows them.
ShownKnows ==
    \A g \in Group[page] :
        Tracked(g) /\ ~Awaited(g) => mine \subseteq shown[g] \/ g \in outrun \cup failed

OnceShown == \A g \in Group[page] : g \notin outrun \cup failed => again[g] = {}

\* A report that was made is not in the list as it was when its form was sent.
NotYetShown ==
    page = "complaints" => \A a \in Actions : action[a] # Free =>
        /\ newest["reports"] >= action[a].since
        /\ action[a].phase = "made" /\ newest["reports"] = action[a].since
           /\ "reports" \notin outrun => action[a].change \notin shown["reports"]

OneForm == page = "complaints" => \A a, b \in Actions : a \in Busy /\ b \in Busy => a = b

Spinning == \A g \in spinner : Loading(g) # {}

\* A group stays as it was, without being the route, only if its load rejected.
\* The message goes when all loads that may reject are under way again, or by
\* the hand of an action.
Silent(g) == OnFailure(g) = "keep" \/ (OnFailure(g) = "empty" /\ shown[g] = {})
MayReject(g) == \E G \in Promises(page) : g \in G /\ Messages(G)

FailureTold ==
    \A g \in failed :
        \/ Silent(g)
        \/ MayReject(g) /\ (error \/ hidden \/ Loading(g) # {})

PageInv ==
    /\ DataType /\ LoadType /\ Numbered /\ LatestKnows /\ ShownKnows
    /\ OnceShown /\ NotYetShown /\ OneForm /\ Spinning /\ FailureTold

-----------------------------------------------------------------------------
(* The pages one by one.                                                   *)

LEMMA PageNames ==
    Page = {"dashboard", "complaints", "schedules", "admin", "organization", "company",
            "recycler", "collector"}
BY DEF Page, PageNamed

LEMMA GroupNames ==
    /\ Group["dashboard"] = {"pickups", "points", "notifications"}
    /\ Group["complaints"] = {"reports"} /\ Group["schedules"] = {"schedules"}
    /\ Group["admin"] = {"overview", "complaints", "map"}
    /\ Group["organization"] = {"staff", "locations"}
    /\ Group["company"] = {"kpis", "tables", "figures"}
    /\ Group["recycler"] = {"records"} /\ Group["collector"] = {"assignments", "route"}
<1>1. \A p \in Page : Group[p] = DOMAIN PageNamed[p].onFailure
  BY DEF Group
<1>2. /\ DashboardPage.onFailure =
            [pickups |-> "message", points |-> "empty", notifications |-> "empty"]
      /\ AdminPage.onFailure = [overview |-> "empty", complaints |-> "empty", map |-> "empty"]
  BY DEF DashboardPage, AdminPage
<1>3. /\ CompanyPage.onFailure =
            [kpis |-> "message", tables |-> "message", figures |-> "empty"]
      /\ CollectorPage.onFailure = [assignments |-> "empty", route |-> "keep"]
  BY DEF CompanyPage, CollectorPage
<1>4. /\ ComplaintsPage.onFailure = [reports |-> "message"]
      /\ SchedulesPage.onFailure = [schedules |-> "empty"]
      /\ OrganizationPage.onFailure = [staff |-> "message", locations |-> "empty"]
      /\ RecyclerPage.onFailure = [records |-> "empty"]
  BY DEF ComplaintsPage, SchedulesPage, OrganizationPage, RecyclerPage
<1>5. /\ PageNamed["dashboard"] = DashboardPage /\ PageNamed["complaints"] = ComplaintsPage
      /\ PageNamed["schedules"] = SchedulesPage /\ PageNamed["admin"] = AdminPage
      /\ PageNamed["organization"] = OrganizationPage /\ PageNamed["company"] = CompanyPage
      /\ PageNamed["recycler"] = RecyclerPage /\ PageNamed["collector"] = CollectorPage
  BY DEF PageNamed
<1>6. /\ Group["dashboard"] = {"pickups", "points", "notifications"}
      /\ Group["admin"] = {"overview", "complaints", "map"}
  BY <1>1, <1>2, <1>5, PageNames
<1>7. /\ Group["company"] = {"kpis", "tables", "figures"}
      /\ Group["collector"] = {"assignments", "route"}
  BY <1>1, <1>3, <1>5, PageNames
<1>8. /\ Group["complaints"] = {"reports"} /\ Group["schedules"] = {"schedules"}
      /\ Group["organization"] = {"staff", "locations"} /\ Group["recycler"] = {"records"}
  BY <1>1, <1>4, <1>5, PageNames
<1>. QED  BY <1>6, <1>7, <1>8

LEMMA LoadNames ==
    /\ AtOnce("dashboard") = {{"pickups", "points"}, {"notifications"}}
    /\ Reloads("dashboard") = {{"pickups", "points"}}
    /\ AtOnce("complaints") = {{"reports"}} /\ Reloads("complaints") = {}
    /\ AtOnce("schedules") = {{"schedules"}} /\ Reloads("schedules") = {{"schedules"}}
    /\ AtOnce("admin") = {{"overview"}} /\ Reloads("admin") = {{"complaints"}}
    /\ AtOnce("organization") = {{"staff", "locations"}}
    /\ Reloads("organization") = {{"staff", "locations"}}
    /\ AtOnce("company") = {{"kpis"}, {"tables", "figures"}}
    /\ Reloads("company") = {{"kpis"}, {"tables", "figures"}}
    /\ AtOnce("recycler") = {{"records"}} /\ Reloads("recycler") = {{"records"}}
    /\ AtOnce("collector") = {{"assignments"}, {"route"}}
    /\ Reloads("collector") = {{"assignments"}, {"route"}}
BY DEF AtOnce, Reloads, PageNamed, DashboardPage, ComplaintsPage, SchedulesPage, AdminPage,
       OrganizationPage, CompanyPage, RecyclerPage, CollectorPage

\* So a page has these loads, which share no group.
LEMMA PageLoadNames ==
    /\ Promises("dashboard") = {{"pickups", "points"}, {"notifications"}}
    /\ Promises("complaints") = {{"reports"}} /\ Promises("schedules") = {{"schedules"}}
    /\ Promises("admin") = {{"overview"}, {"complaints"}, {"map"}}
    /\ Promises("organization") = {{"staff", "locations"}}
    /\ Promises("company") = {{"kpis"}, {"tables", "figures"}}
    /\ Promises("recycler") = {{"records"}}
    /\ Promises("collector") = {{"assignments"}, {"route"}}
<1>1. Promises("admin") = {{"overview"}, {"complaints"}, {"map"}}
  <2>1. {{t} : t \in Group["admin"]} = {{"overview"}, {"complaints"}, {"map"}}
    BY GroupNames
  <2>. QED  BY <2>1, LoadNames DEF Promises
<1>2. \A p \in Page : p # "admin" => Promises(p) = AtOnce(p) \cup Reloads(p)
  BY DEF Promises
<1>3. /\ Promises("dashboard") = {{"pickups", "points"}, {"notifications"}}
      /\ Promises("complaints") = {{"reports"}} /\ Promises("schedules") = {{"schedules"}}
  BY <1>2, LoadNames, PageNames
<1>4. /\ Promises("organization") = {{"staff", "locations"}}
      /\ Promises("company") = {{"kpis"}, {"tables", "figures"}}
  BY <1>2, LoadNames, PageNames
<1>5. /\ Promises("recycler") = {{"records"}}
      /\ Promises("collector") = {{"assignments"}, {"route"}}
  BY <1>2, LoadNames, PageNames
<1>. QED  BY <1>1, <1>3, <1>4, <1>5

LEMMA Apart ==
    ASSUME NEW p \in Page
    PROVE  /\ \A G \in Promises(p) : G \subseteq Group[p] /\ G # {}
           /\ \A G, H \in Promises(p) : G # H => G \cap H = {}
<1>1. CASE p \in {"complaints", "schedules", "recycler"}
  <2>1. Promises(p) = {Group[p]} /\ Group[p] # {}
    <3>1. CASE p = "complaints"
      BY <3>1, PageLoadNames, GroupNames
    <3>2. CASE p = "schedules"
      BY <3>2, PageLoadNames, GroupNames
    <3>3. CASE p = "recycler"
      BY <3>3, PageLoadNames, GroupNames
    <3>. QED  BY <1>1, <3>1, <3>2, <3>3
  <2>. QED  BY <2>1
<1>2. CASE p = "dashboard"
  <2>1. Promises(p) = {{"pickups", "points"}, {"notifications"}}
    BY <1>2, PageLoadNames
  <2>2. Group[p] = {"pickups", "points", "notifications"}
    BY <1>2, GroupNames
  <2>3. \A G \in Promises(p) : G \subseteq Group[p] /\ G # {}
    BY <2>1, <2>2
  <2>4. \A G, H \in Promises(p) : G # H => G \cap H = {}
    BY <2>1
  <2>. QED  BY <2>3, <2>4
<1>3. CASE p = "admin"
  <2>1. Promises(p) = {{"overview"}, {"complaints"}, {"map"}}
    BY <1>3, PageLoadNames
  <2>2. Group[p] = {"overview", "complaints", "map"}
    BY <1>3, GroupNames
  <2>3. \A G \in Promises(p) : G \subseteq Group[p] /\ G # {}
    BY <2>1, <2>2
  <2>4. \A G, H \in Promises(p) : G # H => G \cap H = {}
    BY <2>1
  <2>. QED  BY <2>3, <2>4
<1>4. CASE p = "organization"
  <2>1. Promises(p) = {Group[p]} /\ Group[p] # {}
    BY <1>4, PageLoadNames, GroupNames
  <2>. QED  BY <2>1
<1>5. CASE p = "company"
  <2>1. Promises(p) = {{"kpis"}, {"tables", "figures"}}
    BY <1>5, PageLoadNames
  <2>2. Group[p] = {"kpis", "tables", "figures"}
    BY <1>5, GroupNames
  <2>3. \A G \in Promises(p) : G \subseteq Group[p] /\ G # {}
    BY <2>1, <2>2
  <2>4. \A G, H \in Promises(p) : G # H => G \cap H = {}
    BY <2>1
  <2>. QED  BY <2>3, <2>4
<1>6. CASE p = "collector"
  <2>1. Promises(p) = {{"assignments"}, {"route"}}
    BY <1>6, PageLoadNames
  <2>2. Group[p] = {"assignments", "route"}
    BY <1>6, GroupNames
  <2>3. \A G \in Promises(p) : G \subseteq Group[p] /\ G # {}
    BY <2>1, <2>2
  <2>4. \A G, H \in Promises(p) : G # H => G \cap H = {}
    BY <2>1
  <2>. QED  BY <2>3, <2>4
<1>. QED  BY <1>1, <1>2, <1>3, <1>4, <1>5, <1>6, PageNames

\* What a page may begin together: loads of its own, and with one that may
\* reject all of them.
Together(loads) ==
    /\ loads \subseteq Promises(page) /\ loads # {} /\ IsFiniteSet(loads)
    /\ Messages(UNION loads) => \A G \in Promises(page) : Messages(G) => G \in loads

LEMMA MessagesOfPages ==
    ASSUME page \in Page
    PROVE  /\ page = "dashboard" => Messages({"pickups", "points"}) /\ ~Messages({"notifications"})
           /\ page = "admin" => \A g \in Group[page] : OnFailure(g) = "empty"
           /\ page = "complaints" => Messages({"reports"})
           /\ \A g \in Group[page] : OnFailure(g) \in {"message", "empty", "keep"}
<1>1. page = "dashboard" => /\ OnFailure("pickups") = "message" /\ OnFailure("points") = "empty"
                            /\ OnFailure("notifications") = "empty"
  BY DEF OnFailure, PageNamed, DashboardPage
<1>2. page = "admin" => /\ OnFailure("overview") = "empty" /\ OnFailure("complaints") = "empty"
                        /\ OnFailure("map") = "empty"
  BY DEF OnFailure, PageNamed, AdminPage
<1>3. page = "complaints" => OnFailure("reports") = "message"
  BY DEF OnFailure, PageNamed, ComplaintsPage
<1>4. /\ page = "schedules" => OnFailure("schedules") = "empty"
      /\ page = "recycler" => OnFailure("records") = "empty"
      /\ page = "organization" => /\ OnFailure("staff") = "message"
                                  /\ OnFailure("locations") = "empty"
  BY DEF OnFailure, PageNamed, SchedulesPage, RecyclerPage, OrganizationPage
<1>5. page = "company" => /\ OnFailure("kpis") = "message" /\ OnFailure("tables") = "message"
                          /\ OnFailure("figures") = "empty"
  BY DEF OnFailure, PageNamed, CompanyPage
<1>6. page = "collector" => OnFailure("assignments") = "empty" /\ OnFailure("route") = "keep"
  BY DEF OnFailure, PageNamed, CollectorPage
<1>7. /\ page = "dashboard" => Messages({"pickups", "points"}) /\ ~Messages({"notifications"})
      /\ page = "complaints" => Messages({"reports"})
  BY <1>1, <1>3 DEF Messages
<1>8. \A g \in Group[page] : OnFailure(g) \in {"message", "empty", "keep"}
  BY <1>1, <1>2, <1>3, <1>4, <1>5, <1>6, GroupNames, PageNames
<1>9. page = "admin" => \A g \in Group[page] : OnFailure(g) = "empty"
  BY <1>2, GroupNames
<1>. QED  BY <1>7, <1>8, <1>9

LEMMA GroupsOfPages ==
    ASSUME page \in Page
    PROVE  /\ Group[page] \subseteq Groups
           /\ Together(AtOnce(page))
           /\ Reloads(page) # {} => Together(Reloads(page))
           /\ page \in {"dashboard", "complaints"}
              => Together({G \in AtOnce(page) : Messages(G)})
           /\ page = "admin" => \A t \in Group["admin"] : Together({{t}})
           /\ "reports" \in Group[page] => page = "complaints"
<1>1. Group[page] \subseteq Groups
  BY DEF Groups
<1>2. \A S \in SUBSET Promises(page) : IsFiniteSet(S)
  <2>1. ASSUME NEW S, NEW x, NEW y, NEW z, S \subseteq {x, y, z}
        PROVE  IsFiniteSet(S)
    <3>1. IsFiniteSet({x} \cup {y})
      BY FS_Singleton, FS_AddElement
    <3>2. IsFiniteSet(({x} \cup {y}) \cup {z})
      BY <3>1, FS_AddElement
    <3>3. S \in SUBSET (({x} \cup {y}) \cup {z})
      BY <2>1
    <3>. QED  BY <3>2, <3>3, FS_Subset
  <2>2. \/ Group[page] \subseteq {"pickups", "points", "notifications"}
        \/ Group[page] \subseteq {"overview", "complaints", "map"}
        \/ Group[page] \subseteq {"reports", "schedules", "records"}
        \/ Group[page] \subseteq {"kpis", "tables", "figures"}
        \/ Group[page] \subseteq {"assignments", "route", "route"}
        \/ Group[page] \subseteq {"staff", "locations", "locations"}
    BY GroupNames, PageNames
  <2>3. IsFiniteSet(SUBSET Group[page])
    BY <2>1, <2>2, FS_SUBSET
  <2>4. \A S \in SUBSET Promises(page) : S \in SUBSET (SUBSET Group[page])
    BY Apart
  <2>. QED  BY <2>3, <2>4, FS_Subset
<1>3. ASSUME page \in {"schedules", "organization", "company", "recycler", "collector"}
      PROVE  /\ AtOnce(page) = Promises(page) /\ Reloads(page) = Promises(page)
             /\ Together(Promises(page))
  <2>1. AtOnce(page) = Promises(page) /\ Reloads(page) = Promises(page)
    BY <1>3, LoadNames, PageLoadNames
  <2>2. Promises(page) # {}
    BY <1>3, PageLoadNames
  <2>. QED  BY <1>2, <2>1, <2>2 DEF Together
<1>4. CASE page = "dashboard"
  <2>1. Together(Promises(page)) /\ AtOnce(page) = Promises(page)
    <3>1. AtOnce(page) = Promises(page) /\ Promises(page) # {}
      BY <1>4, LoadNames, PageLoadNames
    <3>. QED  BY <1>2, <3>1 DEF Together
  <2>2. Together({{"pickups", "points"}})
    <3>1. {{"pickups", "points"}} \subseteq Promises(page)
      BY <1>4, PageLoadNames
    <3>2. \A G \in Promises(page) : Messages(G) => G \in {{"pickups", "points"}}
      BY <1>4, PageLoadNames, MessagesOfPages
    <3>. QED  BY <1>2, <3>1, <3>2 DEF Together
  <2>3. {G \in AtOnce(page) : Messages(G)} = {{"pickups", "points"}}
    BY <1>4, LoadNames, MessagesOfPages
  <2>4. Reloads(page) = {{"pickups", "points"}}
    BY <1>4, LoadNames
  <2>. QED  BY <1>1, <1>4, <2>1, <2>2, <2>3, <2>4, GroupNames
<1>5. CASE page = "complaints"
  <2>1. /\ AtOnce(page) = {{"reports"}} /\ Promises(page) = {{"reports"}}
        /\ Reloads(page) = {} /\ Messages({"reports"})
    <3>1. AtOnce(page) = {{"reports"}} /\ Promises(page) = {{"reports"}} /\ Reloads(page) = {}
      BY <1>5, LoadNames, PageLoadNames
    <3>2. Messages({"reports"})
      BY <1>5, MessagesOfPages
    <3>. QED  BY <3>1, <3>2
  <2>2. {G \in AtOnce(page) : Messages(G)} = AtOnce(page)
    BY <2>1
  <2>3. Together(AtOnce(page))
    BY <1>2, <2>1 DEF Together
  <2>. QED  BY <1>1, <1>5, <2>1, <2>2, <2>3
<1>6. CASE page = "admin"
  <2>1. ASSUME NEW t \in Group["admin"]
        PROVE  Together({{t}})
    <3>1. {{t}} \subseteq Promises(page)
      BY <1>6, PageLoadNames, GroupNames
    <3>2. ~Messages(UNION {{t}})
      BY <1>6, MessagesOfPages DEF Messages
    <3>. QED  BY <1>2, <3>1, <3>2 DEF Together
  <2>2. /\ AtOnce(page) = {{"overview"}} /\ Reloads(page) = {{"complaints"}}
        /\ "overview" \in Group["admin"] /\ "complaints" \in Group["admin"]
        /\ "reports" \notin Group[page]
    BY <1>6, LoadNames, GroupNames
  <2>. QED  BY <1>1, <1>6, <2>1, <2>2
<1>7. "reports" \in Group[page] => page = "complaints"
  BY GroupNames, PageNames
<1>. QED  BY <1>1, <1>3, <1>4, <1>5, <1>6, <1>7, PageNames

-----------------------------------------------------------------------------
(* Loads.                                                                  *)

\* What a load may be, in the words of the handlers.
LEMMA LoadShape ==
    ASSUME LoadType, NEW l \in Loads
    PROVE  /\ load[l] # Free <=> load[l].phase \in {"sent", "read"}
           /\ load[l] # Free => /\ load[l].groups \in Promises(page) /\ load[l].number \in Nat
                                /\ load[l].crossed \in BOOLEAN
           /\ load[l].phase = "read" => /\ load[l].lost \subseteq load[l].groups
                                        /\ load[l].knows \subseteq 1..now
           /\ load[l].phase = "sent" => load[l] = [phase |-> "sent", groups |-> load[l].groups,
                    number |-> load[l].number, crossed |-> load[l].crossed]
           /\ load[l].phase = "read" => load[l] = [phase |-> "read", groups |-> load[l].groups,
                    number |-> load[l].number, crossed |-> load[l].crossed,
                    lost |-> load[l].lost, knows |-> load[l].knows]
<1>1. load[l] \in PageLoads
  BY DEF LoadType
<1>. QED  BY <1>1 DEF PageLoads, Free

\* It fills groups of its page.
LEMMA LoadGroups ==
    ASSUME LoadType, page \in Page, NEW g, NEW l \in Loading(g)
    PROVE  /\ l \in Loads /\ load[l] # Free /\ g \in load[l].groups
           /\ g \in Group[page] /\ g \in Groups /\ load[l].number \in Nat
<1>1. l \in Loads /\ load[l] # Free /\ g \in load[l].groups
  BY DEF Loading
<1>2. load[l].groups \in Promises(page) /\ load[l].number \in Nat
  BY <1>1, LoadShape
<1>3. g \in Group[page]
  BY <1>1, <1>2, Apart
<1>. QED  BY <1>1, <1>2, <1>3, GroupsOfPages

LEMMA ActionShape ==
    ASSUME LoadType, NEW a \in Actions
    PROVE  /\ action[a] # Free <=> action[a].phase \in {"sent", "made"}
           /\ action[a] # Free => action[a].since \in Nat
           /\ action[a].phase = "made" => action[a].change \in 1..now
<1>1. action[a] \in PageActions
  BY DEF LoadType
<1>. QED  BY <1>1 DEF PageActions, Free

\* Loads begin: each takes a free slot and the greatest number, and the others
\* stay.
LEMMA Begun ==
    ASSUME LoadType, page \in Page, NEW loads, Together(loads), Begin(loads)
    PROVE  \E slot \in [loads -> Loads] :
              /\ \A G \in loads : load[slot[G]] = Free
              /\ \A G \in loads : load'[slot[G]] =
                    [phase |-> "sent", groups |-> G, number |-> begun + 1, crossed |-> FALSE]
              /\ \A l \in Loads : load'[l] = load[l] \/ \E G \in loads : l = slot[G]
              /\ \A G \in loads : \A H \in loads : G # H => slot[G] # slot[H]
              /\ DOMAIN load' = Loads /\ load' = [l \in Loads |-> load'[l]]
              /\ begun' \in Nat /\ begun' >= begun + 1
<1>. DEFINE slots == {s \in [loads -> Loads] :
                        /\ \A G \in loads : load[s[G]] = Free
                        /\ \A G, H \in loads : G # H => s[G] # s[H]}
            slot == CHOOSE s \in slots : TRUE
            start(G) == [phase |-> "sent", groups |-> G, number |-> begun + 1,
                         crossed |-> FALSE]
<1>1. slots # {}
  BY DEF Begin
<1>2. slot \in slots
  BY <1>1
<1>3. load' = [l \in Loads |-> IF \E G \in loads : slot[G] = l
                               THEN start(CHOOSE G \in loads : slot[G] = l) ELSE load[l]]
  BY DEF Begin
<1>4. slot \in [loads -> Loads] /\ \A G \in loads : load[slot[G]] = Free
  BY <1>2
<1>5. \A G \in loads : \A H \in loads : G # H => slot[G] # slot[H]
  BY <1>2
<1>. HIDE DEF slot
<1>6. ASSUME NEW G \in loads
      PROVE  load'[slot[G]] = start(G)
  <2>1. G = CHOOSE H \in loads : slot[H] = slot[G]
    BY <1>5
  <2>2. load'[slot[G]] = start(CHOOSE H \in loads : slot[H] = slot[G])
    BY <1>3, <1>4
  <2>. QED  BY <2>1, <2>2
<1>7. \A l \in Loads : load'[l] = load[l] \/ \E G \in loads : l = slot[G]
  BY <1>3
<1>8. DOMAIN load' = Loads /\ load' = [l \in Loads |-> load'[l]]
  BY <1>3
<1>9. begun' \in Nat /\ begun' >= begun + 1
  <2>1. IsFiniteSet(loads) /\ loads # {}
    BY DEF Together
  <2>2. Cardinality(loads) \in Nat /\ Cardinality(loads) # 0
    BY <2>1, FS_CardinalityType, FS_EmptySet
  <2>3. begun' = begun + Cardinality(loads)
    BY DEF Begin
  <2>. QED  BY <2>2, <2>3 DEF LoadType
<1>. QED  BY <1>4, <1>5, <1>6, <1>7, <1>8, <1>9

\* What that means for the loads under way.
LEMMA BegunLoads ==
    ASSUME LoadType, Numbered, page \in Page, NEW loads, Together(loads), Begin(loads),
           UNCHANGED <<page, now, newest>>
    PROVE  /\ load' \in [Loads -> PageLoads'] /\ begun' \in Nat /\ begun' > begun
           /\ Numbered'
           /\ \A g : Loading(g) \subseteq Loading(g)'
           /\ \A g \in UNION loads : \E l \in Loading(g)' : load'[l].number = begun + 1
           /\ \A l \in Loads : load'[l] # Free =>
                 \/ load'[l] = load[l] /\ load[l].number <= begun
                 \/ /\ load'[l].groups \in loads /\ load'[l].number = begun + 1
                    /\ load'[l].phase = "sent"
<1>. PICK slot \in [loads -> Loads] :
              /\ \A G \in loads : load[slot[G]] = Free
              /\ \A G \in loads : load'[slot[G]] =
                    [phase |-> "sent", groups |-> G, number |-> begun + 1, crossed |-> FALSE]
              /\ \A l \in Loads : load'[l] = load[l] \/ \E G \in loads : l = slot[G]
              /\ \A G \in loads : \A H \in loads : G # H => slot[G] # slot[H]
              /\ DOMAIN load' = Loads /\ load' = [l \in Loads |-> load'[l]]
              /\ begun' \in Nat /\ begun' >= begun + 1
  BY Begun
<1>0. /\ loads \subseteq Promises(page) /\ Promises(page)' = Promises(page)
      /\ \A G, H \in loads : G # H => G \cap H = {}
  BY Apart DEF Together, Promises, AtOnce, Reloads
<1>1. ASSUME NEW G \in loads
      PROVE  /\ load'[slot[G]] # Free /\ load'[slot[G]].phase = "sent"
             /\ load'[slot[G]].groups = G /\ load'[slot[G]].number = begun + 1
             /\ load'[slot[G]] \in PageLoads'
  <2>1. load'[slot[G]] = [phase |-> "sent", groups |-> G, number |-> begun + 1,
                          crossed |-> FALSE]
    OBVIOUS
  <2>2. /\ load'[slot[G]].phase = "sent" /\ load'[slot[G]].groups = G
        /\ load'[slot[G]].number = begun + 1
    BY <2>1
  <2>3. load'[slot[G]] # Free
    BY <2>2 DEF Free
  <2>4. G \in Promises(page)' /\ begun + 1 \in Nat
    BY <1>0 DEF LoadType
  <2>5. load'[slot[G]] \in [phase : {"sent"}, groups : Promises(page)', number : Nat,
                           crossed : BOOLEAN]
    BY <2>1, <2>4
  <2>. QED  BY <2>2, <2>3, <2>5 DEF PageLoads
<1>2. load' \in [Loads -> PageLoads']
  <2>1. PageLoads' = PageLoads
    BY <1>0 DEF PageLoads
  <2>2. \A l \in Loads : load'[l] \in PageLoads'
    BY <1>1, <2>1 DEF LoadType
  <2>. QED  BY <2>2
<1>3. begun' \in Nat /\ begun' > begun
  BY DEF LoadType
<1>4. \A l \in Loads : load'[l] # Free =>
         \/ load'[l] = load[l] /\ load[l].number \in 1..begun
         \/ \E G \in loads : l = slot[G] /\ load'[l].groups = G
                             /\ load'[l].number = begun + 1 /\ load'[l].phase = "sent"
  BY <1>1 DEF Numbered
<1>5. \A l \in Loads : load[l] # Free => load'[l] = load[l]
  OBVIOUS
<1>6. \A g : Loading(g) \subseteq Loading(g)'
  BY <1>5 DEF Loading
<1>7. \A g \in UNION loads : \E l \in Loading(g)' : load'[l].number = begun + 1
  BY <1>1 DEF Loading
<1>8. Numbered'
  <2>. SUFFICES ASSUME NEW l \in Loads, load'[l] # Free
                PROVE  /\ load'[l].number \in 1..begun'
                       /\ \A g \in load'[l].groups :
                             /\ load'[l].number # newest[g]
                             /\ \A m \in Loading(g)' : m # l
                                   => load'[m].number # load'[l].number
    BY DEF Numbered
  <2>0. load'[l].number \in 1..begun'
    BY <1>3, <1>4 DEF LoadType
  <2>. SUFFICES ASSUME NEW g \in load'[l].groups
                PROVE  /\ load'[l].number # newest[g]
                       /\ \A m \in Loading(g)' : m # l => load'[m].number # load'[l].number
    BY <2>0
  <2>1. g \in Groups
    <3>1. load'[l].groups \in Promises(page)
      <4>1. CASE load'[l] = load[l]
        BY <4>1, LoadShape
      <4>2. CASE \E G \in loads : load'[l].groups = G
        BY <1>0, <4>2
      <4>. QED  BY <1>4, <4>1, <4>2
    <3>. QED  BY <3>1, Apart, GroupsOfPages
  <2>2. ASSUME NEW m \in Loading(g)', m # l
        PROVE  /\ m \in Loads /\ load'[m] # Free /\ g \in load'[m].groups
               /\ \/ load'[m] = load[m] /\ load[m].number \in 1..begun
                  \/ \E G \in loads : m = slot[G] /\ load'[m].groups = G
                                      /\ load'[m].number = begun + 1
    BY <1>4 DEF Loading
  <2>3. CASE load'[l] = load[l] /\ load[l].number \in 1..begun
    <3>1. load[l].number # newest[g]
      BY <2>3 DEF Numbered
    <3>2. ASSUME NEW m \in Loading(g)', m # l, load'[m] = load[m]
          PROVE  load'[m].number # load'[l].number
      <4>1. m \in Loading(g)
        BY <2>2, <3>2 DEF Loading
      <4>. QED  BY <2>3, <3>2, <4>1 DEF Numbered
    <3>3. ASSUME NEW m \in Loading(g)', load'[m].number = begun + 1
          PROVE  load'[m].number # load'[l].number
      BY <2>3, <3>3 DEF LoadType
    <3>. QED  BY <2>2, <2>3, <3>1, <3>2, <3>3
  <2>4. CASE \E G \in loads : l = slot[G] /\ load'[l].groups = G
                              /\ load'[l].number = begun + 1
    <3>1. load'[l].number # newest[g]
      BY <2>1, <2>4 DEF LoadType
    <3>2. ASSUME NEW m \in Loading(g)', m # l
          PROVE  load'[m].number # load'[l].number
      <4>1. CASE load[m].number \in 1..begun /\ load'[m] = load[m]
        BY <2>4, <4>1 DEF LoadType
      <4>2. CASE \E G \in loads : m = slot[G] /\ load'[m].groups = G
        BY <1>0, <2>2, <2>4, <3>2, <4>2
      <4>. QED  BY <2>2, <3>2, <4>1, <4>2
    <3>. QED  BY <3>1, <3>2
  <2>. QED  BY <1>4, <2>3, <2>4
<1>9. \A l \in Loads : load'[l] # Free =>
         \/ load'[l] = load[l] /\ load[l].number <= begun
         \/ load'[l].groups \in loads /\ load'[l].number = begun + 1 /\ load'[l].phase = "sent"
  BY <1>4 DEF LoadType
<1>. QED  BY <1>2, <1>3, <1>6, <1>7, <1>8, <1>9

\* Nothing is lost when loads begin: a change of the page their groups do not
\* show yet is one they will know.
LEMMA BeginKeeps ==
    ASSUME PageInv, NEW loads, Together(loads), Begin(loads),
           UNCHANGED <<page, now, shown, again, newest, outrun, failed>>,
           mine' \subseteq 1..now,
           mine' = mine \/ \A g \in Group[page] : Tracked(g) => g \in UNION loads,
           action' \in [Actions -> PageActions],
           \A a \in Actions : action'[a] = action[a] \/ action'[a] = Free
    PROVE  PageInv'
<1>. USE DEF PageInv
<1>1. /\ page \in Page /\ loads \subseteq Promises(page) /\ UNION loads \subseteq Group[page]
      /\ Promises(page)' = Promises(page)
  BY Apart DEF Together, DataType, Promises, AtOnce, Reloads
<1>2. /\ load' \in [Loads -> PageLoads'] /\ begun' \in Nat /\ begun' > begun
      /\ Numbered'
      /\ \A g : Loading(g) \subseteq Loading(g)'
      /\ \A g \in UNION loads : \E l \in Loading(g)' : load'[l].number = begun + 1
      /\ \A l \in Loads : load'[l] # Free =>
            \/ load'[l] = load[l] /\ load[l].number <= begun
            \/ /\ load'[l].groups \in loads /\ load'[l].number = begun + 1
               /\ load'[l].phase = "sent"
  BY <1>1, BegunLoads
<1>3. DataType'
  BY DEF DataType
<1>4. \A g \in Groups : newest[g] \in Nat /\ newest[g] <= begun
  BY DEF LoadType
<1>5. LoadType'
  <2>1. PageActions' = PageActions
    BY DEF PageActions
  <2>2. newest' \in [Groups -> 0..begun']
    BY <1>2, <1>4 DEF LoadType
  <2>3. spinner' \subseteq Group[page] /\ error' \in BOOLEAN /\ hidden' \in BOOLEAN
    BY <1>1 DEF Begin, LoadType
  <2>. QED  BY <1>2, <2>1, <2>2, <2>3 DEF LoadType
<1>6. ASSUME NEW g, g \notin UNION loads
      PROVE  Loading(g)' = Loading(g) /\ \A l \in Loading(g) : load'[l] = load[l]
  <2>1. ASSUME NEW l \in Loading(g)'
        PROVE  l \in Loading(g) /\ load'[l] = load[l]
    <3>1. l \in Loads /\ load'[l] # Free /\ g \in load'[l].groups
      BY DEF Loading
    <3>2. load'[l] = load[l]
      BY <1>2, <1>6, <3>1
    <3>. QED  BY <3>1, <3>2 DEF Loading
  <2>. QED  BY <1>2, <2>1
<1>7. LatestKnows'
  <2>. SUFFICES ASSUME NEW g \in Group[page], NEW l \in Loading(g)',
                       Tracked(g)', Latest(l, g)', load'[l].number > newest[g]
                PROVE  Informed(l)'
    BY DEF LatestKnows
  <2>1. Tracked(g) /\ l \in Loads /\ load'[l] # Free
    BY DEF Tracked, Reloads, Loading
  <2>2. CASE load'[l].phase = "sent"
    BY <2>2 DEF Informed
  <2>3. CASE g \in UNION loads /\ load'[l].phase # "sent"
    <3>1. PICK m \in Loading(g)' : load'[m].number = begun + 1
      BY <1>2, <2>3
    <3>2. load'[m].number <= load'[l].number
      BY DEF Latest
    <3>3. load'[l] = load[l] /\ load[l].number <= begun /\ load[l].number \in Nat
      BY <1>2, <2>1, <2>3, LoadShape
    <3>. QED  BY <3>1, <3>2, <3>3 DEF LoadType
  <2>4. CASE g \notin UNION loads
    <3>1. l \in Loading(g) /\ load'[l] = load[l] /\ Latest(l, g)
      BY <1>6, <2>4 DEF Latest
    <3>2. mine' = mine
      BY <2>1, <2>4
    <3>3. Informed(l)
      BY <2>1, <3>1 DEF LatestKnows
    <3>. QED  BY <3>1, <3>2, <3>3 DEF Informed
  <2>. QED  BY <2>2, <2>3, <2>4
<1>8. ShownKnows'
  <2>. SUFFICES ASSUME NEW g \in Group[page], Tracked(g)', ~Awaited(g)'
                PROVE  mine' \subseteq shown[g] \/ g \in outrun \cup failed
    BY DEF ShownKnows
  <2>1. g \in Groups
    BY <1>1, GroupsOfPages
  <2>2. g \notin UNION loads
    <3>. SUFFICES ASSUME g \in UNION loads  PROVE FALSE
      OBVIOUS
    <3>1. PICK l \in Loading(g)' : load'[l].number = begun + 1
      BY <1>2
    <3>2. begun + 1 > newest[g]
      BY <1>4, <2>1 DEF LoadType
    <3>. QED  BY <3>1, <3>2 DEF Awaited
  <2>3. Tracked(g) /\ mine' = mine
    BY <2>2 DEF Tracked, Reloads
  <2>4. ~Awaited(g)
    BY <1>6, <2>2 DEF Awaited
  <2>. QED  BY <2>3, <2>4 DEF ShownKnows
<1>9. OnceShown' /\ NotYetShown' /\ OneForm'
  BY DEF OnceShown, NotYetShown, OneForm, Busy
<1>10. Spinning'
  <2>1. \A g \in UNION loads : Loading(g)' # {}
    BY <1>2
  <2>2. \A g \in spinner : Loading(g)' # {}
    BY <1>2 DEF Spinning
  <2>3. spinner' = spinner \cup UNION loads
    BY DEF Begin
  <2>. QED  BY <2>1, <2>2, <2>3 DEF Spinning
<1>11. FailureTold'
  <2>1. \A g : Silent(g)' <=> Silent(g)
    BY DEF Silent, OnFailure
  <2>2. \A g : MayReject(g)' <=> MayReject(g)
    BY <1>1 DEF MayReject, Messages, OnFailure
  <2>. SUFFICES ASSUME NEW g \in failed, ~Silent(g), ~error', ~hidden', Loading(g)' = {}
                PROVE  FALSE
    BY <2>1, <2>2 DEF FailureTold
  <2>3. MayReject(g) /\ Messages(UNION loads)
    <3>1. Loading(g) = {}
      BY <1>2
    <3>2. /\ hidden' = (hidden /\ ~Messages(UNION loads))
          /\ error' = (error /\ ~Messages(UNION loads))
      BY DEF Begin
    <3>. QED  BY <3>1, <3>2 DEF FailureTold
  <2>4. g \in UNION loads
    BY <2>3 DEF Together, MayReject
  <2>. QED  BY <1>2, <2>4
<1>. QED  BY <1>2, <1>3, <1>5, <1>7, <1>8, <1>9, <1>10, <1>11

\* A failure stays told while nothing of it changes but the message.
LEMMA FailureKept ==
    ASSUME FailureTold, page' = page, failed' = failed,
           \A g \in failed : shown'[g] = shown[g] \/ OnFailure(g) = "message",
           \A g : Loading(g)' = Loading(g), error \/ hidden => error' \/ hidden'
    PROVE  FailureTold'
<1>1. \A g : MayReject(g)' <=> MayReject(g)
  BY DEF MayReject, Messages, OnFailure, Promises, AtOnce, Reloads
<1>2. \A g \in failed : Silent(g) => Silent(g)'
  BY DEF Silent, OnFailure
<1>. QED  BY <1>1, <1>2 DEF FailureTold

\* A step in which the server, the loads and the data do not change.
LEMMA PageUntouched ==
    ASSUME PageInv,
           UNCHANGED <<page, now, load, action, shown, again, spinner, error, begun, newest,
                       outrun, failed, hidden, mine>>
    PROVE  PageInv'
<1>. USE DEF PageInv
<1>1. DataType' /\ LoadType'
  BY DEF DataType, LoadType, PageLoads, PageActions, Promises, AtOnce, Reloads
<1>2. \A g : Loading(g)' = Loading(g)
  BY DEF Loading
<1>3. Numbered' /\ OnceShown' /\ NotYetShown' /\ OneForm'
  BY <1>2 DEF Numbered, OnceShown, NotYetShown, OneForm, Busy
<1>4. LatestKnows' /\ ShownKnows'
  BY <1>2 DEF LatestKnows, ShownKnows, Tracked, Reloads, Latest, Awaited, Informed
<1>5. Spinning' /\ FailureTold'
  BY <1>2, FailureKept DEF Spinning
<1>. QED  BY <1>1, <1>3, <1>4, <1>5

\* The kinds of the values grow with the changes made.
LEMMA KindsGrow ==
    ASSUME now \in Nat, now' \in Nat, now <= now', page' = page
    PROVE  /\ PageLoads \subseteq PageLoads' /\ PageActions \subseteq PageActions'
           /\ 1..now \subseteq 1..now'
<1>1. 1..now \subseteq 1..now'
  OBVIOUS
<1>2. PageLoads \subseteq PageLoads'
  BY <1>1 DEF PageLoads, Promises, AtOnce, Reloads
<1>3. PageActions \subseteq PageActions'
  BY <1>1 DEF PageActions
<1>. QED  BY <1>1, <1>2, <1>3

\* A change made on the server is not known to anyone yet.
LEMMA ServerChanges ==
    ASSUME PageInv, now < MaxChanges, now' = now + 1, action' \in [Actions -> PageActions'],
           \A a \in Actions : \/ action'[a] = action[a]
                              \/ /\ action[a] # Free /\ action'[a] # Free
                                 /\ action'[a].since = action[a].since
                                 /\ action'[a].change = now + 1,
           UNCHANGED <<page, load, shown, again, spinner, error, begun, newest, outrun,
                       failed, hidden, mine>>
    PROVE  PageInv'
<1>. USE DEF PageInv
<1>1. now \in Nat /\ now' \in 0..MaxChanges /\ now' \in Nat
  BY PageAssumption DEF DataType
<1>2. /\ PageLoads \subseteq PageLoads' /\ PageActions \subseteq PageActions'
      /\ 1..now \subseteq 1..now'
  BY <1>1, KindsGrow
<1>3. DataType'
  BY <1>1, <1>2 DEF DataType
<1>4. LoadType'
  BY <1>2 DEF LoadType
<1>5. \A g : Loading(g)' = Loading(g)
  BY DEF Loading
<1>6. LatestKnows' /\ ShownKnows'
  BY <1>5 DEF LatestKnows, ShownKnows, Tracked, Reloads, Latest, Awaited, Informed
<1>7. NotYetShown'
  <2>. SUFFICES ASSUME page = "complaints", NEW a \in Actions, action'[a] # Free
                PROVE  /\ newest["reports"] >= action'[a].since
                       /\ action'[a].phase = "made" /\ newest["reports"] = action'[a].since
                          /\ "reports" \notin outrun => action'[a].change \notin shown["reports"]
    BY DEF NotYetShown
  <2>1. CASE action'[a] = action[a]
    BY <2>1 DEF NotYetShown
  <2>2. CASE /\ action[a] # Free /\ action'[a].since = action[a].since
             /\ action'[a].change = now + 1
    <3>1. "reports" \in Groups
      BY GroupNames, PageNames DEF Groups
    <3>2. now + 1 \notin shown["reports"]
      BY <1>1, <3>1 DEF DataType
    <3>. QED  BY <2>2, <3>2 DEF NotYetShown
  <2>. QED  BY <2>1, <2>2
<1>8. Numbered' /\ OnceShown' /\ OneForm'
  BY <1>2, <1>5 DEF Numbered, OnceShown, OneForm, Busy
<1>9. Spinning' /\ FailureTold'
  BY <1>5, FailureKept DEF Spinning
<1>. QED  BY <1>3, <1>4, <1>6, <1>7, <1>8, <1>9

\* The answer to a load tells of every change made by then.
LEMMA ReadKeeps ==
    ASSUME PageInv, NEW l \in Loads, Read(l)
    PROVE  PageInv'
<1>. USE DEF PageInv
<1>. PICK lost \in SUBSET load[l].groups :
        load' = [load EXCEPT ![l] =
           [phase |-> "read", groups |-> load[l].groups, number |-> load[l].number,
            crossed |-> load[l].crossed, lost |-> lost, knows |-> 1..now]]
  BY DEF Read
<1>. UNCHANGED <<page, now, action, shown, again, spinner, error, begun, newest, outrun,
                 failed, hidden, mine>>
  BY DEF Read, data, answers
<1>1. load[l].phase = "sent" /\ load[l] # Free /\ load'[l] # Free
  BY LoadShape DEF Read, Free, LoadType
<1>2. /\ load'[l].groups = load[l].groups /\ load'[l].number = load[l].number
      /\ load'[l].knows = 1..now
  BY DEF LoadType
<1>3. \A m \in Loads : m # l => load'[m] = load[m]
  BY DEF LoadType
<1>4. load' \in [Loads -> PageLoads]
  <2>1. /\ load[l].groups \in Promises(page) /\ load[l].number \in Nat
        /\ load[l].crossed \in BOOLEAN
    BY <1>1, LoadShape
  <2>2. load'[l] \in [phase : {"read"}, groups : {load[l].groups}, number : Nat,
                      crossed : BOOLEAN, lost : SUBSET load[l].groups,
                      knows : SUBSET (1..now)]
    BY <2>1 DEF LoadType
  <2>3. load'[l] \in PageLoads
    BY <2>1, <2>2 DEF PageLoads
  <2>. QED  BY <1>3, <2>3 DEF LoadType
<1>5. \A g : Loading(g)' = Loading(g)
  BY <1>1, <1>2, <1>3 DEF Loading
<1>6. DataType' /\ LoadType'
  <2>1. PageLoads' = PageLoads /\ PageActions' = PageActions
    BY DEF PageLoads, PageActions, Promises, AtOnce, Reloads
  <2>. QED  BY <1>4, <2>1 DEF DataType, LoadType
<1>7. \A m \in Loads : load[m] # Free => /\ load'[m].number = load[m].number
                                         /\ load'[m].groups = load[m].groups
  BY <1>2, <1>3
<1>8. Numbered'
  <2>1. \A m \in Loads : (load'[m] # Free <=> load[m] # Free)
    BY <1>1, <1>3
  <2>2. \A g : \A m \in Loading(g) : m \in Loads /\ load[m] # Free
    BY DEF Loading
  <2>. QED  BY <1>5, <1>7, <2>1, <2>2 DEF Numbered
<1>9. LatestKnows'
  <2>. SUFFICES ASSUME NEW g \in Group[page], NEW m \in Loading(g),
                       Tracked(g)', Latest(m, g)', load'[m].number > newest[g]
                PROVE  Informed(m)'
    BY <1>5 DEF LatestKnows
  <2>1. CASE m = l
    BY <1>2, <2>1 DEF Informed, DataType
  <2>2. CASE m # l
    <3>1. /\ \A k \in Loading(g) : load'[k].number = load[k].number
          /\ m \in Loads /\ load'[m] = load[m]
      BY <1>3, <1>7, <2>2 DEF Loading
    <3>2. Latest(m, g) /\ Tracked(g)
      BY <1>5, <3>1 DEF Latest, Tracked, Reloads
    <3>. QED  BY <3>1, <3>2 DEF LatestKnows, Informed
  <2>. QED  BY <2>1, <2>2
<1>10. ShownKnows'
  <2>1. \A g : Awaited(g)' <=> Awaited(g)
    BY <1>5, <1>7 DEF Awaited, Loading
  <2>. QED  BY <2>1 DEF ShownKnows, Tracked, Reloads
<1>11. OnceShown' /\ NotYetShown' /\ OneForm'
  BY DEF OnceShown, NotYetShown, OneForm, Busy
<1>12. Spinning' /\ FailureTold'
  BY <1>5, FailureKept DEF Spinning
<1>. QED  BY <1>6, <1>8, <1>9, <1>10, <1>11, <1>12

\* An answer that comes in: if it is the one of the newest load, its groups show
\* what the page did; if it is an earlier one, they are outrun.
LEMMA SettleKeeps ==
    ASSUME PageInv, NEW l \in Loads, Settle(l)
    PROVE  PageInv'
<1>. USE DEF PageInv
<1>. DEFINE groups == load[l].groups
<1>. UNCHANGED <<page, now, action, begun, mine>>
  BY DEF Settle
<1>1. /\ load[l].phase = "read" /\ load[l] # Free /\ load[l].number \in 1..begun
      /\ load[l].knows \subseteq 1..now /\ load[l].lost \subseteq groups
      /\ groups \in Promises(page)
  BY LoadShape DEF Settle, Numbered
<1>2. page \in Page /\ groups \subseteq Group[page] /\ Group[page] \subseteq Groups
  BY <1>1, Apart, GroupsOfPages DEF DataType
<1>3. /\ shown' = [g \in Groups |-> IF g \in Brought(l) THEN load[l].knows
                                  ELSE IF g \in Emptied(l) THEN {} ELSE shown[g]]
      /\ again' = [g \in Groups |-> IF g \in Brought(l) \cup Emptied(l) THEN {}
                                  ELSE again[g]]
      /\ newest' = [g \in Groups |-> IF g \in groups /\ newest[g] < load[l].number
                                   THEN load[l].number ELSE newest[g]]
  BY DEF Settle
<1>4. /\ error' = (error \/ Rejected(l)) /\ hidden' = (hidden /\ ~Rejected(l))
      /\ failed' = (failed \cup groups) \ Brought(l)
      /\ spinner' = spinner \ groups /\ load' = [load EXCEPT ![l] = Free]
  BY DEF Settle
<1>5. outrun' = (outrun \ Brought(l))
                   \cup {g \in groups : load[l].number < newest[g] \/ load[l].crossed}
  BY DEF Settle
<1>6. /\ Brought(l) \subseteq groups
      /\ Rejected(l) => Brought(l) = {} /\ Emptied(l) = {}
      /\ ~Rejected(l) => \A g \in groups : g \in Brought(l) \/ g \in load[l].lost
  BY DEF Brought, Emptied
<1>7. \A g \in Emptied(l) : OnFailure(g) = "empty" /\ g \in groups
  BY <1>1 DEF Emptied
<1>. HIDE DEF groups
<1>8. /\ \A m \in Loads : m # l => load'[m] = load[m]
      /\ load'[l] = Free /\ load' \in [Loads -> PageLoads]
  BY <1>4 DEF LoadType, PageLoads
<1>9. /\ \A g : Loading(g)' = Loading(g) \ {l}
      /\ \A g \in groups : l \in Loading(g)
      /\ \A g : g \notin groups => Loading(g)' = Loading(g)
  BY <1>1, <1>8 DEF Loading, groups
<1>10. /\ \A g \in Groups : newest'[g] \in 0..begun
       /\ \A g \in Groups : g \notin groups => newest'[g] = newest[g]
       /\ \A g \in groups : /\ newest'[g] >= newest[g] /\ newest'[g] >= load[l].number
                            /\ newest'[g] = newest[g] \/ newest'[g] = load[l].number
                            /\ load[l].number > newest[g] => newest'[g] = load[l].number
                            /\ load[l].number # newest[g] /\ newest[g] \in 0..begun
  <2>1. \A g \in Groups : newest[g] \in 0..begun
    BY DEF LoadType
  <2>2. \A g \in groups : load[l].number # newest[g]
    BY <1>1 DEF Numbered, groups
  <2>. QED  BY <1>1, <1>2, <1>3, <2>1, <2>2 DEF LoadType
<1>11. DataType'
  <2>1. shown' \in [Groups -> SUBSET (1..now)] /\ again' \in [Groups -> SUBSET (1..now)]
    BY <1>1, <1>3 DEF DataType
  <2>2. \A g \in Groups : again'[g] \subseteq shown'[g]
    BY <1>3 DEF DataType
  <2>. QED  BY <2>1, <2>2 DEF DataType
<1>12. LoadType'
  <2>1. newest' \in [Groups -> 0..begun]
    BY <1>3, <1>10
  <2>2. PageLoads' = PageLoads /\ PageActions' = PageActions
    BY DEF PageLoads, PageActions, Promises, AtOnce, Reloads
  <2>3. spinner' \subseteq Group[page] /\ failed' \subseteq Group[page]
    BY <1>2, <1>4 DEF LoadType
  <2>4. error' \in BOOLEAN /\ hidden' \in BOOLEAN
    BY <1>4 DEF LoadType, Rejected, Messages
  <2>. QED  BY <1>8, <2>1, <2>2, <2>3, <2>4 DEF LoadType
<1>13. ASSUME NEW g, NEW m \in Loading(g)'
       PROVE  /\ m # l /\ m \in Loading(g) /\ load'[m] = load[m] /\ load[m].number \in 1..begun
              /\ load[m].number # newest'[g] /\ (g \in groups => load[m].number # load[l].number)
              /\ m \in Loads /\ load[m] # Free /\ g \in Groups
  <2>1. m # l /\ m \in Loading(g)
    BY <1>9
  <2>2. m \in Loads /\ load[m] # Free /\ g \in load[m].groups /\ g \in Groups
    BY <1>2, <2>1, LoadGroups
  <2>3. /\ load[m].number \in 1..begun /\ load[m].number # newest[g]
        /\ g \in groups => load[m].number # load[l].number
    BY <1>1, <2>1, <2>2 DEF Numbered, groups
  <2>4. newest'[g] = newest[g] \/ (newest'[g] = load[l].number /\ g \in groups)
    <3>1. CASE g \in groups
      BY <1>10, <3>1
    <3>2. CASE g \notin groups
      BY <1>10, <2>2, <3>2
    <3>. QED  BY <3>1, <3>2
  <2>. QED  BY <1>8, <2>1, <2>2, <2>3, <2>4
<1>14. Numbered'
  <2>. SUFFICES ASSUME NEW m \in Loads, load'[m] # Free
                PROVE  /\ load'[m].number \in 1..begun
                       /\ \A g \in load'[m].groups :
                             /\ load'[m].number # newest'[g]
                             /\ \A k \in Loading(g)' : k # m => load'[k].number # load'[m].number
    BY DEF Numbered
  <2>1. load'[m] = load[m] /\ load[m] # Free
    BY <1>8
  <2>2. load[m].number \in 1..begun
    BY <2>1 DEF Numbered
  <2>3. \A g \in load'[m].groups : m \in Loading(g)'
    BY DEF Loading
  <2>4. ASSUME NEW g \in load'[m].groups, NEW k \in Loading(g)', k # m
        PROVE  load'[k].number # load'[m].number
    BY <1>13, <2>1, <2>4 DEF Numbered
  <2>. QED  BY <1>13, <2>1, <2>2, <2>3, <2>4
<1>15. LatestKnows'
  <2>. SUFFICES ASSUME NEW g \in Group[page], NEW m \in Loading(g)',
                       Tracked(g)', Latest(m, g)', load'[m].number > newest'[g]
                PROVE  Informed(m)'
    BY DEF LatestKnows
  <2>1. m \in Loading(g) /\ load'[m] = load[m] /\ Tracked(g)
    BY <1>13 DEF Tracked, Reloads
  <2>2. load[m].number \in 1..begun /\ newest[g] \in 0..begun
    BY <1>2, <1>13 DEF LoadType
  <2>3. load[m].number > newest[g] /\ (g \in groups => load[l].number <= load[m].number)
    <3>1. CASE g \in groups
      BY <1>1, <1>10, <2>1, <2>2, <3>1
    <3>2. CASE g \notin groups
      BY <1>2, <1>10, <2>1, <3>2
    <3>. QED  BY <3>1, <3>2
  <2>4. Latest(m, g)
    <3>. SUFFICES ASSUME NEW k \in Loading(g)  PROVE load[k].number <= load[m].number
      BY DEF Latest
    <3>1. CASE k = l
      BY <2>3, <3>1 DEF Loading, groups
    <3>2. CASE k # l
      <4>1. k \in Loading(g)' /\ load'[k].number <= load'[m].number
        BY <1>9, <3>2 DEF Latest
      <4>. QED  BY <1>13, <2>1, <4>1
    <3>. QED  BY <3>1, <3>2
  <2>. QED  BY <2>1, <2>3, <2>4 DEF LatestKnows, Informed
<1>16. ShownKnows'
  <2>. SUFFICES ASSUME NEW g \in Group[page], Tracked(g)', ~Awaited(g)'
                PROVE  mine \subseteq shown'[g] \/ g \in outrun' \cup failed'
    BY DEF ShownKnows
  <2>1. g \in Groups /\ Tracked(g)
    BY <1>2 DEF Tracked, Reloads
  <2>2. CASE g \notin groups
    <3>1. ~Awaited(g)
      BY <1>9, <1>10, <1>13, <2>1, <2>2 DEF Awaited
    <3>2. shown'[g] = shown[g] /\ (g \in outrun => g \in outrun') /\ (g \in failed => g \in failed')
      <4>1. g \notin Brought(l) /\ g \notin Emptied(l)
        BY <1>6, <1>7, <2>2
      <4>. QED  BY <1>3, <1>4, <1>5, <2>1, <4>1
    <3>. QED  BY <2>1, <3>1, <3>2 DEF ShownKnows
  <2>3. CASE g \in groups /\ (load[l].number < newest[g] \/ load[l].crossed)
    BY <1>5, <2>3
  <2>4. CASE g \in groups /\ load[l].number > newest[g] /\ ~load[l].crossed
    <3>1. Latest(l, g)
      <4>. SUFFICES ASSUME NEW k \in Loading(g)  PROVE load[k].number <= load[l].number
        BY DEF Latest
      <4>1. CASE k = l
        BY <1>1, <4>1
      <4>2. CASE k # l
        <5>1. k \in Loading(g)'
          BY <1>9, <4>2
        <5>2. ~(load'[k].number > newest'[g])
          BY <5>1 DEF Awaited
        <5>3. newest'[g] = load[l].number
          BY <1>10, <2>4
        <5>4. load'[k] = load[k] /\ load[k].number \in 1..begun
          BY <1>13, <5>1
        <5>. QED  BY <1>1, <5>2, <5>3, <5>4
      <4>. QED  BY <4>1, <4>2
    <3>2. Informed(l)
      BY <1>9, <2>1, <2>4, <3>1 DEF LatestKnows
    <3>3. mine \subseteq load[l].knows
      BY <1>1, <2>4, <3>2 DEF Informed
    <3>. QED  BY <1>3, <1>4, <2>1, <2>4, <3>3
  <2>. QED  BY <1>1, <1>10, <2>2, <2>3, <2>4
<1>17. OnceShown'
  <2>. SUFFICES ASSUME NEW g \in Group[page], g \notin outrun' \cup failed'
                PROVE  again'[g] = {}
    BY DEF OnceShown
  <2>1. CASE g \in Brought(l)
    BY <1>2, <1>3, <2>1
  <2>2. CASE g \notin Brought(l)
    <3>1. g \notin outrun \cup failed
      BY <1>4, <1>5, <2>2
    <3>. QED  BY <1>2, <1>3, <3>1 DEF OnceShown
  <2>. QED  BY <2>1, <2>2
<1>18. NotYetShown'
  <2>. SUFFICES ASSUME page = "complaints", NEW a \in Actions, action[a] # Free
                PROVE  /\ newest'["reports"] >= action[a].since
                       /\ action[a].phase = "made" /\ newest'["reports"] = action[a].since
                          /\ "reports" \notin outrun'
                          => action[a].change \notin shown'["reports"]
    BY DEF NotYetShown
  <2>1. groups = {"reports"}
    BY <1>1, PageLoadNames
  <2>2. action[a].since \in Nat /\ newest["reports"] >= action[a].since
    BY ActionShape DEF NotYetShown
  <2>3. CASE load[l].number < newest["reports"]
    <3>1. "reports" \in outrun'
      BY <1>5, <2>1, <2>3
    <3>2. newest'["reports"] >= newest["reports"] /\ newest'["reports"] \in Nat
      BY <1>10, <2>1, GroupNames, PageNames DEF Groups
    <3>3. newest["reports"] \in Nat
      BY <1>10, <2>1
    <3>. QED  BY <2>2, <3>1, <3>2, <3>3
  <2>4. CASE load[l].number > newest["reports"]
    BY <1>1, <1>10, <2>1, <2>2, <2>4
  <2>. QED  BY <1>1, <1>10, <2>1, <2>3, <2>4
<1>19. OneForm'
  BY DEF OneForm, Busy
<1>20. Spinning'
  BY <1>4, <1>9 DEF Spinning
<1>21. FailureTold'
  <2>1. \A g : MayReject(g)' <=> MayReject(g)
    BY DEF MayReject, Messages, OnFailure, Promises, AtOnce, Reloads
  <2>. SUFFICES ASSUME NEW g \in failed'
                PROVE  Silent(g)' \/ (MayReject(g) /\ (error' \/ hidden' \/ Loading(g)' # {}))
    BY <2>1 DEF FailureTold
  <2>2. CASE g \notin groups
    <3>1. g \in failed /\ g \in Groups
      BY <1>2, <1>4, <2>2 DEF LoadType
    <3>2. shown'[g] = shown[g]
      BY <1>3, <1>6, <1>7, <2>2, <3>1
    <3>3. Silent(g) => Silent(g)'
      BY <3>2 DEF Silent, OnFailure
    <3>4. Silent(g) \/ (MayReject(g) /\ (error \/ hidden \/ Loading(g) # {}))
      BY <3>1 DEF FailureTold
    <3>5. error \/ hidden => error' \/ hidden'
      BY <1>4
    <3>6. Loading(g)' = Loading(g)
      BY <1>9, <2>2
    <3>. QED  BY <3>3, <3>4, <3>5, <3>6
  <2>3. CASE g \in groups /\ Rejected(l)
    <3>1. Messages(groups)
      BY <1>1, <2>3 DEF Rejected, Messages
    <3>. QED  BY <1>1, <1>4, <2>3, <3>1 DEF MayReject
  <2>4. CASE g \in groups /\ ~Rejected(l)
    <3>1. g \in load[l].lost
      BY <1>4, <1>6, <2>4
    <3>2. OnFailure(g) \in {"empty", "keep"}
      BY <1>2, <2>4, <3>1, MessagesOfPages DEF Rejected, Messages
    <3>3. OnFailure(g) = "empty" => shown'[g] = {}
      <4>1. OnFailure(g) = "empty" => g \in Emptied(l)
        BY <2>4, <3>1 DEF Emptied
      <4>2. g \notin Brought(l)
        BY <1>4
      <4>. QED  BY <1>2, <1>3, <2>4, <4>1, <4>2
    <3>4. OnFailure(g)' = OnFailure(g)
      BY DEF OnFailure
    <3>. QED  BY <3>2, <3>3, <3>4 DEF Silent
  <2>. QED  BY <2>2, <2>3, <2>4
<1>. QED
  BY <1>11, <1>12, <1>14, <1>15, <1>16, <1>17, <1>18, <1>19, <1>20, <1>21

-----------------------------------------------------------------------------
(* Actions of the page.                                                    *)

\* A step of the actions that leaves the data, and a message unless it is
\* taken away by hand.
LEMMA MessagesKept ==
    ASSUME PageInv,
           UNCHANGED <<page, now, load, shown, again, spinner, begun, newest, outrun,
                       failed, mine>>,
           action' \in [Actions -> PageActions], error' \in BOOLEAN, hidden' \in BOOLEAN,
           error \/ hidden => error' \/ hidden', NotYetShown', OneForm'
    PROVE  PageInv'
<1>. USE DEF PageInv
<1>1. DataType' /\ LoadType'
  BY DEF DataType, LoadType, PageLoads, PageActions, Promises, AtOnce, Reloads
<1>2. \A g : Loading(g)' = Loading(g)
  BY DEF Loading
<1>3. Numbered' /\ OnceShown'
  BY <1>2 DEF Numbered, OnceShown
<1>4. LatestKnows' /\ ShownKnows'
  BY <1>2 DEF LatestKnows, ShownKnows, Tracked, Reloads, Latest, Awaited, Informed
<1>5. Spinning' /\ FailureTold'
  BY <1>2, FailureKept DEF Spinning
<1>. QED  BY <1>1, <1>3, <1>4, <1>5

LEMMA ActKeeps ==
    ASSUME PageInv, NEW a \in Actions, Act(a)
    PROVE  PageInv'
<1>. USE DEF PageInv
<1>1. action' = [action EXCEPT ![a] = [phase |-> "sent", since |-> newest["reports"]]]
  BY DEF Act
<1>2. UNCHANGED <<page, now, load, shown, again, spinner, begun, newest, outrun, failed, mine>>
  BY DEF Act, data
<1>3. newest["reports"] \in Nat
  BY GroupNames, PageNames DEF LoadType, Groups
<1>4. /\ action'[a].phase = "sent" /\ action'[a].since = newest["reports"]
      /\ action'[a] \in PageActions /\ \A b \in Actions : b # a => action'[b] = action[b]
  BY <1>1, <1>3 DEF LoadType, PageActions
<1>5. action' \in [Actions -> PageActions]
  BY <1>1, <1>4 DEF LoadType
<1>6. NotYetShown'
  BY <1>2, <1>3, <1>4 DEF NotYetShown
<1>7. OneForm'
  <2>. SUFFICES ASSUME page = "complaints", NEW b \in Actions, NEW c \in Actions,
                       b \in Busy', c \in Busy'
                PROVE  b = c
    BY <1>2 DEF OneForm
  <2>1. Busy = {}
    BY DEF Act, Offered
  <2>. QED  BY <1>4, <2>1 DEF Busy
<1>8. error' \in BOOLEAN /\ hidden' \in BOOLEAN /\ (error \/ hidden => error' \/ hidden')
  BY DEF Act, LoadType
<1>. QED  BY <1>2, <1>5, <1>6, <1>7, <1>8, MessagesKept

LEMMA NotDoneKeeps ==
    ASSUME PageInv, NEW a \in Actions, NotDone(a)
    PROVE  PageInv'
<1>. USE DEF PageInv
<1>1. action' = [action EXCEPT ![a] = Free]
  BY DEF NotDone
<1>2. UNCHANGED <<page, now, load, shown, again, spinner, begun, newest, outrun, failed, mine>>
  BY DEF NotDone, data
<1>3. action'[a] = Free /\ \A b \in Actions : b # a => action'[b] = action[b]
  BY <1>1 DEF LoadType
<1>4. action' \in [Actions -> PageActions]
  BY <1>1 DEF LoadType, PageActions
<1>5. NotYetShown' /\ OneForm'
  BY <1>2, <1>3 DEF NotYetShown, OneForm, Busy
<1>6. error' \in BOOLEAN /\ hidden' \in BOOLEAN /\ (error \/ hidden => error' \/ hidden')
  BY DEF NotDone, LoadType
<1>. QED  BY <1>2, <1>4, <1>5, <1>6, MessagesKept

LEMMA CommittedKeeps ==
    ASSUME PageInv, NEW a \in Actions, Committed(a)
    PROVE  PageInv'
<1>. USE DEF PageInv
<1>1. action' = [action EXCEPT ![a] =
                    [phase |-> "made", since |-> action[a].since, change |-> now + 1]]
  BY DEF Committed
<1>2. now < MaxChanges /\ now' = now + 1 /\ action[a].phase = "sent"
  BY DEF Committed
<1>3. UNCHANGED <<page, load, shown, again, spinner, error, begun, newest, outrun,
                  failed, hidden, mine>>
  BY DEF Committed, answers
<1>4. action[a] # Free /\ action[a].since \in Nat
  BY <1>2, ActionShape
<1>5. /\ action'[a].phase = "made" /\ action'[a].since = action[a].since
      /\ action'[a].change = now + 1 /\ \A b \in Actions : b # a => action'[b] = action[b]
  BY <1>1 DEF LoadType
<1>6. action'[a] # Free
  BY <1>5 DEF Free
<1>7. action' \in [Actions -> PageActions']
  <2>1. now + 1 \in 1..now'
    BY <1>2 DEF DataType
  <2>2. [phase |-> "made", since |-> action[a].since, change |-> now + 1] \in PageActions'
    BY <1>4, <2>1 DEF PageActions
  <2>3. PageActions \subseteq PageActions'
    BY <1>2, <1>3, KindsGrow DEF DataType
  <2>. QED  BY <1>1, <2>2, <2>3 DEF LoadType
<1>. QED  BY <1>2, <1>3, <1>4, <1>5, <1>6, <1>7, ServerChanges

\* The loads that are under way while a row is put in are marked, and nothing
\* else about them changes.
LEMMA Crossed ==
    ASSUME LoadType, NEW groups, Cross(groups), UNCHANGED <<page, now>>
    PROVE  /\ load' \in [Loads -> PageLoads']
           /\ \A g : Loading(g)' = Loading(g)
           /\ \A l \in Loads : \/ load'[l] = load[l]
                               \/ /\ load[l] # Free /\ load'[l] # Free /\ load'[l].crossed
                                  /\ load'[l].groups = load[l].groups
                                  /\ load'[l].number = load[l].number
           /\ \A g \in groups : \A l \in Loading(g) : load'[l].crossed
<1>1. load' = [l \in Loads |-> IF \E g \in groups : l \in Loading(g)
                              THEN [load[l] EXCEPT !.crossed = TRUE] ELSE load[l]]
  BY DEF Cross
<1>2. ASSUME NEW l \in Loads, load[l] # Free, NEW v, v = [load[l] EXCEPT !.crossed = TRUE]
      PROVE  v \in PageLoads /\ v # Free /\ v.crossed /\ v.groups = load[l].groups
             /\ v.number = load[l].number
  <2>0. load[l].groups \in Promises(page) /\ load[l].number \in Nat
    BY <1>2, LoadShape
  <2>1. CASE load[l].phase = "sent"
    <3>1. load[l] = [phase |-> "sent", groups |-> load[l].groups,
                     number |-> load[l].number, crossed |-> load[l].crossed]
      BY <2>1, LoadShape
    <3>2. v = [phase |-> "sent", groups |-> load[l].groups, number |-> load[l].number,
               crossed |-> TRUE]
      <4>1. PICK G, n, c : load[l] = [phase |-> "sent", groups |-> G, number |-> n,
                                      crossed |-> c]
        BY <3>1
      <4>2. load[l].groups = G /\ load[l].number = n
        BY <4>1
      <4>3. v = [[phase |-> "sent", groups |-> G, number |-> n, crossed |-> c]
                 EXCEPT !.crossed = TRUE]
        BY <1>2, <4>1, Zenon
      <4>. QED  BY <4>2, <4>3
    <3>3. v.phase = "sent" /\ v \in PageLoads
      BY <2>0, <3>2 DEF PageLoads
    <3>. QED  BY <3>2, <3>3 DEF Free
  <2>2. CASE load[l].phase = "read"
    <3>1. /\ load[l] = [phase |-> "read", groups |-> load[l].groups,
                        number |-> load[l].number, crossed |-> load[l].crossed,
                        lost |-> load[l].lost, knows |-> load[l].knows]
          /\ load[l].lost \subseteq load[l].groups /\ load[l].knows \subseteq 1..now
      BY <2>2, LoadShape
    <3>2. v = [phase |-> "read", groups |-> load[l].groups, number |-> load[l].number,
               crossed |-> TRUE, lost |-> load[l].lost, knows |-> load[l].knows]
      <4>1. PICK G, n, c, x, k :
               load[l] = [phase |-> "read", groups |-> G, number |-> n, crossed |-> c,
                          lost |-> x, knows |-> k]
        BY <3>1
      <4>2. /\ load[l].groups = G /\ load[l].number = n
            /\ load[l].lost = x /\ load[l].knows = k
        BY <4>1
      <4>3. v = [[phase |-> "read", groups |-> G, number |-> n, crossed |-> c,
                  lost |-> x, knows |-> k] EXCEPT !.crossed = TRUE]
        BY <1>2, <4>1, Zenon
      <4>. QED  BY <4>2, <4>3
    <3>3. v \in [phase : {"read"}, groups : {load[l].groups}, number : Nat,
                 crossed : BOOLEAN, lost : SUBSET load[l].groups,
                 knows : SUBSET (1..now)]
      BY <2>0, <3>1, <3>2
    <3>4. v.phase = "read" /\ v \in PageLoads
      BY <2>0, <3>2, <3>3 DEF PageLoads
    <3>. QED  BY <3>2, <3>4 DEF Free
  <2>. QED  BY <1>2, <2>1, <2>2, LoadShape
<1>3. ASSUME NEW l \in Loads
      PROVE  /\ load'[l] \in PageLoads
             /\ \/ load'[l] = load[l] /\ \A g \in groups : l \notin Loading(g)
                \/ /\ load[l] # Free /\ load'[l] # Free /\ load'[l].crossed
                   /\ load'[l].groups = load[l].groups /\ load'[l].number = load[l].number
  <2>1. CASE \E g \in groups : l \in Loading(g)
    <3>1. load[l] # Free
      BY <2>1 DEF Loading
    <3>2. load'[l] = [load[l] EXCEPT !.crossed = TRUE]
      BY <1>1, <2>1
    <3>. QED  BY <1>2, <3>1, <3>2
  <2>2. CASE ~\E g \in groups : l \in Loading(g)
    BY <1>1, <2>2 DEF LoadType
  <2>. QED  BY <2>1, <2>2
<1>4. load' \in [Loads -> PageLoads']
  <2>1. PageLoads' = PageLoads
    BY DEF PageLoads, Promises, AtOnce, Reloads
  <2>. QED  BY <1>1, <1>3, <2>1
<1>5. \A g : Loading(g)' = Loading(g)
  BY <1>3 DEF Loading
<1>6. \A g \in groups : \A l \in Loading(g) : load'[l].crossed
  BY <1>3 DEF Loading
<1>. QED  BY <1>3, <1>4, <1>5, <1>6

\* What a step keeps that crosses loads and frees an action.
LEMMA CrossKeeps ==
    ASSUME PageInv, NEW groups, Cross(groups), NEW a \in Actions,
           action' = [action EXCEPT ![a] = Free],
           UNCHANGED <<page, now, newest, failed>>, DataType',
           \A g \in failed : shown'[g] = shown[g] \/ OnFailure(g) = "message",
           \A g \in Group[page] : Tracked(g) => mine' = mine \/ g \in groups
    PROVE  /\ LoadType' /\ Numbered' /\ LatestKnows' /\ OneForm' /\ Spinning' /\ FailureTold'
           /\ \A g : Awaited(g)' <=> Awaited(g)
<1>. USE DEF PageInv
<1>. UNCHANGED <<begun, spinner, error, hidden>>
  BY DEF Cross
<1>1. /\ load' \in [Loads -> PageLoads']
      /\ \A g : Loading(g)' = Loading(g)
      /\ \A l \in Loads : \/ load'[l] = load[l]
                          \/ /\ load[l] # Free /\ load'[l] # Free /\ load'[l].crossed
                             /\ load'[l].groups = load[l].groups
                             /\ load'[l].number = load[l].number
      /\ \A g \in groups : \A l \in Loading(g) : load'[l].crossed
  BY Crossed
<1>2. LoadType'
  <2>1. action' \in [Actions -> PageActions']
    BY DEF LoadType, PageActions
  <2>. QED  BY <1>1, <2>1 DEF LoadType
<1>3. \A l \in Loads : /\ load'[l] # Free <=> load[l] # Free
                       /\ load'[l] # Free => /\ load'[l].groups = load[l].groups
                                             /\ load'[l].number = load[l].number
  BY <1>1
<1>4. \A g : \A l \in Loading(g) : l \in Loads /\ load'[l].number = load[l].number
  BY <1>3 DEF Loading
<1>5. Numbered'
  BY <1>1, <1>3, <1>4 DEF Numbered
<1>6. LatestKnows'
  <2>. SUFFICES ASSUME NEW g \in Group[page], NEW l \in Loading(g),
                       Tracked(g)', Latest(l, g)', load'[l].number > newest[g],
                       ~load'[l].crossed
                PROVE  Informed(l)'
    BY <1>1 DEF LatestKnows, Informed
  <2>1. load'[l] = load[l] /\ g \notin groups
    BY <1>1, <1>4
  <2>2. Latest(l, g)
    BY <1>1, <1>4 DEF Latest
  <2>3. Tracked(g)
    BY DEF Tracked, Reloads
  <2>4. Informed(l)
    BY <2>1, <2>2, <2>3 DEF LatestKnows
  <2>5. mine' = mine
    BY <2>1, <2>3
  <2>. QED  BY <2>1, <2>4, <2>5 DEF Informed
<1>7. OneForm'
  <2>1. \A b \in Actions : action'[b] = Free \/ action'[b] = action[b]
    BY DEF LoadType
  <2>. QED  BY <2>1 DEF OneForm, Busy
<1>8. Spinning' /\ FailureTold'
  BY <1>1, FailureKept DEF Spinning
<1>9. \A g : Awaited(g)' <=> Awaited(g)
  BY <1>1, <1>4 DEF Awaited
<1>. QED  BY <1>2, <1>5, <1>6, <1>7, <1>8, <1>9

LEMMA DoneKeeps ==
    ASSUME PageInv, NEW a \in Actions, Done(a)
    PROVE  PageInv'
<1>. USE DEF PageInv
<1>. DEFINE change == action[a].change
<1>1. /\ action[a] # Free /\ action[a].phase = "made" /\ change \in 1..now
      /\ action[a].since \in Nat
  BY ActionShape DEF Done
<1>2. mine' = mine \cup {change} /\ action' = [action EXCEPT ![a] = Free]
  BY DEF Done
<1>. HIDE DEF change
<1>. UNCHANGED <<page, now, newest, failed>>
  BY DEF Done
<1>3. mine' \subseteq 1..now
  BY <1>1, <1>2 DEF DataType
<1>4. /\ action'[a] = Free /\ \A b \in Actions : b # a => action'[b] = action[b]
      /\ action' \in [Actions -> PageActions]
  BY <1>2 DEF LoadType, PageActions
<1>5. CASE Reload(a) /\ UNCHANGED <<shown, again, outrun>>
  <2>1. Together(Reloads(page)) /\ Begin(Reloads(page))
    BY <1>5, GroupsOfPages DEF Reload, DataType
  <2>2. \A g \in Group[page] : Tracked(g) => g \in UNION Reloads(page)
    <3>1. Reloads(page) # {} /\ page # "complaints"
      BY <1>5, LoadNames DEF Reload
    <3>2. "reports" \notin Group[page]
      BY <3>1, GroupsOfPages DEF DataType
    <3>3. \A g : Tracked(g) => g \in UNION Reloads(page) \/ g = "reports"
      BY DEF Tracked
    <3>. QED  BY <3>2, <3>3
  <2>. QED  BY <1>3, <1>4, <1>5, <2>1, <2>2, BeginKeeps
<1>6. CASE /\ page = "complaints" /\ Put("reports", change) /\ Cross({"reports"})
           /\ outrun' = IF Loading("reports") # {} \/ newest["reports"] # action[a].since
                        THEN outrun \cup {"reports"} ELSE outrun
  <2>1. Group[page] = {"reports"} /\ "reports" \in Groups
    BY <1>6, GroupNames, GroupsOfPages DEF DataType
  <2>2. /\ again' = [again EXCEPT !["reports"] =
                        again["reports"] \cup ({change} \cap shown["reports"])]
        /\ shown' = [shown EXCEPT !["reports"] = shown["reports"] \cup {change}]
    BY <1>6 DEF Put
  <2>3. /\ again'["reports"] = again["reports"] \cup ({change} \cap shown["reports"])
        /\ shown'["reports"] = shown["reports"] \cup {change}
        /\ \A g \in Groups : g # "reports" => shown'[g] = shown[g] /\ again'[g] = again[g]
    BY <2>1, <2>2 DEF DataType
  <2>4. DataType'
    <3>1. /\ shown["reports"] \cup {change} \subseteq 1..now
          /\ again["reports"] \cup ({change} \cap shown["reports"]) \subseteq 1..now
      BY <1>1, <2>1 DEF DataType
    <3>2. shown' \in [Groups -> SUBSET (1..now)] /\ again' \in [Groups -> SUBSET (1..now)]
      BY <2>1, <2>2, <3>1 DEF DataType
    <3>3. \A g \in Groups : again'[g] \subseteq shown'[g]
      BY <2>3 DEF DataType
    <3>. QED  BY <1>3, <3>2, <3>3 DEF DataType
  <2>5. /\ LoadType' /\ Numbered' /\ LatestKnows' /\ OneForm' /\ Spinning' /\ FailureTold'
        /\ \A g : Awaited(g)' <=> Awaited(g)
    <3>1. OnFailure("reports") = "message"
      BY <1>6, MessagesOfPages DEF DataType, Messages
    <3>2. \A g \in failed : g = "reports"
      BY <2>1 DEF LoadType
    <3>. QED  BY <1>2, <1>6, <2>1, <2>4, <3>1, <3>2, CrossKeeps
  <2>6. CASE Loading("reports") # {} \/ newest["reports"] # action[a].since
    <3>1. "reports" \in outrun'
      BY <1>6, <2>6
    <3>2. ShownKnows' /\ OnceShown' /\ NotYetShown'
      <4>1. ShownKnows' /\ OnceShown'
        BY <2>1, <3>1 DEF ShownKnows, OnceShown
      <4>2. NotYetShown'
        BY <1>4, <3>1 DEF NotYetShown
      <4>. QED  BY <4>1, <4>2
    <3>. QED  BY <2>4, <2>5, <3>2
  <2>7. CASE Loading("reports") = {} /\ newest["reports"] = action[a].since
    <3>1. outrun' = outrun
      BY <1>6, <2>7
    <3>2. ShownKnows'
      BY <1>2, <2>1, <2>3, <2>5, <3>1 DEF ShownKnows, Tracked
    <3>3. OnceShown'
      <4>. SUFFICES ASSUME "reports" \notin outrun \cup failed
                    PROVE  again'["reports"] = {}
        BY <2>1, <3>1 DEF OnceShown
      <4>1. change \notin shown["reports"]
        BY <1>1, <1>6, <2>7 DEF NotYetShown, change
      <4>. QED  BY <2>1, <2>3, <4>1 DEF OnceShown
    <3>4. NotYetShown'
      BY <1>1, <1>4, <1>6 DEF NotYetShown, OneForm, Busy
    <3>. QED  BY <2>4, <2>5, <3>2, <3>3, <3>4
  <2>. QED  BY <2>6, <2>7
<1>7. CASE /\ page \in {"organization", "collector"} /\ outrun' = outrun \cup Group[page]
           /\ Cross(Group[page]) /\ UNCHANGED <<shown, again>>
  <2>1. DataType'
    BY <1>3, <1>7 DEF DataType
  <2>2. LoadType' /\ Numbered' /\ LatestKnows' /\ OneForm' /\ Spinning' /\ FailureTold'
    BY <1>2, <1>7, <2>1, CrossKeeps
  <2>3. ShownKnows' /\ OnceShown' /\ NotYetShown'
    BY <1>7 DEF ShownKnows, OnceShown, NotYetShown
  <2>. QED  BY <2>1, <2>2, <2>3
<1>. QED  BY <1>5, <1>6, <1>7 DEF Done, change

-----------------------------------------------------------------------------
(* The pages.                                                              *)

LEMMA BeginStep ==
    ASSUME PageInv, NEW loads, Together(loads), Begin(loads),
           UNCHANGED <<page, now, action, shown, again, newest, outrun, failed, mine>>
    PROVE  PageInv'
<1>1. mine' \subseteq 1..now /\ action' \in [Actions -> PageActions]
  BY DEF PageInv, DataType, LoadType
<1>. QED  BY <1>1, BeginKeeps

LEMMA PageStep ==
    ASSUME PageInv, [PageNext]_pageVars
    PROVE  PageInv'
<1>. USE DEF PageInv
<1>1. CASE Mount
  BY <1>1, BeginStep, GroupsOfPages DEF Mount, data, DataType
<1>2. CASE Again
  <2>1. \E loads : Together(loads) /\ Begin(loads)
    BY <1>2, GroupsOfPages DEF Again, DataType
  <2>. QED  BY <1>2, <2>1, BeginStep DEF Again, data
<1>3. CASE Elsewhere
  <2>1. PageActions \subseteq PageActions'
    BY <1>3, KindsGrow DEF Elsewhere, DataType
  <2>2. action' \in [Actions -> PageActions']
    BY <1>3, <2>1 DEF Elsewhere, LoadType
  <2>. QED  BY <1>3, <2>2, ServerChanges DEF Elsewhere, answers
<1>4. ASSUME NEW t \in Group["admin"], SwitchTab(t)
      PROVE  PageInv'
  <2>1. Together({{t}})
    BY <1>4, GroupsOfPages DEF SwitchTab, DataType
  <2>2. CASE Begin({{t}})
    BY <1>4, <2>1, <2>2, BeginStep DEF SwitchTab, data
  <2>3. CASE UNCHANGED <<load, begun, spinner, error, hidden>>
    BY <1>4, <2>3, PageUntouched DEF SwitchTab, data
  <2>. QED  BY <1>4, <2>2, <2>3 DEF SwitchTab
<1>5. ASSUME NEW l \in Loads, Read(l) \/ Settle(l)
      PROVE  PageInv'
  BY <1>5, ReadKeeps, SettleKeeps
<1>6. ASSUME NEW a \in Actions, Act(a) \/ Committed(a) \/ Done(a) \/ NotDone(a)
      PROVE  PageInv'
  BY <1>6, ActKeeps, CommittedKeeps, DoneKeeps, NotDoneKeeps
<1>7. CASE UNCHANGED pageVars
  BY <1>7, PageUntouched DEF pageVars
<1>. QED  BY <1>1, <1>2, <1>3, <1>4, <1>5, <1>6, <1>7 DEF PageNext

LEMMA PageInvCorrect == PageSpec => []PageInv
<1>1. PageInit => PageInv
  <2>. SUFFICES ASSUME PageInit  PROVE PageInv
    OBVIOUS
  <2>. USE DEF PageInit
  <2>1. DataType
    BY PageAssumption DEF DataType
  <2>2. LoadType
    <3>1. load \in [Loads -> PageLoads] /\ action \in [Actions -> PageActions]
      BY DEF PageLoads, PageActions
    <3>2. begun \in Nat /\ newest \in [Groups -> 0..begun]
      OBVIOUS
    <3>3. spinner \subseteq Group[page] /\ failed \subseteq Group[page]
      OBVIOUS
    <3>4. error \in BOOLEAN /\ hidden \in BOOLEAN
      OBVIOUS
    <3>. QED  BY <3>1, <3>2, <3>3, <3>4 DEF LoadType
  <2>3. \A l \in Loads : load[l] = Free
    OBVIOUS
  <2>4. Numbered /\ LatestKnows /\ OneForm /\ NotYetShown
    BY <2>3 DEF Numbered, LatestKnows, Loading, OneForm, Busy, NotYetShown
  <2>5. ShownKnows /\ Spinning /\ FailureTold
    BY DEF ShownKnows, Spinning, FailureTold
  <2>6. OnceShown
    BY GroupsOfPages DEF OnceShown
  <2>. QED  BY <2>1, <2>2, <2>4, <2>5, <2>6 DEF PageInv
<1>2. PageInv /\ [PageNext]_pageVars => PageInv'
  BY PageStep
<1>. QED  BY <1>1, <1>2, PTL DEF PageSpec

\* The variables of the pages hold values of their kinds, for any number of
\* loads and actions under way.
THEOREM PageTypeCorrect == PageSpec => []PageTypeOK
<1>1. PageInv => PageTypeOK
  <2>. SUFFICES ASSUME PageInv  PROVE PageTypeOK
    OBVIOUS
  <2>1. 1..now \subseteq 1..MaxChanges
    BY PageAssumption DEF PageInv, DataType
  <2>2. \A g \in Groups : shown[g] \subseteq 1..MaxChanges /\ again[g] \subseteq shown[g]
    BY <2>1 DEF PageInv, DataType
  <2>3. spinner \subseteq Groups
    BY GroupsOfPages DEF PageInv, DataType, LoadType
  <2>. QED  BY <2>2, <2>3 DEF PageTypeOK, PageInv, DataType, LoadType
<1>. QED  BY <1>1, PageInvCorrect, PTL

\* A page at rest shows every change it made and was told of, once, and where
\* a load brought nothing it is empty or says so, for any number of loads and
\* actions under way at once: unless answers came out of order, a row was put in
\* by hand during a load, or nothing was loaded (the pages under
\* frontend/src/app/(app)).
THEOREM PagesCorrect == PageSpec => []PageIsTruthful
<1>1. PageInv => PageIsTruthful
  <2>. SUFFICES ASSUME PageInv, NEW g \in Group[page], Loading(g) = {}
                PROVE  /\ g \notin spinner
                       /\ g \notin outrun \cup failed =>
                             /\ g \in (UNION Reloads(page)) \cup {"reports"}
                                => mine \subseteq shown[g]
                             /\ again[g] = {}
                       /\ g \in failed =>
                             \/ error \/ hidden
                             \/ OnFailure(g) = "empty" /\ shown[g] = {}
                             \/ OnFailure(g) = "keep"
    BY DEF PageIsTruthful
  <2>1. g \notin spinner
    BY DEF PageInv, Spinning
  <2>2. g \in failed => \/ error \/ hidden
                        \/ OnFailure(g) = "empty" /\ shown[g] = {}
                        \/ OnFailure(g) = "keep"
    BY DEF PageInv, FailureTold, Silent
  <2>3. ~Awaited(g)
    BY DEF Awaited
  <2>. QED  BY <2>1, <2>2, <2>3 DEF PageInv, ShownKnows, OnceShown, Tracked
<1>. QED  BY <1>1, PageInvCorrect, PTL

=============================================================================
