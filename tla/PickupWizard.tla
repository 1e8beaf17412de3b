---------------------------- MODULE PickupWizard -----------------------------
(***************************************************************************)
(* The form that requests a pickup in four steps:                          *)
(* frontend/src/app/(app)/pickups/new/page.tsx and                         *)
(* frontend/src/components/LocationPicker.tsx.                             *)
(*                                                                         *)
(* The picker is on the page in step 2 only, and a search for the device   *)
(* that it began outlives it: its answer replaces the location of the form *)
(* by the one the picker was drawn with, and the coordinates found.        *)
(*                                                                         *)
(* Two ways to submit are the browser's.  Enter submits a form without a   *)
(* submit button that has at most one field to type a line in.  The button *)
(* of step 3 becomes the submit button of step 4 under the click, so that  *)
(* what the browser does after the handler may be to submit.               *)
(***************************************************************************)
EXTENDS Naturals, FiniteSets

CONSTANTS
    Sends,            \* the requests the page may send, a bound
    MaxSearches,      \* bound: searches for the device under way at once
    MaxFailures       \* bound: how often the page is told of a failure

VARIABLES
    step,             \* step: 1 waste, 2 location, 3 time, 4 review
    location,         \* form.location
    badDate,          \* form.preferred_date is one that Date refuses
    manual,           \* showManual of the picker
    search,           \* the searches under way: the location each began with,
                      \* and whether the picker on the page began it
    submitState,
    sent,             \* the requests, by name
    typed,            \* history: the address as the person left it
    overtaken,        \* history: ...and a search was under way when he did
    failures,         \* history: how often the page showed an error
    doubled           \* history: requests sent by Enter while one was under way

wizardVars == <<step, location, badDate, manual, search, submitState, sent,
                typed, overtaken, failures, doubled>>

Coords == {"none", "half", "out of range", "good"}
Unsent == [phase |-> "unsent"]

WizardInit ==
    /\ step = 1
    /\ location = [coords |-> "none", address |-> "none"]
    /\ badDate = FALSE /\ manual = FALSE /\ search = {}
    /\ submitState = "idle"
    /\ sent = [s \in Sends |-> Unsent]
    /\ typed = "none" /\ overtaken = FALSE /\ failures = 0 /\ doubled = {}

OnPage == submitState # "success"
history == <<typed, overtaken, failures, doubled>>

-----------------------------------------------------------------------------
(* The steps.  A category is always chosen, and the field of the time      *)
(* window cuts what is too long.                                           *)

ValidStep(s) ==
    CASE s = 2 -> location.coords = "good"
      [] s = 3 -> ~badDate
      [] OTHER -> TRUE

\* Broken variant: the step is left whatever is in its fields.
AnyStep(s) == TRUE

MayLeave(s) == ValidStep(s)

\* A picker that is drawn anew begins with the fields for coordinates open
\* unless both are there, and with no search of its own.
Remount ==
    /\ manual' = (location.coords \in {"none", "half"})
    /\ search' = {[q EXCEPT !.own = FALSE] : q \in search}

EnterStep(s) ==
    /\ step' = s
    /\ IF s = 2 THEN Remount ELSE UNCHANGED <<manual, search>>

\* nextStep, and what the browser makes of the click.
NextStep ==
    /\ OnPage /\ submitState # "submitting"
    /\ step < 4 /\ MayLeave(step)
    /\ EnterStep(step + 1)
    /\ UNCHANGED <<location, badDate, submitState, sent, history>>

\* prevStep.
PrevStep ==
    /\ OnPage /\ submitState # "submitting"
    /\ step > 1
    /\ EnterStep(step - 1)
    /\ UNCHANGED <<location, badDate, submitState, sent, history>>

EnterDate(bad) ==
    /\ OnPage /\ step = 3
    /\ badDate' = bad
    /\ UNCHANGED <<step, location, manual, search, submitState, sent, history>>

-----------------------------------------------------------------------------
(* LocationPicker.                                                         *)

Picking == OnPage /\ step = 2

ToggleManual ==
    /\ Picking
    /\ manual' = ~manual
    /\ UNCHANGED <<step, location, badDate, search, submitState, sent, history>>

\* onManualLatLngChange: one coordinate at a time.
EnterCoordinate(c) ==
    /\ Picking /\ manual
    /\ location.coords = "none" => c = "half"
    /\ c = "none" => location.coords = "half"
    /\ location' = [location EXCEPT !.coords = c]
    /\ UNCHANGED <<step, badDate, manual, search, submitState, sent, history>>

EnterAddress(a) ==
    /\ Picking
    /\ location' = [location EXCEPT !.address = a]
    /\ typed' = a
    /\ overtaken' = (search # {})
    /\ UNCHANGED <<step, badDate, manual, search, submitState, sent, failures, doubled>>

\* requestGeolocation: the button waits for the search it began.
Locate ==
    /\ Picking
    /\ ~\E q \in search : q.own
    /\ Cardinality(search) < MaxSearches
    /\ search' = search \cup {[from |-> location, own |-> TRUE]}
    /\ UNCHANGED <<step, location, badDate, manual, submitState, sent, history>>

\* Broken variant: the location is made anew.
OnlyCoords(q) == [coords |-> "good", address |-> "none"]

Answered(q) == [q.from EXCEPT !.coords = "good"]

\* The device is found...
Located(q) ==
    /\ location' = Answered(q)
    /\ manual' = (manual /\ ~q.own)
    /\ search' = search \ {q}
    /\ UNCHANGED <<step, badDate, submitState, sent, history>>

\* ...or it is not: permission, time and signal.
NotLocated(q) ==
    /\ manual' = (manual \/ q.own)
    /\ search' = search \ {q}
    /\ UNCHANGED <<step, location, badDate, submitState, sent, history>>

-----------------------------------------------------------------------------
(* Submission.                                                             *)

Waiting(s) == sent[s].phase # "unsent" /\ sent[s].awaited

\* onSubmit of the form as it is drawn: only the fields of step 3 are looked
\* at again.
OnSubmit(s) ==
    /\ sent[s] = Unsent
    /\ IF badDate
       THEN /\ IF step = 4 THEN EnterStep(2) ELSE UNCHANGED <<step, manual, search>>
            /\ UNCHANGED <<sent, submitState>>
       ELSE /\ sent' = [sent EXCEPT ![s] =
                  [phase |-> "sent", coords |-> location.coords, awaited |-> TRUE]]
            /\ submitState' = "submitting"
            /\ UNCHANGED <<step, manual, search>>
    /\ UNCHANGED <<location, badDate, typed, overtaken, failures>>

\* Broken variant: the button is never disabled.
Always == step = 4

CanSubmit == step = 4 /\ submitState # "submitting"

PressSubmit(s) == OnPage /\ CanSubmit /\ OnSubmit(s) /\ UNCHANGED doubled

\* The click on Continue in step 3 that has already become one on Submit.
ContinueSubmits(s) ==
    /\ OnPage /\ submitState # "submitting"
    /\ step = 3 /\ MayLeave(3)
    /\ sent[s] = Unsent
    /\ step' = 4
    /\ sent' = [sent EXCEPT ![s] =
          [phase |-> "sent", coords |-> location.coords, awaited |-> TRUE]]
    /\ submitState' = "submitting"
    /\ UNCHANGED <<location, badDate, manual, search, history>>

\* Enter in step 1, or in step 2 while the address is the only field.
PressEnter(s) ==
    /\ OnPage
    /\ step = 1 \/ (step = 2 /\ ~manual)
    /\ OnSubmit(s)
    /\ doubled' = IF ~badDate /\ \E o \in Sends : Waiting(o)
                  THEN doubled \cup {s} ELSE doubled

\* The server stores the request, or finds no location in it (422).
Stored(s) ==
    /\ sent[s].phase = "sent"
    /\ sent' = [sent EXCEPT ![s].phase =
                  IF sent[s].coords = "good" THEN "stored" ELSE "refused"]
    /\ UNCHANGED <<step, location, badDate, manual, search, submitState, history>>

Succeeds(s) ==
    /\ Waiting(s) /\ sent[s].phase = "stored"
    /\ sent' = [sent EXCEPT ![s].awaited = FALSE]
    /\ submitState' = "success"
    /\ UNCHANGED <<step, location, badDate, manual, search, history>>

\* A refusal, or no answer: a timeout, a lost connection, a 5xx.
Fails(s) ==
    /\ Waiting(s) /\ failures < MaxFailures
    /\ sent' = [sent EXCEPT ![s].awaited = FALSE]
    /\ submitState' = "error"
    /\ failures' = failures + 1
    /\ UNCHANGED <<step, location, badDate, manual, search, typed, overtaken, doubled>>

\* onRetry only takes the message away.
DismissError ==
    /\ submitState = "error"
    /\ submitState' = "idle"
    /\ UNCHANGED <<step, location, badDate, manual, search, sent, history>>

WizardNext ==
    \/ NextStep \/ PrevStep \/ ToggleManual \/ Locate \/ DismissError
    \/ \E bad \in BOOLEAN : EnterDate(bad)
    \/ \E c \in Coords : EnterCoordinate(c)
    \/ \E a \in {"none", "address"} : EnterAddress(a)
    \/ \E q \in search : Located(q) \/ NotLocated(q)
    \/ \E s \in Sends :
          PressSubmit(s) \/ ContinueSubmits(s) \/ PressEnter(s)
          \/ Stored(s) \/ Succeeds(s) \/ Fails(s)

WizardSpec == WizardInit /\ [][WizardNext]_wizardVars

-----------------------------------------------------------------------------
\* Fields hold values of their kind.
WizardTypeOK ==
    /\ step \in 1..4
    /\ location \in [coords : Coords, address : {"none", "address"}]
    /\ submitState \in {"idle", "submitting", "success", "error"}
    /\ \A q \in search : q.from.coords \in Coords

StoredRows == {s \in Sends : sent[s].phase = "stored"}

\* A step is left only when its fields are right (page.tsx:16): past step 2
\* there are two coordinates in range, whatever searches for the device end
\* after it; and the address is the one typed, unless it was typed while the
\* device was being searched for.
FormIsAsEntered ==
    /\ step >= 3 => location.coords = "good"
    /\ location.address = typed \/ overtaken

\* A person who is not told of a failure gets one pickup (page.tsx:224-273):
\* there is one row more than failures shown, except for requests he sent by
\* Enter while another was under way; and success means that there is a row.
OnePickupPerRequest ==
    /\ Cardinality(StoredRows) <= 1 + failures + Cardinality(doubled)
    /\ submitState = "success" => StoredRows # {}

=============================================================================
