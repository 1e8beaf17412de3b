-------------------------------- MODULE Pages --------------------------------
(***************************************************************************)
(* How the pages of frontend/src/app/(app) load what they show, change it, *)
(* and load it again.                                                      *)
(*                                                                         *)
(* A page shows groups of data.  A load is one Promise, which fills one    *)
(* group or several: requests of one Promise that fare alike, because each *)
(* is caught by itself or none is, are one group.  The requests of a load  *)
(* are answered as of one moment here, for nothing below compares two of   *)
(* them.  A load is not called off when another begins, and each writes    *)
(* its answer when it comes.  The data of the server is the number of      *)
(* changes made to it; what a page shows is the set of changes it knows.   *)
(***************************************************************************)
EXTENDS Naturals, FiniteSets

CONSTANTS
    Loads,            \* the loads under way at once, a bound
    Actions,          \* the changes the page has under way at once
    MaxChanges,       \* bound: changes to the data of the server
    MaxLoads          \* bound: loads begun

ASSUME PageAssumption == MaxChanges \in Nat

VARIABLES
    page,             \* the page
    now,              \* how many changes the server has made
    load, action,     \* what is under way
    shown,            \* per group, the changes it shows; and again: the ones
    again,            \* it shows twice
    spinner,          \* per group, its loading flag
    error,            \* the page says that a load failed
    tab,              \* admin: the group of the active tab
    visited,          \* admin: tabsLoadedRef
    begun,            \* how many loads were begun
    newest,           \* history: per group, the latest load begun whose
                      \* answer is in, and...
    outrun,           \* ...the answer shown is of an earlier one, or a load
                      \* was under way while a row was put in by hand, or
                      \* nothing was loaded after an action
    failed,           \* history: the groups the load last in did not bring
    hidden,           \* history: an action took the message away
    mine              \* history: changes the page made and was told of

pageVars == <<page, now, load, action, shown, again, spinner, error, tab,
              visited, begun, newest, outrun, failed, hidden, mine>>

(* Of each page: the loads it begins when it is there and the ones a       *)
(* successful action begins again, each the set of the groups it fills;    *)
(* and per group what becomes of it when its request fails: "message", the *)
(* Promise rejects, so that its groups stay as they are and there is a     *)
(* message; "empty", the request is caught and the group empty or null;    *)
(* "keep", it is caught and the group as it was.  clears: its actions      *)
(* begin by taking the message away.                                       *)

\* The figures of the environment are loaded as the notifications are.
DashboardPage ==
    [atOnce |-> {{"pickups", "points"}, {"notifications"}},
     reloads |-> {{"pickups", "points"}}, clears |-> FALSE,
     onFailure |-> [pickups |-> "message", points |-> "empty", notifications |-> "empty"]]

\* The report of a complaint is put in front of the list instead.
ComplaintsPage ==
    [atOnce |-> {{"reports"}}, reloads |-> {}, clears |-> FALSE,
     onFailure |-> [reports |-> "message"]]

SchedulesPage ==
    [atOnce |-> {{"schedules"}}, reloads |-> {{"schedules"}}, clears |-> FALSE,
     onFailure |-> [schedules |-> "empty"]]

\* The other groups are loaded with their tabs.
AdminPage ==
    [atOnce |-> {{"overview"}}, reloads |-> {{"complaints"}}, clears |-> FALSE,
     onFailure |-> [overview |-> "empty", complaints |-> "empty", map |-> "empty"]]

\* The analytics go with the staff, the schedules with the locations.  A new
\* member of the staff is loaded, a new location is not.
OrganizationPage ==
    [atOnce |-> {{"staff", "locations"}}, reloads |-> {{"staff", "locations"}},
     clears |-> TRUE, onFailure |-> [staff |-> "message", locations |-> "empty"]]

\* The figures are the ones of the collectors and of the operations.
CompanyPage ==
    [atOnce |-> {{"kpis"}, {"tables", "figures"}},
     reloads |-> {{"kpis"}, {"tables", "figures"}}, clears |-> TRUE,
     onFailure |-> [kpis |-> "message", tables |-> "message", figures |-> "empty"]]

RecyclerPage ==
    [atOnce |-> {{"records"}}, reloads |-> {{"records"}}, clears |-> FALSE,
     onFailure |-> [records |-> "empty"]]

\* It loads again if the browser is online.  The route has no flag of its own.
CollectorPage ==
    [atOnce |-> {{"assignments"}, {"route"}}, reloads |-> {{"assignments"}, {"route"}},
     clears |-> FALSE, onFailure |-> [assignments |-> "empty", route |-> "keep"]]

PageNamed ==
    [dashboard |-> DashboardPage, complaints |-> ComplaintsPage, schedules |-> SchedulesPage,
     admin |-> AdminPage, organization |-> OrganizationPage, company |-> CompanyPage,
     recycler |-> RecyclerPage, collector |-> CollectorPage]

Page == DOMAIN PageNamed
Group == [p \in Page |-> DOMAIN PageNamed[p].onFailure]
Groups == UNION {Group[p] : p \in Page}
AtOnce(p) == PageNamed[p].atOnce
Reloads(p) == PageNamed[p].reloads
OnFailure(g) == PageNamed[page].onFailure[g]

Free == [phase |-> "free"]

Loading(g) == {l \in Loads : load[l] # Free /\ g \in load[l].groups}

Messages(groups) == \E g \in groups : OnFailure(g) = "message"

\* Loads that begin now, in slots that are free; which ones is all the same.
Begin(loads) ==
    LET slots == {s \in [loads -> Loads] :
                    /\ \A G \in loads : load[s[G]] = Free
                    /\ \A G, H \in loads : G # H => s[G] # s[H]}
        slot == CHOOSE s \in slots : TRUE
        begin(G) == [phase |-> "sent", groups |-> G, number |-> begun + 1, crossed |-> FALSE]
    IN  /\ slots # {}
        /\ begun + Cardinality(loads) <= MaxLoads
        /\ begun' = begun + Cardinality(loads)
        /\ load' = [l \in Loads |->
              IF \E G \in loads : slot[G] = l
              THEN begin(CHOOSE G \in loads : slot[G] = l) ELSE load[l]]
        /\ spinner' = spinner \cup UNION loads
        /\ error' = (error /\ ~Messages(UNION loads))
        /\ hidden' = (hidden /\ ~Messages(UNION loads))

PageInit ==
    /\ page \in Page
    /\ now = 0
    /\ load = [l \in Loads |-> Free] /\ action = [a \in Actions |-> Free]
    /\ shown = [g \in Groups |-> {}] /\ again = [g \in Groups |-> {}]
    /\ spinner = {} /\ error = FALSE
    /\ tab = "overview" /\ visited = {}
    /\ begun = 0 /\ newest = [g \in Groups |-> 0]
    /\ outrun = {} /\ failed = {} /\ hidden = FALSE /\ mine = {}

answers == <<newest, outrun, failed, hidden, mine>>
data == <<now, shown, again>>

-----------------------------------------------------------------------------
(* Loading.                                                                *)

\* The effect that follows the first drawing.
Mount ==
    /\ begun = 0
    /\ Begin(AtOnce(page))
    /\ UNCHANGED <<page, action, tab, visited, data, newest, outrun, failed, mine>>

\* ErrorState's onRetry; the collector's page loads again after a
\* synchronisation and at the start of a route (there without a spinner).
Again ==
    /\ begun > 0
    /\ \/ /\ error /\ page \in {"dashboard", "complaints"}
          /\ Begin({G \in AtOnce(page) : Messages(G)})
       \/ page = "collector" /\ Begin(AtOnce(page))
    /\ UNCHANGED <<page, action, tab, visited, data, newest, outrun, failed, mine>>

\* setActiveTab and its effect: the complaints count as loaded at once, the
\* map when it is there.
SwitchTab(t) ==
    /\ page = "admin" /\ begun > 0 /\ t # tab
    /\ tab' = t
    /\ visited' = visited \cup ({t} \cap {"complaints"})
    /\ IF t \in {"complaints", "map"} \ visited
       THEN Begin({{t}})
       ELSE UNCHANGED <<load, begun, spinner, error, hidden>>
    /\ UNCHANGED <<page, action, data, newest, outrun, failed, mine>>

\* The server answers; to some requests no answer comes, or a bad one.
Read(l) ==
    /\ load[l].phase = "sent"
    /\ \E lost \in SUBSET load[l].groups :
          load' = [load EXCEPT ![l] =
              [phase |-> "read", groups |-> @.groups, number |-> @.number,
               crossed |-> @.crossed, lost |-> lost, knows |-> 1..now]]
    /\ UNCHANGED <<page, action, tab, visited, begun, spinner, error, data, answers>>

\* The Promise rejects if a request fails that is not caught by itself.
Rejected(l) == Messages(load[l].lost)

\* The groups a load brings, and the ones it empties.
Brought(l) == IF Rejected(l) THEN {} ELSE load[l].groups \ load[l].lost
Emptied(l) ==
    IF Rejected(l) THEN {} ELSE {g \in load[l].lost : OnFailure(g) = "empty"}

\* then, catch and finally.
Settle(l) ==
    LET groups == load[l].groups
        overtaken == {g \in groups : load[l].number < newest[g] \/ load[l].crossed}
    IN  /\ load[l].phase = "read"
        /\ shown' = [g \in Groups |-> IF g \in Brought(l) THEN load[l].knows
                                      ELSE IF g \in Emptied(l) THEN {} ELSE shown[g]]
        /\ again' = [g \in Groups |-> IF g \in Brought(l) \cup Emptied(l) THEN {} ELSE again[g]]
        /\ error' = (error \/ Rejected(l))
        /\ hidden' = (hidden /\ ~Rejected(l))
        /\ failed' = (failed \cup groups) \ Brought(l)
        /\ outrun' = (outrun \ Brought(l)) \cup overtaken
        /\ newest' = [g \in Groups |-> IF g \in groups /\ newest[g] < load[l].number
                                       THEN load[l].number ELSE newest[g]]
        /\ spinner' = spinner \ groups
        /\ visited' = visited \cup (groups \cap {"map"})
        /\ load' = [load EXCEPT ![l] = Free]
        /\ UNCHANGED <<page, now, action, tab, begun, mine>>

-----------------------------------------------------------------------------
(* Actions.                                                                *)

Busy == {a \in Actions : action[a] # Free}

\* cancelPickup is offered while the card is drawn; a form waits for its
\* answer; advanceComplaint belongs to its tab; other buttons never wait.
Offered ==
    CASE page = "dashboard" -> "pickups" \notin spinner /\ ~error /\ Busy = {}
      [] page \in {"complaints", "recycler"} -> Busy = {}
      [] page = "admin" -> tab = "complaints"
      [] OTHER -> TRUE

Act(a) ==
    /\ begun > 0 /\ Offered
    /\ action[a] = Free
    /\ action' = [action EXCEPT ![a] = [phase |-> "sent", since |-> newest["reports"]]]
    /\ IF PageNamed[page].clears
       THEN error' = FALSE /\ hidden' = (hidden \/ error)
       ELSE UNCHANGED <<error, hidden>>
    /\ UNCHANGED <<page, load, spinner, tab, visited, begun, data, newest, outrun,
                   failed, mine>>

Committed(a) ==
    /\ action[a].phase = "sent" /\ now < MaxChanges
    /\ now' = now + 1
    /\ action' = [action EXCEPT ![a] = [phase |-> "made", since |-> @.since, change |-> now + 1]]
    /\ UNCHANGED <<page, load, shown, again, spinner, error, tab, visited, begun, answers>>

\* Broken variant: the lists are left as they are.
NoReload(a) == Reloads(page) # {} /\ UNCHANGED <<load, begun, spinner, error, hidden>>

Reload(a) == Reloads(page) # {} /\ Begin(Reloads(page))

\* setComplaints((prev) => [newComplaint, ...prev])
Put(g, change) ==
    /\ again' = [again EXCEPT ![g] = @ \cup ({change} \cap shown[g])]
    /\ shown' = [shown EXCEPT ![g] = @ \cup {change}]

\* The loads under way are none the wiser.
Cross(groups) ==
    /\ load' = [l \in Loads |-> IF \E g \in groups : l \in Loading(g)
                               THEN [load[l] EXCEPT !.crossed = TRUE] ELSE load[l]]
    /\ UNCHANGED <<begun, spinner, error, hidden>>

\* The page is told that its change is made.
Done(a) ==
    /\ action[a].phase = "made"
    /\ mine' = mine \cup {action[a].change}
    /\ action' = [action EXCEPT ![a] = Free]
    /\ \/ Reload(a) /\ UNCHANGED <<shown, again, outrun>>
       \/ /\ page = "complaints"             \* onSubmitReport
          /\ Put("reports", action[a].change)
          /\ outrun' = IF Loading("reports") # {} \/ newest["reports"] # action[a].since
                       THEN outrun \cup {"reports"} ELSE outrun
          /\ Cross({"reports"})
       \/ /\ page \in {"organization", "collector"} \* submitLocation; offline by now
          /\ outrun' = outrun \cup Group[page]
          /\ Cross(Group[page])
          /\ UNCHANGED <<shown, again>>
    /\ UNCHANGED <<page, now, tab, visited, newest, failed>>

\* It is told of a failure, or hears nothing; the change may be made.
NotDone(a) ==
    /\ action[a] # Free
    /\ action' = [action EXCEPT ![a] = Free]
    /\ IF PageNamed[page].clears
       THEN error' = TRUE /\ hidden' = FALSE
       ELSE UNCHANGED <<error, hidden>>
    /\ UNCHANGED <<page, load, spinner, tab, visited, begun, data, newest, outrun,
                   failed, mine>>

\* Somebody else changes the data.
Elsewhere ==
    /\ now < MaxChanges
    /\ now' = now + 1
    /\ UNCHANGED <<page, load, action, shown, again, spinner, error, tab, visited,
                   begun, answers>>

PageNext ==
    \/ Mount \/ Again \/ Elsewhere
    \/ \E t \in Group["admin"] : SwitchTab(t)
    \/ \E l \in Loads : Read(l) \/ Settle(l)
    \/ \E a \in Actions : Act(a) \/ Committed(a) \/ Done(a) \/ NotDone(a)

PageSpec == PageInit /\ [][PageNext]_pageVars

-----------------------------------------------------------------------------
\* Each variable holds values of its kind.
PageTypeOK ==
    /\ page \in Page /\ now \in 0..MaxChanges
    /\ \A g \in Groups : shown[g] \subseteq 1..MaxChanges /\ again[g] \subseteq shown[g]
    /\ spinner \subseteq Groups /\ error \in BOOLEAN

\* When a group is at rest and the load last in brought it, it shows every
\* change the page made and was told of, each once, unless answers came in
\* another order than the loads began, or a row was put in by hand during a
\* load, or the action was one that loads nothing.  A group it did not bring is
\* empty, or there is a message unless a later action took it away; only the
\* route stays as it was with no word.  And no spinner turns for nothing.
PageIsTruthful ==
    \A g \in Group[page] :
        Loading(g) = {} =>
            /\ g \notin spinner
            /\ g \notin outrun \cup failed =>
                  /\ g \in (UNION Reloads(page)) \cup {"reports"} => mine \subseteq shown[g]
                  /\ again[g] = {}
            /\ g \in failed =>
                  \/ error \/ hidden
                  \/ OnFailure(g) = "empty" /\ shown[g] = {}
                  \/ OnFailure(g) = "keep"

=============================================================================
