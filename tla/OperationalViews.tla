-------------------------- MODULE OperationalViews --------------------------
(***************************************************************************)
(* What administrators and collectors are shown of the pickups:            *)
(* backend/app/services/operational_service.py, api/v1/operations.py,      *)
(* analytics.py, reports.py, companies.py and recycling.py, and the route  *)
(* of intelligence/route_optimizer.py.                                     *)
(*                                                                         *)
(* The tables change while a report is made: each of its queries sees what *)
(* was committed before it.  Here a pickup follows the table of            *)
(* transitions; PickupLifecycle shows when racing updates leave it.        *)
(* Weights and percentages are out, places stand for what is near a        *)
(* pickup, and scores are doubled to be whole numbers.                     *)
(***************************************************************************)
EXTENDS Integers, Sequences, FiniteSets, Functions, PickupStatuses

CONSTANTS
    Collectors, ServiceZones, WasteCompanies,
    CompanyOf,        \* the company of each collector
    Platform,         \* the view of an administrator of all companies
    Null,
    Days,             \* the days, as numbers, on which something happens
    Preferred,        \* the dates a request may prefer
    Sites,            \* where pickups are, and collectors
    Near,             \* the open complaints and the fill of the nearest bin
                      \* in the radius of each site
    Distance,         \* between two sites
    RowOrders,        \* the orders in which the database may return the rows
                      \* of a query that names none: the place of each row
    MaxPickups,       \* bound: rows of pickup_requests
    MaxRecycled,      \* bound: rows of recycling_records
    Limit,            \* the limit of the two lists of pickups
    MaxStops          \* the limit of a route

\* A company has an id that is not NULL, a collector a company, and a row a
\* place in every answer; limits are Query(ge=1).
ASSUME ViewAssumption ==
    /\ IsFiniteSet(Collectors) /\ IsFiniteSet(ServiceZones) /\ IsFiniteSet(Days)
    /\ Days \subseteq Nat /\ Preferred \subseteq Int
    /\ CompanyOf \in [Collectors -> WasteCompanies]
    /\ Null \notin WasteCompanies \cup ServiceZones \cup {"COLLECTED", "FAILED"}
    /\ Near \in [Sites -> [complaints : Nat, fill : Nat]]
    /\ Distance \in [Sites \X Sites -> Nat]
    /\ MaxPickups \in Nat /\ MaxRecycled \in Nat
    /\ Limit \in Nat \ {0} /\ MaxStops \in Nat \ {0}
    /\ RowOrders \subseteq Injection(1..MaxPickups, Nat)

VARIABLES
    pickup,           \* pickup_requests with their collections, in the
                      \* order of created_at
    recycled,         \* how many recycling_records there are
    today,
    report            \* the report being made

viewVars == <<pickup, recycled, today, report>>

Ids == DOMAIN pickup
Viewers == WasteCompanies \cup {Platform}
Larger(a, b) == IF a >= b THEN a ELSE b

NoReport == [phase |-> "none"]

ViewInit ==
    /\ pickup = <<>> /\ recycled = 0
    /\ today \in Days /\ \A d \in Days : today <= d
    /\ report = NoReport

-----------------------------------------------------------------------------
(* The pickups, as far as the reports read them.                           *)

Request(place, preferred) ==
    /\ Len(pickup) < MaxPickups
    /\ pickup' = Append(pickup,
          [status |-> "REQUESTED", place |-> place, preferred |-> preferred,
           created |-> today, collector |-> Null, company |-> Null,
           zone |-> Null, proof |-> Null, completed |-> Null])
    /\ UNCHANGED <<recycled, today, report>>

\* Broken variant: the collector is written to both columns.
AssignTwice(p, c) ==
    /\ pickup[p].status = "REQUESTED"
    /\ pickup' = [pickup EXCEPT ![p].status = "ASSIGNED",
                                ![p].collector = c, ![p].company = c]
    /\ UNCHANGED <<recycled, today, report>>

\* assign_pickup: collector and company are set, assigned_zone_id is not.
Assign(p, c) ==
    /\ pickup[p].status = "REQUESTED"
    /\ pickup' = [pickup EXCEPT ![p].status = "ASSIGNED",
                                ![p].collector = c,
                                ![p].company = CompanyOf[c]]
    /\ UNCHANGED <<recycled, today, report>>

\* complete_collection and report_failure leave a row in collections, and the
\* first one in waste_records; the stages before the outcome are out.
Finish(p, outcome) ==
    /\ pickup[p].status = "ASSIGNED"
    /\ pickup' = [pickup EXCEPT ![p].status = outcome, ![p].proof = outcome,
                                ![p].completed = today]
    /\ UNCHANGED <<recycled, today, report>>

\* update_pickup_status reaches the same states and leaves none.
CloseAs(p, s) ==
    /\ pickup[p].status = "ASSIGNED"
    /\ pickup' = [pickup EXCEPT ![p].status = s]
    /\ UNCHANGED <<recycled, today, report>>

\* record_recycling: nothing relates the record to what was collected.
RecordRecycling ==
    /\ recycled < MaxRecycled
    /\ recycled' = recycled + 1
    /\ UNCHANGED <<pickup, today, report>>

NextDay(d) ==
    /\ d > today
    /\ today' = d
    /\ UNCHANGED <<pickup, recycled, report>>

-----------------------------------------------------------------------------
(* Queries.  A result is a set of pickups with an order of theirs, which is *)
(* a set of pairs: ORDER BY, LIMIT and Python's stable sort are these.     *)

Before(rows, order, p) == {q \in rows : <<q, p>> \in order}

\* The first n rows.
FirstOf(rows, order, n) == {p \in rows : Cardinality(Before(rows, order, p)) < n}

\* The rows as a list.
InOrder(rows, order) ==
    [k \in 1..Cardinality(rows) |->
        CHOOSE p \in rows : Cardinality(Before(rows, order, p)) = k - 1]

\* By rising place, place[p] being the place of row p in the answer of the
\* database.
Placed(place) == {e \in Ids \X Ids : place[e[1]] < place[e[2]]}

\* ORDER BY created_at
Age == [p \in Ids |-> p]

-----------------------------------------------------------------------------
(* Scope, overdue days and priority.                                       *)

OpenStatus == {"REQUESTED", "ASSIGNED"}
Active == {"REQUESTED", "ASSIGNED", "EN_ROUTE", "ARRIVED"}
Terminal == {"COLLECTED", "FAILED", "MISSED", "CANCELLED"}

\* _resolve_company_id, and the filter every query puts on waste_company_id.
InScope(viewer, p) == viewer = Platform \/ pickup[p].company = viewer

\* Of get_overdue_pickups and, in words of its own, get_priority_pickup_queue.
OverdueDays(p, day) ==
    LET r == pickup[p]
    IN  IF r.preferred # Null THEN Larger(0, day - r.preferred)
                              ELSE Larger(0, day - r.created - 2)

\* _batch_enrich_pickups_with_spatial_data
Enriched(p) == Near[pickup[p].place]

\* CollectionPrioritizer.score, doubled.
Score(days, near) == 4 * days + near.fill + 10 * near.complaints

\* Broken variant: scored before the rows are enriched.
UnenrichedScore(p, day) == 4 * OverdueDays(p, day)

PriorityScore(p, day) == Score(OverdueDays(p, day), Enriched(p))

\* By falling score, and rows of the same score as they came.
Urgency(day, place) ==
    {e \in Ids \X Ids :
        \/ PriorityScore(e[1], day) > PriorityScore(e[2], day)
        \/ PriorityScore(e[1], day) = PriorityScore(e[2], day) /\ place[e[1]] < place[e[2]]}

\* Rows, scored, sorted and cut to the limit.
Ranked(rows, day, place) ==
    LET order == InOrder(FirstOf(rows, Urgency(day, place), Limit), Urgency(day, place))
    IN  [k \in DOMAIN order |-> [id |-> order[k], score |-> PriorityScore(order[k], day)]]

OpenPickups(viewer) == {p \in Ids : pickup[p].status \in OpenStatus /\ InScope(viewer, p)}

Overdue(rows, day) == {p \in rows : OverdueDays(p, day) > 0}

\* get_overdue_pickups: of the oldest open pickups, three times as many as
\* fit, the ones that are overdue.
OverdueList(viewer, day) ==
    Ranked(Overdue(FirstOf(OpenPickups(viewer), Placed(Age), 3 * Limit), day), day, Age)

\* get_priority_pickup_queue: every open pickup is scored before the cut; its
\* query names no order.
PriorityQueue(viewer, day, place) == Ranked(OpenPickups(viewer), day, place)

-----------------------------------------------------------------------------
(* get_optimized_route and DeterministicNearestNeighbourOptimizer.         *)

Haversine(at, p) == Distance[at, pickup[p].place]

\* min() of a list: the first of the nearest.
Nearest(at, stops, place) ==
    CHOOSE p \in stops : \A q \in stops :
        \/ Haversine(at, p) < Haversine(at, q)
        \/ Haversine(at, p) = Haversine(at, q) /\ place[p] <= place[q]

\* Broken variant: the collector is taken to be where he began.
VisitFromOrigin(tour, place) ==
    LET next == Nearest(tour.at, tour.left, place)
    IN  [at |-> tour.at, left |-> tour.left \ {next}, order |-> Append(tour.order, next)]

Visit(tour, place) ==
    LET next == Nearest(tour.at, tour.left, place)
    IN  [at |-> pickup[next].place, left |-> tour.left \ {next},
         order |-> Append(tour.order, next)]

OrderStops(origin, stops, place) ==
    LET tour[n \in 0..Cardinality(stops)] ==
            IF n = 0 THEN [at |-> origin, left |-> stops, order |-> <<>>]
                     ELSE Visit(tour[n - 1], place)
    IN  tour[Cardinality(stops)].order

\* What a collector still has to do.
ActiveOf(c) ==
    {p \in Ids : pickup[p].collector = c /\ pickup[p].status \in Active \ {"REQUESTED"}}

\* From where he was last seen; the query names no order.
Route(c, origin, place) ==
    OrderStops(origin, FirstOf(ActiveOf(c), Placed(place), MaxStops), place)

-----------------------------------------------------------------------------
(* Counts.                                                                 *)

\* The waste_records a viewer is shown.
WasteRecords(viewer) ==
    {p \in Ids : pickup[p].proof = "COLLECTED" /\ InScope(viewer, p)}

\* What the queries of a report ask for, in their order: pickups by status,
\* waste_records and recycling_records.
Waste == {"waste_records"}
Recycling == {"recycling_records"}

\* Broken variant: the open pickups are counted before the closed ones.
ActiveFirst == <<Active, Terminal, {"REQUESTED"}, Waste>>

\* get_collection_kpis.
Kpis == <<Terminal, Active, {"REQUESTED"}, Waste>>

\* admin_dashboard.
AdminDashboard ==
    <<{"COLLECTED"}, {"MISSED"}, {"FAILED"}, {"REQUESTED"}, {"ASSIGNED"},
      Waste, Recycling>>

\* environmental_report_csv: recycling_impact_summary, then the breakdown.
Environment == <<Waste, Recycling, Waste, Recycling>>

Queries(kind) ==
    [kpis |-> Kpis, dashboard |-> AdminDashboard, environment |-> Environment][kind]

Found(query, viewer) ==
    CASE query = Waste     -> WasteRecords(viewer)
      [] query = Recycling -> 1..recycled
      [] OTHER             -> {p \in Ids : pickup[p].status \in query
                                           /\ InScope(viewer, p)}

\* The collections of a collector since a day.
Collections(c, from) ==
    {p \in Ids : pickup[p].proof # Null /\ pickup[p].collector = c
                 /\ pickup[p].completed >= from}

\* Broken variant: the collections that failed are counted too.
AllCollections(viewer, from) ==
    [c \in {c \in Collectors : viewer \in {Platform, CompanyOf[c]}} |->
        Cardinality(Collections(c, from))]

\* get_collector_performance since a day: the collectors with a collection
\* since then or without any, and what they completed.
CollectorPerformance(viewer, from) ==
    LET listed == {c \in Collectors :
                     /\ viewer \in {Platform, CompanyOf[c]}
                     /\ Collections(c, from) # {} \/ Collections(c, 0) = {}}
    IN  [c \in listed |->
            Cardinality({p \in Collections(c, from) : pickup[p].proof = "COLLECTED"})]

\* get_collection_trend since a day: completions per day.
CollectionTrend(viewer, from) ==
    [d \in {e \in Days : e >= from} |->
        Cardinality({p \in Ids : /\ pickup[p].proof = "COLLECTED"
                                 /\ pickup[p].completed = d
                                 /\ InScope(viewer, p)})]

\* _collections_rows, and what the report counts as successful.
CollectionsReport(viewer, from) ==
    {p \in Ids : /\ pickup[p].proof # Null /\ InScope(viewer, p)
                 /\ pickup[p].completed >= from}
Successful(rows) == {p \in rows : pickup[p].proof = "COLLECTED"}

\* company_dashboard.
CompletedPickups(company) ==
    {p \in Ids : pickup[p].company = company /\ pickup[p].status = "COLLECTED"}

\* get_zone_performance: the pickups of a zone that are completed.
ZonePerformance ==
    [z \in ServiceZones |->
        Cardinality({p \in Ids : pickup[p].zone = z /\ pickup[p].status = "COLLECTED"})]

Total(f) == FoldFunction(+, 0, f)

-----------------------------------------------------------------------------
(* A report is made query by query.                                        *)

BeginReport(kind, viewer) ==
    /\ report = NoReport
    /\ kind # "kpis" => viewer = Platform
    /\ report' = [phase |-> "counting", kind |-> kind, viewer |-> viewer,
                  counted |-> <<>>]
    /\ UNCHANGED <<pickup, recycled, today>>

RunQuery ==
    LET plan == Queries(report.kind)
        n == Len(report.counted) + 1
    IN  /\ report.phase = "counting" /\ n <= Len(plan)
        /\ report' = [report EXCEPT !.counted =
                        Append(@, Found(plan[n], report.viewer))]
        /\ UNCHANGED <<pickup, recycled, today>>

Respond ==
    /\ report.phase = "counting"
    /\ Len(report.counted) = Len(Queries(report.kind))
    /\ report' = NoReport
    /\ UNCHANGED <<pickup, recycled, today>>

ViewNext ==
    \/ \E place \in Sites, d \in Preferred \cup {Null} : Request(place, d)
    \/ \E p \in Ids, c \in Collectors : Assign(p, c)
    \/ \E p \in Ids, o \in {"COLLECTED", "FAILED"} : Finish(p, o)
    \/ \E p \in Ids, s \in Terminal : CloseAs(p, s)
    \/ RecordRecycling
    \/ \E d \in Days : NextDay(d)
    \/ \E k \in {"kpis", "dashboard", "environment"}, v \in Viewers : BeginReport(k, v)
    \/ RunQuery
    \/ Respond

ViewSpec == ViewInit /\ [][ViewNext]_viewVars

-----------------------------------------------------------------------------
\* Rows and reports hold values of their kind.
ViewTypeOK ==
    /\ today \in Days /\ recycled \in 0..MaxRecycled
    /\ \A p \in Ids :
          /\ pickup[p].status \in PickupStatus
          /\ pickup[p].company \in WasteCompanies \cup {Null}
    /\ report.phase \in {"none", "counting"}

\* The counts of one response are read one after the other while pickups move
\* (operational_service.py:309-342, analytics.py:33-39, reports.py:301-302).
\* No pickup is counted as open and as closed, and only one that is being
\* assigned can be counted as requested and as assigned; what was collected
\* with a proof is in the waste the same response names, and a breakdown
\* covers the totals above it.
ReportsCohere ==
    report # NoReport =>
        LET plan == Queries(report.kind)
            seen(i) == report.counted[i]
        IN  \A i, j \in DOMAIN report.counted : i < j =>
                /\ plan[i] \cap plan[j] = {} /\ {plan[i], plan[j]} \cap {Waste, Recycling} = {}
                      /\ seen(i) \cap seen(j) # {}
                   => plan[i] = {"REQUESTED"} /\ plan[j] = {"ASSIGNED"}
                /\ plan[i] = plan[j] => seen(i) \subseteq seen(j)
                /\ "COLLECTED" \in plan[i] /\ plan[j] = Waste
                   => {p \in seen(i) : pickup[p].proof = "COLLECTED"} \subseteq seen(j)

\* get_overdue_pickups cuts the list before it filters and scores it
\* (operational_service.py:220, 276-277).  A pickup that is overdue and not
\* listed scores no more than any listed, unless three limits of open pickups
\* are older; and while no more than that are open, the two lists agree: the
\* overdue ones of the queue score, one after the other, what the ones of the
\* list do, in whatever order the database returns the rows.
MostUrgentListed ==
    \A viewer \in Viewers, place \in RowOrders :
        LET list == OverdueList(viewer, today)
            queue == PriorityQueue(viewer, today, place)
            open == OpenPickups(viewer)
            listed == {list[i].id : i \in DOMAIN list}
            score(p) == Score(OverdueDays(p, today), Near[pickup[p].place])
            late(i) == Overdue({queue[j].id : j \in 1..i}, today)
        IN  /\ \A p \in Overdue(open, today) \ listed :
                  \/ Cardinality(Before(open, Placed(Age), p)) >= 3 * Limit
                  \/ Len(list) = Limit /\ \A q \in listed : score(q) >= score(p)
            /\ Cardinality(open) <= 3 * Limit =>
                  \A i \in DOMAIN queue :
                      LET k == Cardinality(late(i))
                      IN  OverdueDays(queue[i].id, today) > 0
                          => k \in DOMAIN list /\ list[k].score = queue[i].score

\* A route visits what a collector still has to do, each pickup once and up
\* to the limit, and goes each time to a nearest of those left, in whatever
\* order the database returns them (route_optimizer.py:46-51).
RouteIsGreedyTour ==
    \A c \in Collectors, origin \in Sites, place \in RowOrders :
        LET route == Route(c, origin, place)
            mine == {p \in Ids : pickup[p].collector = c /\ pickup[p].status = "ASSIGNED"}
            at(i) == IF i = 0 THEN origin ELSE pickup[route[i]].place
        IN  /\ \A i \in DOMAIN route : route[i] \in mine
            /\ \A i, j \in DOMAIN route : route[i] = route[j] => i = j
            /\ Len(route) = IF Cardinality(mine) < MaxStops THEN Cardinality(mine) ELSE MaxStops
            /\ \A i, j \in DOMAIN route : i < j =>
                  Distance[at(i - 1), at(i)] <= Distance[at(i - 1), at(j)]

\* The same facts on different screens agree, whatever a pickup went through:
\* the completions of the collectors listed since a day are those of the trend
\* and of the report since that day, and all of them are among the pickups
\* shown as collected; none of them is counted to a zone.
ScreensAgree ==
    \A viewer \in Viewers, from \in Days :
        LET trend == Total(CollectionTrend(viewer, from))
        IN  /\ Total(CollectorPerformance(viewer, from)) = trend
            /\ Cardinality(Successful(CollectionsReport(viewer, from))) = trend
            /\ viewer # Platform => trend <= Cardinality(CompletedPickups(viewer))
            /\ Total(ZonePerformance) = 0

=============================================================================
