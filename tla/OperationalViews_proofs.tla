----------------------- MODULE OperationalViews_proofs -----------------------
(***************************************************************************)
(* Proofs about OperationalViews, for any number of pickups, collectors,   *)
(* days, companies and sites.                                              *)
(***************************************************************************)
EXTENDS OperationalViews, FunctionTheorems, FiniteSetTheorems, WellFoundedInduction, TLAPS

-----------------------------------------------------------------------------
(* Queries.  A strict total order ranks the rows it orders: the rank of a  *)
(* row is how many come before it, and each rank is that of one row.       *)

Orders(order, S) ==
    /\ \A p \in S : <<p, p>> \notin order
    /\ \A p, q, r \in S : <<p, q>> \in order /\ <<q, r>> \in order => <<p, r>> \in order
    /\ \A p, q \in S : p # q => <<p, q>> \in order \/ <<q, p>> \in order

Rank(S, order, p) == Cardinality(Before(S, order, p))

LEMMA OrdersSubset ==
    ASSUME NEW S, NEW T \in SUBSET S, NEW order, Orders(order, S)
    PROVE  Orders(order, T)
BY DEF Orders

LEMMA RankGrows ==
    ASSUME NEW S, IsFiniteSet(S), NEW order, Orders(order, S),
           NEW p \in S, NEW q \in S, <<p, q>> \in order
    PROVE  Rank(S, order, p) < Rank(S, order, q)
<1>. DEFINE P == Before(S, order, p)  Q == Before(S, order, q)
<1>1. P \subseteq Q /\ p \in Q /\ p \notin P /\ Q \subseteq S
  BY DEF Before, Orders
<1>2. IsFiniteSet(Q)
  BY <1>1, FS_Subset
<1>. HIDE DEF P, Q
<1>3. Cardinality(P) <= Cardinality(Q) /\ Cardinality(P) # Cardinality(Q)
  BY <1>1, <1>2, FS_Subset
<1>4. Cardinality(P) \in Nat /\ Cardinality(Q) \in Nat
  BY <1>1, <1>2, FS_Subset, FS_CardinalityType
<1>. QED  BY <1>3, <1>4 DEF Rank, P, Q

LEMMA Ranks ==
    ASSUME NEW S, IsFiniteSet(S), NEW order, Orders(order, S)
    PROVE  /\ Cardinality(S) \in Nat
           /\ \A p \in S : Rank(S, order, p) \in 0..(Cardinality(S) - 1)
           /\ \A p, q \in S : /\ <<p, q>> \in order <=> Rank(S, order, p) < Rank(S, order, q)
                              /\ Rank(S, order, p) = Rank(S, order, q) => p = q
           /\ \A k \in 0..(Cardinality(S) - 1) : \E p \in S : Rank(S, order, p) = k
<1>. DEFINE N == Cardinality(S)  T == 0..(N - 1)
<1>0. N \in Nat
  BY FS_CardinalityType
<1>1. ASSUME NEW p \in S  PROVE Rank(S, order, p) \in T
  <2>. DEFINE P == Before(S, order, p)
  <2>1. P \subseteq S /\ P # S
    BY DEF Before, Orders
  <2>. HIDE DEF P
  <2>2. IsFiniteSet(P) /\ Cardinality(P) <= N /\ Cardinality(P) # N /\ Cardinality(P) \in Nat
    BY <2>1, FS_Subset, FS_CardinalityType
  <2>. QED  BY <1>0, <2>2 DEF Rank, P
<1>2. ASSUME NEW p \in S, NEW q \in S
      PROVE  /\ <<p, q>> \in order <=> Rank(S, order, p) < Rank(S, order, q)
             /\ Rank(S, order, p) = Rank(S, order, q) => p = q
  <2>1. Rank(S, order, p) \in Int /\ Rank(S, order, q) \in Int
    BY <1>0, <1>1
  <2>2. CASE p = q
    BY <2>1, <2>2 DEF Orders
  <2>3. CASE <<p, q>> \in order
    BY <2>1, <2>3, RankGrows
  <2>4. CASE <<q, p>> \in order
    <3>1. Rank(S, order, q) < Rank(S, order, p)
      BY <2>4, RankGrows
    <3>2. ~(<<p, q>> \in order)
      BY <2>4 DEF Orders
    <3>. QED  BY <2>1, <3>1, <3>2
  <2>. QED  BY <2>2, <2>3, <2>4 DEF Orders
<1>. DEFINE f == [p \in S |-> Rank(S, order, p)]
<1>3. f \in Injection(S, T)
  <2>1. f \in [S -> T] /\ \A p, q \in S : f[p] = f[q] => p = q
    <3>. HIDE DEF T
    <3>. QED  BY <1>1, <1>2
  <2>. HIDE DEF f, T
  <2>. QED  BY <2>1 DEF Injection, IsInjective
<1>4. IsFiniteSet(T) /\ Cardinality(T) = N
  BY <1>0, FS_Interval
<1>. HIDE DEF f, T
<1>5. f \in Surjection(S, T)
  BY <1>3, <1>4, FS_Injection
<1>6. ASSUME NEW k \in T  PROVE \E p \in S : Rank(S, order, p) = k
  BY <1>5 DEF Surjection, f
<1>. QED  BY <1>0, <1>1, <1>2, <1>6 DEF T

\* The first n rows keep their ranks.
LEMMA FirstRows ==
    ASSUME NEW S, IsFiniteSet(S), NEW order, Orders(order, S), NEW n \in Nat
    PROVE  LET F == FirstOf(S, order, n)
           IN  /\ F \subseteq S /\ IsFiniteSet(F)
               /\ Cardinality(F) = IF Cardinality(S) < n THEN Cardinality(S) ELSE n
               /\ \A p \in F : Before(F, order, p) = Before(S, order, p)
               /\ \A p \in S : p \in F <=> Rank(S, order, p) < n
<1>. DEFINE F == FirstOf(S, order, n)
            N == Cardinality(S)
            m == IF N < n THEN N ELSE n
            T == 0..(m - 1)
            f == [p \in F |-> Rank(S, order, p)]
<1>1. F \subseteq S /\ IsFiniteSet(F) /\ \A p \in S : p \in F <=> Rank(S, order, p) < n
  BY FS_Subset DEF FirstOf, Rank
<1>2. N \in Nat /\ m \in Nat /\ m <= N /\ m <= n
  BY FS_CardinalityType
<1>3. ASSUME NEW p \in F  PROVE Before(F, order, p) = Before(S, order, p)
  <2>1. ASSUME NEW q \in Before(S, order, p)  PROVE q \in F
    <3>1. q \in S /\ <<q, p>> \in order
      BY <2>1 DEF Before
    <3>2. Rank(S, order, q) < Rank(S, order, p) /\ Rank(S, order, p) < n
      BY <1>1, <3>1, RankGrows
    <3>3. Rank(S, order, q) \in Nat /\ Rank(S, order, p) \in Nat
      BY <1>1, <1>2, <3>1, Ranks
    <3>. QED  BY <1>1, <3>1, <3>2, <3>3
  <2>. QED  BY <1>1, <2>1 DEF Before
<1>4. ASSUME NEW p \in F  PROVE f[p] \in T
  <2>1. Rank(S, order, p) \in 0..(N - 1) /\ Rank(S, order, p) < n
    BY <1>1, Ranks
  <2>. QED  BY <1>2, <2>1
<1>5. f \in Injection(F, T)
  <2>1. ASSUME NEW p \in F, NEW q \in F, f[p] = f[q]  PROVE p = q
    <3>1. p \in S /\ q \in S /\ Rank(S, order, p) = Rank(S, order, q)
      BY <1>1, <2>1
    <3>. QED  BY <3>1, Ranks
  <2>2. f \in [F -> T]
    BY <1>4
  <2>. HIDE DEF f, F, T
  <2>. QED  BY <2>1, <2>2, Fun_IsInj
<1>6. f \in Surjection(F, T)
  <2>1. ASSUME NEW k \in T  PROVE \E p \in F : f[p] = k
    <3>1. k \in 0..(N - 1) /\ k < n
      BY <1>2
    <3>2. PICK p \in S : Rank(S, order, p) = k
      BY <3>1, Ranks
    <3>. QED  BY <1>1, <3>1, <3>2
  <2>2. f \in [F -> T]
    BY <1>4
  <2>3. \A k \in T : \E p \in F : f[p] = k
    BY <2>1
  <2>. HIDE DEF f, F, T
  <2>. QED  BY <2>2, <2>3, Fun_IsSurj
<1>7. IsFiniteSet(T) /\ Cardinality(T) = m
  <2>. HIDE DEF m
  <2>1. 0 \in Int /\ m - 1 \in Int /\ (IF 0 > m - 1 THEN 0 ELSE (m - 1) - 0 + 1) = m
    BY <1>2
  <2>2. IsFiniteSet(0..(m - 1)) /\ Cardinality(0..(m - 1)) = m
    BY <2>1, FS_Interval
  <2>. QED  BY <2>2
<1>8. Cardinality(F) = m
  <2>. HIDE DEF F, T, f, m
  <2>. QED  BY <1>5, <1>6, <1>7, FS_Injection
<1>. QED  BY <1>1, <1>3, <1>8

\* The list of the rows has each at its rank.
LEMMA ListOfRows ==
    ASSUME NEW S, IsFiniteSet(S), NEW order, Orders(order, S)
    PROVE  LET list == InOrder(S, order)
           IN  /\ DOMAIN list = 1..Cardinality(S)
               /\ \A k \in 1..Cardinality(S) :
                     list[k] \in S /\ Rank(S, order, list[k]) = k - 1
               /\ \A p \in S : \E k \in 1..Cardinality(S) : list[k] = p
<1>. DEFINE list == InOrder(S, order)  N == Cardinality(S)
<1>0. N \in Nat
  BY FS_CardinalityType
<1>1. DOMAIN list = 1..N
  BY DEF InOrder
<1>2. ASSUME NEW k \in 1..N  PROVE list[k] \in S /\ Rank(S, order, list[k]) = k - 1
  <2>1. list[k] = CHOOSE p \in S : Rank(S, order, p) = k - 1
    BY DEF InOrder, Rank
  <2>2. k - 1 \in 0..(N - 1)
    BY <1>0
  <2>3. \E p \in S : Rank(S, order, p) = k - 1
    BY <2>2, Ranks
  <2>. QED  BY <2>1, <2>3
<1>3. ASSUME NEW p \in S  PROVE \E k \in 1..N : list[k] = p
  <2>. DEFINE k == Rank(S, order, p) + 1
  <2>1. Rank(S, order, p) \in 0..(N - 1)
    BY Ranks
  <2>2. k \in 1..N /\ k - 1 = Rank(S, order, p)
    BY <1>0, <2>1
  <2>3. list[k] \in S /\ Rank(S, order, list[k]) = Rank(S, order, p)
    BY <1>2, <2>2
  <2>4. list[k] = p
    <3>. HIDE DEF list, k
    <3>. QED  BY <2>3, Ranks
  <2>. QED  BY <2>2, <2>4
<1>. QED  BY <1>1, <1>2, <1>3

-----------------------------------------------------------------------------
(* Rows.  What a pickup went through shows in its row: a company belongs   *)
(* to the collector, a collection to the status, and a closed pickup       *)
(* changes no more.                                                        *)

Row ==
    [status : {"REQUESTED", "ASSIGNED"} \cup Terminal, place : Sites,
     preferred : Preferred \cup {Null}, created : Days,
     collector : Collectors \cup {Null}, company : WasteCompanies \cup {Null},
     zone : {Null}, proof : {Null, "COLLECTED", "FAILED"}, completed : Days \cup {Null}]

RowFits(r) ==
    /\ r.status = "REQUESTED" => r.company = Null /\ r.proof = Null
    /\ r.status # "REQUESTED" => r.collector \in Collectors /\ r.company = CompanyOf[r.collector]
    /\ r.proof # Null => r.status = r.proof /\ r.completed \in Days

RowsInv ==
    /\ pickup \in Seq(Row) /\ Len(pickup) <= MaxPickups
    /\ \A p \in Ids : RowFits(pickup[p])
    /\ today \in Days /\ recycled \in 0..MaxRecycled

\* What is counted later of a pickup with status s.
After(s) ==
    CASE s = "REQUESTED" -> {"REQUESTED", "ASSIGNED"} \cup Terminal
      [] s = "ASSIGNED"  -> {"ASSIGNED"} \cup Terminal
      [] OTHER           -> {s}

\* What no step takes back of a row.
RowKept(p) ==
    /\ pickup'[p].status \in After(pickup[p].status)
    /\ pickup[p].status \in Terminal => pickup'[p] = pickup[p]
    /\ pickup[p].company # Null => pickup'[p].company = pickup[p].company

LEMMA StatusesDiffer ==
    /\ "REQUESTED" \notin Terminal /\ "ASSIGNED" \notin Terminal
    /\ {"COLLECTED", "FAILED"} \subseteq Terminal
BY DEF Terminal

LEMMA RowUpdate ==
    ASSUME RowsInv, NEW p \in Ids, NEW r \in Row, RowFits(r),
           pickup[p].status \notin Terminal, r.status \in After(pickup[p].status),
           pickup[p].company # Null => r.company = pickup[p].company,
           pickup' = [pickup EXCEPT ![p] = r], UNCHANGED <<today, recycled>>
    PROVE  RowsInv' /\ Ids' = Ids /\ \A q \in Ids : RowKept(q)
<1>1. pickup' \in Seq(Row) /\ Len(pickup') = Len(pickup) /\ Ids' = Ids
  BY DEF RowsInv, Ids
<1>2. \A q \in Ids : pickup'[q] = IF q = p THEN r ELSE pickup[q]
  BY DEF RowsInv, Ids
<1>3. ASSUME NEW q \in Ids  PROVE RowKept(q) /\ RowFits(pickup'[q])
  <2>1. CASE q = p
    BY <1>2, <2>1 DEF RowKept
  <2>2. CASE q # p
    <3>1. pickup[q] \in Row /\ pickup'[q] = pickup[q] /\ RowFits(pickup[q])
      BY <1>2, <2>2 DEF RowsInv, Ids
    <3>2. pickup[q].status \in After(pickup[q].status)
      BY <3>1 DEF After, Row
    <3>. QED  BY <3>1, <3>2 DEF RowKept
  <2>. QED  BY <2>1, <2>2
<1>4. today' \in Days /\ recycled' \in 0..MaxRecycled /\ Len(pickup') <= MaxPickups
  BY <1>1 DEF RowsInv
<1>. QED  BY <1>1, <1>3, <1>4 DEF RowsInv

LEMMA RowsStep ==
    ASSUME RowsInv, [ViewNext]_viewVars
    PROVE  /\ RowsInv' /\ Ids \subseteq Ids' /\ recycled <= recycled'
           /\ \A p \in Ids : RowKept(p)
<1>0. /\ pickup \in Seq(Row) /\ Ids = 1..Len(pickup)
      /\ \A q \in Ids : pickup[q] \in Row /\ RowFits(pickup[q])
  BY DEF RowsInv, Ids
<1>1. ASSUME UNCHANGED pickup, recycled <= recycled', recycled' \in 0..MaxRecycled, today' \in Days
      PROVE  RowsInv' /\ Ids' = Ids /\ \A p \in Ids : RowKept(p)
  <2>1. RowsInv' /\ Ids' = Ids
    BY <1>1 DEF RowsInv, Ids, RowFits
  <2>2. ASSUME NEW p \in Ids  PROVE RowKept(p)
    BY <1>0, <1>1 DEF RowKept, After, Row
  <2>. QED  BY <2>1, <2>2
<1>2. recycled \in Int /\ recycled <= recycled
  BY DEF RowsInv
<1>3. ASSUME NEW place \in Sites, NEW d \in Preferred \cup {Null}, Request(place, d)
      PROVE  RowsInv' /\ Ids \subseteq Ids' /\ \A p \in Ids : RowKept(p)
  <2>. DEFINE r == [status |-> "REQUESTED", place |-> place, preferred |-> d,
                    created |-> today, collector |-> Null, company |-> Null,
                    zone |-> Null, proof |-> Null, completed |-> Null]
  <2>1. r \in Row /\ RowFits(r)
    BY DEF Row, RowFits, RowsInv
  <2>2. pickup' = Append(pickup, r) /\ Len(pickup) < MaxPickups /\ UNCHANGED <<recycled, today>>
    BY <1>3 DEF Request
  <2>. HIDE DEF r
  <2>3. /\ pickup' \in Seq(Row) /\ Len(pickup') = Len(pickup) + 1 /\ Ids' = 1..Len(pickup')
        /\ \A p \in Ids : pickup'[p] = pickup[p]
        /\ pickup'[Len(pickup) + 1] = r
    BY <1>0, <2>1, <2>2 DEF Ids
  <2>4. Len(pickup') <= MaxPickups
    BY <1>0, <2>2, <2>3, ViewAssumption
  <2>5. \A p \in Ids' : RowFits(pickup'[p])
    <3>1. \A p \in Ids' : p \in Ids \/ p = Len(pickup) + 1
      BY <1>0, <2>3
    <3>. QED  BY <1>0, <2>1, <2>3, <3>1
  <2>6. ASSUME NEW p \in Ids  PROVE RowKept(p)
    <3>1. pickup'[p] = pickup[p] /\ pickup[p] \in Row
      BY <1>0, <2>3
    <3>2. pickup[p].status \in After(pickup[p].status)
      BY <3>1 DEF After, Row
    <3>. QED  BY <3>1, <3>2 DEF RowKept
  <2>7. Ids \subseteq Ids' /\ today' \in Days /\ recycled' \in 0..MaxRecycled
    BY <1>0, <2>2, <2>3 DEF RowsInv
  <2>. QED  BY <2>3, <2>4, <2>5, <2>6, <2>7 DEF RowsInv
<1>4. ASSUME NEW p \in Ids, NEW c \in Collectors, Assign(p, c)
      PROVE  RowsInv' /\ Ids' = Ids /\ \A q \in Ids : RowKept(q)
  <2>. DEFINE r == [pickup[p] EXCEPT !.status = "ASSIGNED", !.collector = c,
                                     !.company = CompanyOf[c]]
  <2>1. pickup[p] \in Row /\ RowFits(pickup[p]) /\ pickup[p].status = "REQUESTED"
    BY <1>0, <1>4 DEF Assign
  <2>2. r \in Row /\ RowFits(r) /\ r.status \in After(pickup[p].status) /\ pickup[p].company = Null
    BY <2>1, ViewAssumption DEF Row, RowFits, After
  <2>3. pickup' = [pickup EXCEPT ![p] = r] /\ UNCHANGED <<today, recycled>>
    BY <1>0, <1>4 DEF Assign
  <2>. HIDE DEF r
  <2>. QED  BY <2>1, <2>2, <2>3, StatusesDiffer, RowUpdate
<1>5. ASSUME NEW p \in Ids, NEW o \in {"COLLECTED", "FAILED"}, Finish(p, o)
      PROVE  RowsInv' /\ Ids' = Ids /\ \A q \in Ids : RowKept(q)
  <2>. DEFINE r == [pickup[p] EXCEPT !.status = o, !.proof = o, !.completed = today]
  <2>1. pickup[p] \in Row /\ RowFits(pickup[p]) /\ pickup[p].status = "ASSIGNED"
    BY <1>0, <1>5 DEF Finish
  <2>2. /\ r \in Row /\ RowFits(r) /\ r.status \in After(pickup[p].status)
        /\ r.company = pickup[p].company
    BY <2>1 DEF Row, RowFits, After, Terminal, RowsInv
  <2>3. pickup' = [pickup EXCEPT ![p] = r] /\ UNCHANGED <<today, recycled>>
    BY <1>0, <1>5 DEF Finish
  <2>. HIDE DEF r
  <2>. QED  BY <2>1, <2>2, <2>3, StatusesDiffer, RowUpdate
<1>6. ASSUME NEW p \in Ids, NEW s \in Terminal, CloseAs(p, s)
      PROVE  RowsInv' /\ Ids' = Ids /\ \A q \in Ids : RowKept(q)
  <2>. DEFINE r == [pickup[p] EXCEPT !.status = s]
  <2>1. pickup[p] \in Row /\ RowFits(pickup[p]) /\ pickup[p].status = "ASSIGNED"
    BY <1>0, <1>6 DEF CloseAs
  <2>2. /\ r \in Row /\ RowFits(r) /\ r.status \in After(pickup[p].status)
        /\ r.company = pickup[p].company
    BY <2>1 DEF Row, RowFits, After, Terminal
  <2>3. pickup' = [pickup EXCEPT ![p] = r] /\ UNCHANGED <<today, recycled>>
    BY <1>0, <1>6 DEF CloseAs
  <2>. HIDE DEF r
  <2>. QED  BY <2>1, <2>2, <2>3, StatusesDiffer, RowUpdate
<1>7. CASE RecordRecycling
  <2>1. UNCHANGED <<pickup, today>> /\ recycled <= recycled' /\ recycled' \in 0..MaxRecycled
    BY <1>7, ViewAssumption DEF RecordRecycling, RowsInv
  <2>. QED  BY <1>1, <2>1 DEF RowsInv
<1>8. ASSUME NEW d \in Days, NextDay(d)
      PROVE  RowsInv' /\ Ids' = Ids /\ \A q \in Ids : RowKept(q)
  BY <1>1, <1>2, <1>8 DEF NextDay, RowsInv
<1>9. CASE (\E k \in {"kpis", "dashboard", "environment"}, v \in Viewers : BeginReport(k, v))
           \/ RunQuery \/ Respond \/ UNCHANGED viewVars
  <2>1. UNCHANGED <<pickup, recycled, today>>
    BY <1>9 DEF BeginReport, RunQuery, Respond, viewVars
  <2>. QED  BY <1>1, <1>2, <2>1 DEF RowsInv
<1>10. recycled <= recycled'
  <2>1. UNCHANGED recycled \/ RecordRecycling
    BY DEF ViewNext, Request, Assign, Finish, CloseAs, NextDay, BeginReport, RunQuery, Respond,
           viewVars
  <2>. QED  BY <1>2, <2>1 DEF RecordRecycling
<1>. QED  BY <1>3, <1>4, <1>5, <1>6, <1>7, <1>8, <1>9, <1>10 DEF ViewNext

LEMMA RowsInit == ViewInit => RowsInv
<1>. SUFFICES ASSUME ViewInit  PROVE RowsInv
  OBVIOUS
<1>1. pickup = <<>> /\ recycled = 0 /\ today \in Days
  BY DEF ViewInit
<1>2. pickup \in Seq(Row) /\ Len(pickup) = 0 /\ Ids = {}
  BY <1>1 DEF Ids
<1>. QED  BY <1>1, <1>2, ViewAssumption DEF RowsInv

LEMMA RowsAlways == ViewSpec => []RowsInv
<1>1. RowsInv /\ [ViewNext]_viewVars => RowsInv'
  BY RowsStep
<1>. QED  BY RowsInit, <1>1, PTL DEF ViewSpec

-----------------------------------------------------------------------------
(* Reports.  A pickup that a query counted went through one of the         *)
(* statuses it asked for, and is still in the scope; what was counted of   *)
(* closed pickups, of waste and of recycling is still so.                  *)

Kinds == {"kpis", "dashboard", "environment"}

\* What a query counted, now.
StillSo(query, viewer, seen) ==
    CASE query = Waste     -> seen \subseteq WasteRecords(viewer)
      [] query = Recycling -> seen \subseteq 1..recycled
      [] OTHER -> \A p \in seen :
                     /\ p \in Ids /\ InScope(viewer, p)
                     /\ \E s \in query : pickup[p].status \in After(s)

ReportShape ==
    \/ report = NoReport
    \/ /\ report \in [phase : {"counting"}, kind : Kinds, viewer : Viewers,
                      counted : Seq(SUBSET Nat)]
       /\ Len(report.counted) <= Len(Queries(report.kind))

CountedInv ==
    report # NoReport =>
        \A i \in DOMAIN report.counted :
            StillSo(Queries(report.kind)[i], report.viewer, report.counted[i])

ReportInv == ReportShape /\ CountedInv /\ ReportsCohere

\* Where two queries of a report do not ask for the same, the first asks for
\* closed pickups or they are those of the dashboard that follow a pickup.
LEMMA Plans ==
    ASSUME NEW kind \in Kinds
    PROVE  LET plan == Queries(kind)
           IN  /\ Len(plan) \in Nat /\ DOMAIN plan = 1..Len(plan)
               /\ \A i \in DOMAIN plan :
                     \/ plan[i] \in {Waste, Recycling}
                     \/ "COLLECTED" \notin plan[i]
                     \/ plan[i] \subseteq Terminal
               /\ \A i, j \in DOMAIN plan : i < j =>
                     \/ plan[i] \in {Waste, Recycling} \/ plan[j] \in {Waste, Recycling}
                     \/ plan[i] \subseteq Terminal /\ plan[i] # plan[j]
                     \/ plan[i] \cap plan[j] # {} /\ plan[i] # plan[j]
                     \/ plan[i] = {"REQUESTED"} /\ plan[j] = {"ASSIGNED"}
<1>1. CASE kind = "kpis"
  <2>1. Queries(kind) = <<Terminal, Active, {"REQUESTED"}, Waste>>
    BY <1>1 DEF Queries, Kpis
  <2>2. /\ "REQUESTED" \in Active /\ "EN_ROUTE" \in Active /\ Active # {"REQUESTED"}
        /\ "COLLECTED" \notin Active
    BY DEF Active
  <2>3. Terminal # Active /\ Terminal # {"REQUESTED"}
    BY DEF Terminal, Active
  <2>. QED  BY <2>1, <2>2, <2>3
<1>2. CASE kind = "dashboard"
  <2>1. Queries(kind) = <<{"COLLECTED"}, {"MISSED"}, {"FAILED"}, {"REQUESTED"}, {"ASSIGNED"},
                          Waste, Recycling>>
    BY <1>2 DEF Queries, AdminDashboard
  <2>2. /\ {"COLLECTED"} \subseteq Terminal /\ {"MISSED"} \subseteq Terminal
        /\ {"FAILED"} \subseteq Terminal
    BY DEF Terminal
  <2>. QED  BY <2>1, <2>2
<1>3. CASE kind = "environment"
  <2>1. Queries(kind) = <<Waste, Recycling, Waste, Recycling>>
    BY <1>3 DEF Queries, Environment
  <2>. QED  BY <2>1
<1>. QED  BY <1>1, <1>2, <1>3 DEF Kinds

LEMMA QueriesDiffer == Waste # Recycling
BY DEF Waste, Recycling

LEMMA StillSoKept ==
    ASSUME RowsInv, [ViewNext]_viewVars, NEW query, NEW viewer \in Viewers, NEW seen,
           StillSo(query, viewer, seen)
    PROVE  StillSo(query, viewer, seen)'
<1>1. RowsInv' /\ Ids \subseteq Ids' /\ recycled <= recycled' /\ \A p \in Ids : RowKept(p)
  BY RowsStep
<1>2. \A p \in Ids : pickup[p] \in Row
  BY DEF RowsInv, Ids
<1>3. ASSUME NEW p \in Ids, InScope(viewer, p)  PROVE InScope(viewer, p)'
  BY <1>1, <1>3, ViewAssumption DEF InScope, RowKept, Viewers
<1>4. CASE query = Waste
  <2>1. ASSUME NEW p \in WasteRecords(viewer)  PROVE p \in WasteRecords(viewer)'
    <3>1. p \in Ids /\ pickup[p].proof = "COLLECTED" /\ InScope(viewer, p) /\ RowFits(pickup[p])
      BY DEF WasteRecords, RowsInv
    <3>2. pickup[p].status \in Terminal
      BY <3>1, StatusesDiffer, ViewAssumption DEF RowFits
    <3>3. pickup'[p] = pickup[p] /\ InScope(viewer, p)' /\ p \in Ids'
      BY <1>1, <1>3, <3>1, <3>2 DEF RowKept
    <3>. QED  BY <3>1, <3>3 DEF WasteRecords
  <2>. QED  BY <1>4, <2>1, QueriesDiffer DEF StillSo
<1>5. CASE query # Waste /\ query = Recycling
  <2>1. 1..recycled \subseteq 1..recycled'
    BY <1>1 DEF RowsInv
  <2>. QED  BY <1>5, <2>1 DEF StillSo
<1>6. CASE query # Waste /\ query # Recycling
  <2>1. ASSUME NEW p \in seen
        PROVE  p \in Ids' /\ InScope(viewer, p)' /\ \E s \in query : pickup'[p].status \in After(s)
    <3>1. p \in Ids /\ InScope(viewer, p)
      BY <1>6 DEF StillSo
    <3>2. PICK s \in query : pickup[p].status \in After(s)
      BY <1>6 DEF StillSo
    <3>3. pickup'[p].status \in After(pickup[p].status) /\ p \in Ids' /\ InScope(viewer, p)'
      BY <1>1, <1>3, <3>1 DEF RowKept
    <3>4. pickup'[p].status \in After(s)
      BY <3>2, <3>3, StatusesDiffer DEF After
    <3>. QED  BY <3>3, <3>4
  <2>. QED  BY <1>6, <2>1 DEF StillSo
<1>. QED  BY <1>4, <1>5, <1>6

\* What a query finds is so.
LEMMA FoundIsSo ==
    ASSUME RowsInv, NEW query, NEW viewer
    PROVE  /\ StillSo(query, viewer, Found(query, viewer))
           /\ Found(query, viewer) \in SUBSET Nat
<1>1. Ids \subseteq Nat /\ 1..recycled \subseteq Nat /\ \A p \in Ids : pickup[p] \in Row
  BY DEF RowsInv, Ids
<1>2. \A p \in Ids : pickup[p].status \in After(pickup[p].status)
  BY <1>1 DEF After, Row
<1>. QED  BY <1>1, <1>2 DEF StillSo, Found, WasteRecords

\* The last query of a report and one before it.
LEMMA FoundCoheres ==
    ASSUME RowsInv, NEW viewer, NEW kind \in Kinds, NEW i \in DOMAIN Queries(kind),
           NEW n \in DOMAIN Queries(kind), i < n, NEW seen,
           StillSo(Queries(kind)[i], viewer, seen)
    PROVE  LET plan == Queries(kind)
               found == Found(plan[n], viewer)
           IN  /\ plan[i] \cap plan[n] = {} /\ {plan[i], plan[n]} \cap {Waste, Recycling} = {}
                     /\ seen \cap found # {}
                  => plan[i] = {"REQUESTED"} /\ plan[n] = {"ASSIGNED"}
               /\ plan[i] = plan[n] => seen \subseteq found
               /\ "COLLECTED" \in plan[i] /\ plan[n] = Waste
                  => {p \in seen : pickup[p].proof = "COLLECTED"} \subseteq found
<1>. DEFINE plan == Queries(kind)  one == plan[i]  other == plan[n]
            found == Found(other, viewer)
<1>0. /\ one \in {Waste, Recycling} \/ other \in {Waste, Recycling}
         \/ (one \subseteq Terminal /\ one # other)
         \/ (one \cap other # {} /\ one # other)
         \/ (one = {"REQUESTED"} /\ other = {"ASSIGNED"})
      /\ one # Waste /\ "COLLECTED" \in one => one \subseteq Terminal
  BY Plans DEF Waste, Recycling
<1>1. Waste # Recycling /\ "COLLECTED" \notin Waste \cup Recycling
  BY DEF Waste, Recycling
<1>2. StillSo(one, viewer, seen)
  OBVIOUS
<1>. HIDE DEF one, other
<1>3. ASSUME one \cap other = {}, {one, other} \cap {Waste, Recycling} = {}, seen \cap found # {}
      PROVE  one = {"REQUESTED"} /\ other = {"ASSIGNED"}
  <2>. SUFFICES ASSUME one \subseteq Terminal  PROVE FALSE
    BY <1>0, <1>3
  <2>1. PICK p : p \in seen /\ p \in found
    BY <1>3
  <2>2. pickup[p].status \in other
    BY <1>3, <2>1 DEF Found
  <2>3. PICK s \in one : pickup[p].status \in After(s)
    BY <1>2, <1>3, <2>1 DEF StillSo
  <2>4. pickup[p].status = s
    BY <2>3, StatusesDiffer DEF After
  <2>. QED  BY <1>3, <2>2, <2>4
<1>4. ASSUME one = other  PROVE seen \subseteq found
  <2>1. one = Waste \/ one = Recycling
    BY <1>0, <1>4
  <2>. QED  BY <1>1, <1>2, <1>4, <2>1 DEF StillSo, Found
<1>5. ASSUME "COLLECTED" \in one, other = Waste, NEW p \in seen, pickup[p].proof = "COLLECTED"
      PROVE  p \in found
  <2>1. one # Waste /\ one # Recycling
    BY <1>1, <1>5
  <2>2. p \in Ids /\ InScope(viewer, p)
    BY <1>2, <1>5, <2>1 DEF StillSo
  <2>. QED  BY <1>1, <1>5, <2>2 DEF Found, WasteRecords
<1>. QED  BY <1>3, <1>4, <1>5 DEF one, other

LEMMA ReportStep ==
    ASSUME RowsInv, ReportInv, [ViewNext]_viewVars
    PROVE  ReportInv'
<1>0. RowsInv'
  BY RowsStep
<1>1. CASE report = NoReport /\ report' = NoReport
  BY <1>1 DEF ReportInv, ReportShape, CountedInv, ReportsCohere
<1>2. CASE report # NoReport /\ UNCHANGED report
  <2>0. /\ report.kind \in Kinds /\ report.viewer \in Viewers /\ report.counted \in Seq(SUBSET Nat)
        /\ Len(report.counted) <= Len(Queries(report.kind))
    BY <1>2 DEF ReportInv, ReportShape
  <2>. DEFINE plan == Queries(report.kind)  seen(i) == report.counted[i]
  <2>1. \A i \in DOMAIN report.counted : i \in DOMAIN plan
    BY <2>0, Plans
  <2>2. ReportShape'
    BY <1>2 DEF ReportInv, ReportShape, Queries
  <2>3. ASSUME NEW i \in DOMAIN report.counted
        PROVE  /\ StillSo(plan[i], report.viewer, seen(i))'
               /\ plan[i] # Waste /\ "COLLECTED" \in plan[i] =>
                     \A p \in seen(i) : pickup'[p].proof = pickup[p].proof
    <3>0. StillSo(plan[i], report.viewer, seen(i))
      BY <1>2 DEF ReportInv, CountedInv
    <3>1. PICK query, viewer, counted : /\ query = plan[i] /\ viewer = report.viewer
                                        /\ counted = seen(i)
      OBVIOUS
    <3>2. StillSo(query, viewer, counted)
      BY <3>0, <3>1
    <3>3. StillSo(query, viewer, counted)'
      BY <2>0, <3>1, <3>2, StillSoKept
    <3>4. (query = plan[i] /\ viewer = report.viewer /\ counted = seen(i))'
      BY <1>2, <3>1 DEF Queries, Kpis, AdminDashboard, Environment
    <3>5. StillSo(plan[i], report.viewer, seen(i))'
      BY <3>3, <3>4
    <3>6. ASSUME plan[i] # Waste, "COLLECTED" \in plan[i], NEW p \in seen(i)
          PROVE  pickup'[p].proof = pickup[p].proof
      <4>1. plan[i] \subseteq Terminal /\ plan[i] # Recycling
        BY <2>0, <2>1, <3>6, Plans DEF Recycling, Waste
      <4>2. p \in Ids
        BY <3>0, <3>6, <4>1 DEF StillSo
      <4>3. PICK s \in plan[i] : pickup[p].status \in After(s)
        BY <3>0, <3>6, <4>1 DEF StillSo
      <4>4. pickup[p].status \in Terminal
        BY <4>1, <4>3, StatusesDiffer DEF After
      <4>. QED  BY <4>2, <4>4, RowsStep DEF RowKept
    <3>. QED  BY <3>5, <3>6
  <2>4. CountedInv'
    BY <1>2, <2>3 DEF CountedInv, Queries
  <2>5. ReportsCohere'
    <3>1. ReportsCohere
      BY DEF ReportInv
    <3>2. "COLLECTED" \notin Waste
      BY DEF Waste
    <3>. QED  BY <1>2, <2>3, <3>1, <3>2 DEF ReportsCohere, Queries
  <2>. QED  BY <2>2, <2>4, <2>5 DEF ReportInv
<1>3. ASSUME NEW k \in Kinds, NEW v \in Viewers, BeginReport(k, v)
      PROVE  ReportInv'
  <2>1. /\ report' = [phase |-> "counting", kind |-> k, viewer |-> v, counted |-> <<>>]
        /\ report' # NoReport
    BY <1>3 DEF BeginReport, NoReport
  <2>2. report'.counted = <<>> /\ report'.kind = k /\ report'.viewer = v /\ Len(<<>>) = 0
    BY <2>1
  <2>3. Len(Queries(k)) \in Nat /\ Len(Queries(k)) >= 0
    BY Plans
  <2>4. ReportShape'
    BY <2>1, <2>2, <2>3 DEF ReportShape, Queries
  <2>. QED  BY <2>2, <2>4 DEF ReportInv, CountedInv, ReportsCohere
<1>4. CASE RunQuery
  <2>. DEFINE plan == Queries(report.kind)
              n == Len(report.counted) + 1
              found == Found(plan[n], report.viewer)
  <2>1. /\ report # NoReport /\ report.kind \in Kinds /\ report.viewer \in Viewers
        /\ report.counted \in Seq(SUBSET Nat) /\ n <= Len(plan)
        /\ report \in [phase : {"counting"}, kind : Kinds, viewer : Viewers,
                       counted : Seq(SUBSET Nat)]
    BY <1>4 DEF RunQuery, ReportInv, ReportShape, NoReport
  <2>2. /\ report' = [report EXCEPT !.counted = Append(report.counted, found)]
        /\ UNCHANGED <<pickup, recycled, today>>
    BY <1>4 DEF RunQuery
  <2>3. found \in SUBSET Nat /\ StillSo(plan[n], report.viewer, found)
    BY FoundIsSo
  <2>4. /\ report'.kind = report.kind /\ report'.viewer = report.viewer
        /\ report'.counted = Append(report.counted, found)
        /\ report' \in [phase : {"counting"}, kind : Kinds, viewer : Viewers,
                        counted : Seq(SUBSET Nat)]
    <3>. HIDE DEF found, n
    <3>1. Append(report.counted, found) \in Seq(SUBSET Nat)
      BY <2>1, <2>3
    <3>. QED  BY <2>1, <2>2, <3>1
  <2>5. /\ Len(report'.counted) = n /\ DOMAIN report'.counted = 1..n
        /\ DOMAIN report.counted = 1..(n - 1) /\ n \in Nat
        /\ \A i \in 1..(n - 1) : report'.counted[i] = report.counted[i]
        /\ report'.counted[n] = found
    BY <2>1, <2>3, <2>4
  <2>. HIDE DEF n, plan, found
  <2>6. DOMAIN plan = 1..Len(plan) /\ Len(plan) \in Nat /\ n \in DOMAIN plan
        /\ \A i \in 1..(n - 1) : i \in DOMAIN plan /\ i < n
    BY <2>1, <2>5, Plans DEF plan, n
  <2>7. Queries(report'.kind) = plan
    BY <2>4 DEF plan
  <2>8. \A i \in 1..(n - 1) : StillSo(plan[i], report.viewer, report.counted[i])
    BY <2>1, <2>5 DEF ReportInv, CountedInv, plan
  <2>9. \A i \in 1..n : StillSo(plan[i], report.viewer, report'.counted[i])
    BY <2>3, <2>5, <2>8
  <2>10. \A i \in 1..n : i \in 1..(n - 1) \/ i = n
    BY <2>5
  <2>11. ReportShape'
    BY <2>1, <2>4, <2>5, <2>7 DEF ReportShape, Queries, plan
  <2>12. CountedInv'
    BY <2>2, <2>4, <2>5, <2>7, <2>9
       DEF CountedInv, StillSo, WasteRecords, InScope, Ids, Queries
  <2>13. ASSUME NEW i \in 1..n, NEW j \in 1..n, i < j
         PROVE  LET seen(k) == report'.counted[k]
                IN  /\ plan[i] \cap plan[j] = {} /\ {plan[i], plan[j]} \cap {Waste, Recycling} = {}
                          /\ seen(i) \cap seen(j) # {}
                       => plan[i] = {"REQUESTED"} /\ plan[j] = {"ASSIGNED"}
                    /\ plan[i] = plan[j] => seen(i) \subseteq seen(j)
                    /\ "COLLECTED" \in plan[i] /\ plan[j] = Waste
                       => {p \in seen(i) : pickup[p].proof = "COLLECTED"} \subseteq seen(j)
    <3>1. i \in 1..(n - 1)
      BY <2>5, <2>13
    <3>2. CASE j \in 1..(n - 1)
      <4>1. ReportsCohere
        BY DEF ReportInv
      <4>2. i \in DOMAIN report.counted /\ j \in DOMAIN report.counted
            /\ report'.counted[i] = report.counted[i] /\ report'.counted[j] = report.counted[j]
        BY <2>5, <3>1, <3>2
      <4>. QED  BY <2>1, <2>13, <4>1, <4>2 DEF ReportsCohere, plan
    <3>3. CASE j = n
      <4>1. i \in DOMAIN plan /\ n \in DOMAIN plan /\ i < n
        BY <2>6, <3>1
      <4>2. StillSo(plan[i], report.viewer, report.counted[i])
        BY <2>8, <3>1
      <4>3. report'.counted[i] = report.counted[i] /\ report'.counted[j] = found
        BY <2>5, <3>1, <3>3
      <4>4. PICK kind, viewer, seen : /\ kind = report.kind /\ viewer = report.viewer
                                      /\ seen = report.counted[i]
        OBVIOUS
      <4>5. /\ plan[i] \cap plan[n] = {} /\ {plan[i], plan[n]} \cap {Waste, Recycling} = {}
                  /\ seen \cap found # {}
               => plan[i] = {"REQUESTED"} /\ plan[n] = {"ASSIGNED"}
            /\ plan[i] = plan[n] => seen \subseteq found
            /\ "COLLECTED" \in plan[i] /\ plan[n] = Waste
               => {p \in seen : pickup[p].proof = "COLLECTED"} \subseteq found
        <5>1. kind \in Kinds /\ plan = Queries(kind) /\ found = Found(plan[n], viewer)
          BY <2>1, <4>4 DEF plan, found
        <5>2. StillSo(plan[i], viewer, seen)
          BY <4>2, <4>4
        <5>. HIDE DEF plan, found, n
        <5>. QED  BY <4>1, <5>1, <5>2, FoundCoheres
      <4>. QED  BY <3>3, <4>3, <4>4, <4>5
    <3>. QED  BY <2>10, <3>2, <3>3
  <2>14. ReportsCohere'
    BY <2>2, <2>5, <2>7, <2>13, SMTT(20) DEF ReportsCohere, Queries
  <2>. QED  BY <2>11, <2>12, <2>14 DEF ReportInv
<1>5. CASE Respond
  BY <1>5 DEF Respond, ReportInv, ReportShape, CountedInv, ReportsCohere
<1>6. \/ (\E k \in Kinds, v \in Viewers : BeginReport(k, v)) \/ RunQuery \/ Respond
      \/ UNCHANGED report
  BY DEF ViewNext, Request, Assign, Finish, CloseAs, NextDay, RecordRecycling, viewVars, Kinds
<1>. QED  BY <1>1, <1>2, <1>3, <1>4, <1>5, <1>6

LEMMA ReportInit == ViewInit => ReportInv
BY DEF ViewInit, ReportInv, ReportShape, CountedInv, ReportsCohere

LEMMA ReportAlways == ViewSpec => []ReportInv
<1>1. RowsInv /\ ReportInv /\ [ViewNext]_viewVars => ReportInv'
  BY ReportStep
<1>. QED  BY ReportInit, RowsAlways, <1>1, PTL DEF ViewSpec

\* The counts of one response, read one after the other while pickups move,
\* do not contradict each other, whatever moves between two queries.
THEOREM ReportsCorrect == ViewSpec => []ReportsCohere
<1>1. ReportInv => ReportsCohere
  BY DEF ReportInv
<1>. QED  BY ReportAlways, <1>1, PTL

\* The tables and the report under way hold values of their kind.
THEOREM ViewTypeCorrect == ViewSpec => []ViewTypeOK
<1>1. ASSUME RowsInv, ReportInv  PROVE ViewTypeOK
  <2>1. \A p \in Ids : pickup[p] \in Row
    BY <1>1 DEF RowsInv, Ids
  <2>2. \A p \in Ids : /\ pickup[p].status \in PickupStatus
                       /\ pickup[p].company \in WasteCompanies \cup {Null}
    BY <2>1 DEF Row, PickupStatus, Terminal
  <2>3. report.phase \in {"none", "counting"}
    BY <1>1 DEF ReportInv, ReportShape, NoReport
  <2>. QED  BY <1>1, <2>2, <2>3 DEF ViewTypeOK, RowsInv
<1>. QED  BY RowsAlways, ReportAlways, <1>1, PTL

-----------------------------------------------------------------------------
(* Sums.  The fold of the library is a recursion over sets: it has a       *)
(* solution, found here as the number of what the sets of a family hold    *)
(* together, and no other.                                                 *)

\* A set of naturals with 0 and with the successors of its members is Nat:
\* else the least of the others would be 0 or a successor.
LEMMA SetInduction ==
    ASSUME NEW P \in SUBSET Nat, 0 \in P, \A n \in P : n + 1 \in P
    PROVE  P = Nat
<1>. SUFFICES ASSUME P # Nat  PROVE FALSE
  OBVIOUS
<1>. DEFINE R == OpToRel(<, Nat)
<1>1. IsWellFoundedOn(R, Nat)
  BY NatLessThanWellFounded
<1>2. \A x, y \in Nat : <<x, y>> \in R <=> x < y
  BY DEF OpToRel
<1>. HIDE DEF R
<1>3. PICK n \in Nat \ P : \A y \in Nat \ P : ~(<<y, n>> \in R)
  <2>1. Nat \ P \subseteq Nat /\ Nat \ P # {}
    OBVIOUS
  <2>. QED  BY <1>1, <2>1, WFMin
<1>4. n # 0 /\ n - 1 \in Nat /\ (n - 1) + 1 = n /\ n - 1 < n
  OBVIOUS
<1>5. n - 1 \notin P
  BY <1>3, <1>4
<1>. QED  BY <1>2, <1>3, <1>4, <1>5

Held(A, s) == UNION {A[d] : d \in s}

Apart(A) ==
    /\ IsFiniteSet(DOMAIN A)
    /\ IsFiniteSet(Held(A, DOMAIN A))
    /\ \A d, e \in DOMAIN A : d # e => A[d] \cap A[e] = {}

\* What a family holds with one more set.
LEMMA HeldMore ==
    ASSUME NEW A, Apart(A), NEW s \in SUBSET DOMAIN A, NEW x \in s
    PROVE  /\ Cardinality(A[x]) \in Nat /\ Cardinality(Held(A, s)) \in Nat
           /\ Cardinality(Held(A, s \ {x})) \in Nat
           /\ Cardinality(Held(A, s)) = Cardinality(A[x]) + Cardinality(Held(A, s \ {x}))
<1>. DEFINE H == Held(A, s \ {x})
<1>1. A[x] \cup H = Held(A, s) /\ A[x] \cap H = {}
  BY DEF Held, Apart
<1>2. Held(A, s) \subseteq Held(A, DOMAIN A) /\ H \subseteq Held(A, s) /\ A[x] \subseteq Held(A, s)
  BY DEF Held
<1>. HIDE DEF H
<1>3. IsFiniteSet(Held(A, s)) /\ IsFiniteSet(H) /\ IsFiniteSet(A[x])
  BY <1>2, FS_Subset DEF Apart
<1>4. Cardinality(A[x] \cup H) = Cardinality(A[x]) + Cardinality(H) - Cardinality(A[x] \cap H)
  BY <1>3, FS_Union
<1>5. Cardinality(A[x]) \in Nat /\ Cardinality(H) \in Nat /\ Cardinality(Held(A, s)) \in Nat
  BY <1>3, FS_CardinalityType
<1>6. Cardinality(A[x] \cap H) = 0
  BY <1>1, FS_EmptySet
<1>7. Cardinality(Held(A, s)) = Cardinality(A[x]) + Cardinality(H)
  <2>1. Cardinality(Held(A, s)) = Cardinality(A[x] \cup H)
    BY ONLY <1>1
  <2>. QED  BY <1>4, <1>5, <1>6, <2>1
<1>. QED  BY <1>5, <1>7 DEF H

\* The sum of the sizes of sets that have nothing in common.
LEMMA SumOfSizes ==
    ASSUME NEW A, Apart(A), NEW f, f = [d \in DOMAIN A |-> Cardinality(A[d])]
    PROVE  Total(f) = Cardinality(Held(A, DOMAIN A))
<1>. DEFINE D == DOMAIN A
            Some(s) == CHOOSE x \in s : TRUE
            Rec(g) == [s \in SUBSET D |-> IF s = {} THEN 0 ELSE f[Some(s)] + g[s \ {Some(s)}]]
            size == [s \in SUBSET D |-> Cardinality(Held(A, s))]
            iter == CHOOSE g : g = Rec(g)
<1>0. DOMAIN f = D
  OBVIOUS
<1>1. Total(f) = iter[D]
  BY <1>0 DEF Total, FoldFunction, FoldFunctionOnSet, MapThenFoldSet
<1>2. size = Rec(size)
  <2>1. ASSUME NEW s \in SUBSET D
        PROVE  size[s] = IF s = {} THEN 0 ELSE f[Some(s)] + size[s \ {Some(s)}]
    <3>1. CASE s = {}
      <4>1. Held(A, s) = {}
        BY <3>1 DEF Held
      <4>. QED  BY <3>1, <4>1, FS_EmptySet
    <3>2. CASE s # {}
      <4>1. Some(s) \in s /\ s \ {Some(s)} \in SUBSET D /\ Some(s) \in D
        BY <3>2
      <4>2. Cardinality(Held(A, s)) =
               Cardinality(A[Some(s)]) + Cardinality(Held(A, s \ {Some(s)}))
        <5>. HIDE DEF Some
        <5>. QED  BY <4>1, HeldMore
      <4>3. f[Some(s)] = Cardinality(A[Some(s)])
        BY <4>1
      <4>. HIDE DEF Some
      <4>. QED  BY <3>2, <4>1, <4>2, <4>3
    <3>. QED  BY <3>1, <3>2
  <2>. HIDE DEF Some
  <2>2. DOMAIN size = SUBSET D /\ DOMAIN Rec(size) = SUBSET D
    OBVIOUS
  <2>. QED  BY <2>1
<1>3. iter = Rec(iter)
  <2>. HIDE DEF Rec, size
  <2>. QED  BY <1>2
<1>4. \A s \in SUBSET D : iter[s] = IF s = {} THEN 0 ELSE f[Some(s)] + iter[s \ {Some(s)}]
  <2>. HIDE DEF iter, Some
  <2>. QED  BY <1>3
<1>. DEFINE P == {n \in Nat : \A s \in SUBSET D : Cardinality(s) = n => iter[s] = size[s]}
<1>. HIDE DEF iter, Rec
<1>5. \A s \in SUBSET D : IsFiniteSet(s) /\ Cardinality(s) \in Nat
  BY FS_Subset, FS_CardinalityType DEF Apart
<1>6. 0 \in P
  <2>1. ASSUME NEW s \in SUBSET D, Cardinality(s) = 0  PROVE iter[s] = size[s]
    <3>1. s = {}
      BY <1>5, <2>1, FS_EmptySet
    <3>. QED  BY <1>2, <1>4, <3>1 DEF Rec
  <2>. QED  BY <2>1
<1>7. ASSUME NEW n \in P  PROVE n + 1 \in P
  <2>1. ASSUME NEW s \in SUBSET D, Cardinality(s) = n + 1  PROVE iter[s] = size[s]
    <3>. DEFINE x == Some(s)
    <3>1. s # {}
      BY <2>1, FS_EmptySet
    <3>2. x \in s /\ s \ {x} \in SUBSET D
      BY <3>1
    <3>. HIDE DEF x
    <3>3. Cardinality(s \ {x}) = n
      BY <1>5, <2>1, <3>2, FS_RemoveElement
    <3>4. iter[s \ {x}] = size[s \ {x}]
      BY <3>2, <3>3
    <3>5. iter[s] = f[x] + iter[s \ {x}] /\ size[s] = f[x] + size[s \ {x}]
      <4>. HIDE DEF Some, size
      <4>. QED  BY <1>2, <1>4, <3>1 DEF Rec, x
    <3>. QED  BY <3>4, <3>5
  <2>. HIDE DEF size
  <2>. QED  BY <2>1
<1>8. P = Nat
  <2>. HIDE DEF P
  <2>1. P \in SUBSET Nat
    BY DEF P
  <2>. QED  BY <1>6, <1>7, <2>1, SetInduction
<1>9. iter[D] = size[D]
  <2>1. Cardinality(D) \in Nat
    BY <1>5
  <2>2. Cardinality(D) \in P
    BY <1>8, <2>1
  <2>. QED  BY <2>2
<1>. QED  BY <1>1, <1>9

\* A collection with a proof is of a collector and of his company, and of a
\* day: the screens that count by collectors and by days count the same.
LEMMA ScreensFollow == RowsInv => ScreensAgree
<1>. SUFFICES ASSUME RowsInv, NEW viewer \in Viewers, NEW from \in Days
              PROVE  LET trend == Total(CollectionTrend(viewer, from))
                     IN  /\ Total(CollectorPerformance(viewer, from)) = trend
                         /\ Cardinality(Successful(CollectionsReport(viewer, from))) = trend
                         /\ viewer # Platform => trend <= Cardinality(CompletedPickups(viewer))
                         /\ Total(ZonePerformance) = 0
  BY DEF ScreensAgree
<1>. DEFINE T == Successful(CollectionsReport(viewer, from))
<1>0. /\ pickup \in Seq(Row) /\ Ids = 1..Len(pickup) /\ Len(pickup) \in Nat
      /\ \A p \in Ids : pickup[p] \in Row /\ RowFits(pickup[p])
  BY DEF RowsInv, Ids
<1>1. IsFiniteSet(Ids)
  BY <1>0, FS_Interval
<1>2. \A S \in SUBSET Ids : IsFiniteSet(S) /\ Cardinality(S) \in Nat
  BY <1>1, FS_Subset, FS_CardinalityType
<1>3. /\ Days \subseteq Nat /\ IsFiniteSet(Days) /\ IsFiniteSet(Collectors)
      /\ IsFiniteSet(ServiceZones)
      /\ CompanyOf \in [Collectors -> WasteCompanies] /\ Null \notin WasteCompanies
      /\ Null # "COLLECTED" /\ Null \notin ServiceZones
  BY ViewAssumption
<1>4. \A p : p \in T <=> /\ p \in Ids /\ pickup[p].proof = "COLLECTED" /\ InScope(viewer, p)
                         /\ pickup[p].completed >= from
  BY <1>3 DEF Successful, CollectionsReport
<1>5. \A p \in Ids : pickup[p].proof = "COLLECTED" =>
          /\ pickup[p].status = "COLLECTED" /\ pickup[p].completed \in Days
          /\ pickup[p].collector \in Collectors
          /\ pickup[p].company = CompanyOf[pickup[p].collector]
          /\ InScope(viewer, p) <=> viewer \in {Platform, CompanyOf[pickup[p].collector]}
  <2>. SUFFICES ASSUME NEW p \in Ids, pickup[p].proof = "COLLECTED"
                PROVE  /\ pickup[p].status = "COLLECTED" /\ pickup[p].completed \in Days
                       /\ pickup[p].collector \in Collectors
                       /\ pickup[p].company = CompanyOf[pickup[p].collector]
                       /\ InScope(viewer, p)
                          <=> viewer \in {Platform, CompanyOf[pickup[p].collector]}
    OBVIOUS
  <2>1. RowFits(pickup[p]) /\ pickup[p].proof # Null
    BY <1>0, <1>3
  <2>. QED  BY <2>1 DEF RowFits, InScope
<1>6. Total(CollectionTrend(viewer, from)) = Cardinality(T)
  <2>. DEFINE A == [d \in {e \in Days : e >= from} |->
                      {p \in Ids : /\ pickup[p].proof = "COLLECTED"
                                   /\ pickup[p].completed = d
                                   /\ InScope(viewer, p)}]
  <2>1. Held(A, DOMAIN A) = T
    <3>1. ASSUME NEW p \in T  PROVE p \in Held(A, DOMAIN A)
      <4>1. pickup[p].completed \in DOMAIN A /\ p \in A[pickup[p].completed]
        BY <1>4, <1>5, <3>1
      <4>. HIDE DEF A
      <4>. QED  BY <4>1 DEF Held
    <3>2. ASSUME NEW p \in Held(A, DOMAIN A)  PROVE p \in T
      <4>1. PICK d \in DOMAIN A : p \in A[d]
        BY <3>2 DEF Held
      <4>. QED  BY <1>4, <4>1
    <3>. HIDE DEF A, T
    <3>. QED  BY <3>1, <3>2
  <2>2. T \in SUBSET Ids
    BY <1>4
  <2>3. IsFiniteSet(DOMAIN A)
    BY <1>3, FS_Subset
  <2>4. Apart(A)
    BY <1>2, <2>1, <2>2, <2>3 DEF Apart
  <2>5. CollectionTrend(viewer, from) = [d \in DOMAIN A |-> Cardinality(A[d])]
    BY DEF CollectionTrend
  <2>. HIDE DEF A, T
  <2>. QED  BY <2>1, <2>4, <2>5, SumOfSizes
<1>7. Total(CollectorPerformance(viewer, from)) = Cardinality(T)
  <2>. DEFINE listed == {c \in Collectors :
                           /\ viewer \in {Platform, CompanyOf[c]}
                           /\ Collections(c, from) # {} \/ Collections(c, 0) = {}}
              A == [c \in listed |->
                      {p \in Collections(c, from) : pickup[p].proof = "COLLECTED"}]
  <2>1. Held(A, DOMAIN A) = T
    <3>1. ASSUME NEW p \in T  PROVE p \in Held(A, DOMAIN A)
      <4>. DEFINE c == pickup[p].collector
      <4>1. p \in Collections(c, from)
        BY <1>3, <1>4, <3>1 DEF Collections
      <4>2. c \in Collectors /\ viewer \in {Platform, CompanyOf[c]}
        BY <1>4, <1>5, <3>1
      <4>3. c \in DOMAIN A /\ p \in A[c]
        BY <1>4, <3>1, <4>1, <4>2
      <4>. HIDE DEF A
      <4>. QED  BY <4>3 DEF Held
    <3>2. ASSUME NEW p \in Held(A, DOMAIN A)  PROVE p \in T
      <4>1. PICK c \in DOMAIN A : p \in A[c]
        BY <3>2 DEF Held
      <4>2. /\ p \in Ids /\ pickup[p].proof = "COLLECTED" /\ pickup[p].collector = c
            /\ pickup[p].completed >= from /\ viewer \in {Platform, CompanyOf[c]}
        BY <4>1 DEF Collections
      <4>. QED  BY <1>4, <1>5, <4>2
    <3>. HIDE DEF A, T
    <3>. QED  BY <3>1, <3>2
  <2>2. T \in SUBSET Ids
    BY <1>4
  <2>3. IsFiniteSet(DOMAIN A)
    BY <1>3, FS_Subset
  <2>4. \A c, d \in DOMAIN A : c # d => A[c] \cap A[d] = {}
    BY DEF Collections
  <2>5. Apart(A)
    <3>. HIDE DEF A, T
    <3>. QED  BY <1>2, <2>1, <2>2, <2>3, <2>4 DEF Apart
  <2>6. CollectorPerformance(viewer, from) = [d \in DOMAIN A |-> Cardinality(A[d])]
    BY DEF CollectorPerformance
  <2>. HIDE DEF A, T
  <2>. QED  BY <2>1, <2>5, <2>6, SumOfSizes
<1>8. ASSUME viewer # Platform  PROVE Cardinality(T) <= Cardinality(CompletedPickups(viewer))
  <2>1. T \subseteq CompletedPickups(viewer) /\ CompletedPickups(viewer) \subseteq Ids
    BY <1>4, <1>5, <1>8 DEF CompletedPickups, InScope
  <2>. HIDE DEF T
  <2>. QED  BY <1>2, <2>1, FS_Subset
<1>9. Total(ZonePerformance) = 0
  <2>. DEFINE A == [z \in ServiceZones |->
                      {p \in Ids : pickup[p].zone = z /\ pickup[p].status = "COLLECTED"}]
  <2>1. \A z \in ServiceZones : A[z] = {}
    BY <1>0, <1>3 DEF Row
  <2>2. Held(A, DOMAIN A) = {} /\ DOMAIN A = ServiceZones
    BY <2>1 DEF Held
  <2>3. ZonePerformance = [z \in DOMAIN A |-> Cardinality(A[z])]
    BY DEF ZonePerformance
  <2>. HIDE DEF A
  <2>4. Apart(A)
    BY <1>3, <2>1, <2>2, FS_EmptySet DEF Apart
  <2>. QED  BY <2>2, <2>3, <2>4, SumOfSizes, FS_EmptySet
<1>. QED  BY <1>6, <1>7, <1>8, <1>9

\* The same facts on different screens agree, whatever a pickup went through.
THEOREM ScreensCorrect == ViewSpec => []ScreensAgree
BY RowsAlways, ScreensFollow, PTL

-----------------------------------------------------------------------------
(* The lists of pickups.  Both sort by a score that does not depend on how *)
(* the rows came, so a rank is of one score in both.                       *)

\* Rows have places of their own.
Placing(place) == \A p, q \in Ids : place[p] \in Nat /\ (place[p] = place[q] => p = q)

LEMMA IdsAre ==
    ASSUME RowsInv
    PROVE  /\ Ids \in SUBSET Nat /\ IsFiniteSet(Ids) /\ Ids \subseteq 1..MaxPickups
           /\ \A p \in Ids : pickup[p] \in Row
           /\ \A S \in SUBSET Ids : IsFiniteSet(S) /\ Cardinality(S) \in Nat
           /\ Placing(Age)
           /\ \A place \in RowOrders : Placing(place)
<1>1. /\ Ids = 1..Len(pickup) /\ Len(pickup) \in Nat /\ Len(pickup) <= MaxPickups
      /\ MaxPickups \in Nat /\ \A p \in Ids : pickup[p] \in Row
  BY ViewAssumption DEF RowsInv, Ids
<1>2. IsFiniteSet(Ids) /\ Ids \subseteq Nat /\ Ids \subseteq 1..MaxPickups
  <2>1. IsFiniteSet(1..Len(pickup))
    BY <1>1, FS_Interval
  <2>. QED  BY <1>1, <2>1
<1>3. \A S \in SUBSET Ids : IsFiniteSet(S) /\ Cardinality(S) \in Nat
  BY <1>2, FS_Subset, FS_CardinalityType
<1>4. Placing(Age)
  BY <1>2 DEF Placing, Age
<1>5. ASSUME NEW place \in RowOrders  PROVE Placing(place)
  <2>1. place \in Injection(1..MaxPickups, Nat)
    BY ViewAssumption
  <2>2. place \in [1..MaxPickups -> Nat] /\ \A a, b \in 1..MaxPickups : place[a] = place[b] => a = b
    BY <2>1, Fun_InjectionProperties
  <2>. QED  BY <1>2, <2>2 DEF Placing
<1>. QED  BY <1>1, <1>2, <1>3, <1>4, <1>5

LEMMA ScoresAre ==
    ASSUME RowsInv, NEW p \in Ids, NEW day \in Days
    PROVE  OverdueDays(p, day) \in Nat /\ PriorityScore(p, day) \in Nat
<1>1. pickup[p] \in Row /\ day \in Nat
  BY IdsAre, ViewAssumption
<1>2. OverdueDays(p, day) \in Nat
  <2>1. CASE pickup[p].preferred # Null
    <3>1. pickup[p].preferred \in Int
      BY <1>1, <2>1, ViewAssumption DEF Row
    <3>. QED  BY <1>1, <2>1, <3>1 DEF OverdueDays, Larger
  <2>2. CASE pickup[p].preferred = Null
    <3>0. pickup[p].created \in Days
      BY <1>1 DEF Row
    <3>1. \A d \in Days : d \in Int
      BY ViewAssumption
    <3>2. PICK d \in Int : d = pickup[p].created
      BY <3>0, <3>1
    <3>3. OverdueDays(p, day) = Larger(0, day - d - 2)
      BY <2>2, <3>2 DEF OverdueDays
    <3>. QED  BY <1>1, <3>2, <3>3 DEF Larger
  <2>. QED  BY <2>1, <2>2
<1>3. Near[pickup[p].place] \in [complaints : Nat, fill : Nat]
  BY <1>1, ViewAssumption DEF Row
<1>. QED  BY <1>2, <1>3 DEF PriorityScore, Score, Enriched

LEMMA PlacedOrders ==
    ASSUME RowsInv, NEW place, Placing(place)
    PROVE  /\ Orders(Placed(place), Ids)
           /\ \A p, q \in Ids : <<p, q>> \in Placed(place) <=> place[p] < place[q]
<1>1. \A p, q \in Ids : <<p, q>> \in Placed(place) <=> place[p] < place[q]
  BY DEF Placed
<1>. QED  BY <1>1 DEF Orders, Placing

LEMMA UrgencyOrders ==
    ASSUME RowsInv, NEW place, Placing(place), NEW day \in Days
    PROVE  /\ Orders(Urgency(day, place), Ids)
           /\ \A p, q \in Ids : <<p, q>> \in Urgency(day, place) =>
                 PriorityScore(p, day) >= PriorityScore(q, day)
           /\ \A p, q \in Ids : PriorityScore(p, day) > PriorityScore(q, day) =>
                 <<p, q>> \in Urgency(day, place)
<1>1. \A p, q \in Ids : <<p, q>> \in Urgency(day, place) <=>
          \/ PriorityScore(p, day) > PriorityScore(q, day)
          \/ PriorityScore(p, day) = PriorityScore(q, day) /\ place[p] < place[q]
  <2>. TAKE p, q \in Ids
  <2>. DEFINE e == <<p, q>>
  <2>1. e \in Ids \X Ids /\ e[1] = p /\ e[2] = q
    OBVIOUS
  <2>2. e \in Urgency(day, place) <=>
          \/ PriorityScore(e[1], day) > PriorityScore(e[2], day)
          \/ PriorityScore(e[1], day) = PriorityScore(e[2], day) /\ place[e[1]] < place[e[2]]
    <3>. HIDE DEF e
    <3>. QED  BY <2>1 DEF Urgency
  <2>. QED  BY <2>1, <2>2
<1>2. \A p \in Ids : PriorityScore(p, day) \in Nat
  BY ScoresAre
<1>. QED  BY <1>1, <1>2 DEF Orders, Placing

\* The rows of the same rank in two orders by score have the same score.
LEMMA RanksScore ==
    ASSUME RowsInv, NEW day \in Days, NEW S \in SUBSET Ids,
           NEW first, Placing(first), NEW second, Placing(second),
           NEW p \in S, NEW q \in S,
           Rank(S, Urgency(day, first), p) = Rank(S, Urgency(day, second), q)
    PROVE  PriorityScore(q, day) <= PriorityScore(p, day)
<1>. SUFFICES ASSUME PriorityScore(q, day) > PriorityScore(p, day)  PROVE FALSE
  BY ScoresAre
<1>. DEFINE P == Before(S, Urgency(day, first), p)
            Q == Before(S, Urgency(day, second), q)
<1>1. \A r \in Ids : PriorityScore(r, day) \in Nat
  BY ScoresAre
<1>2. ASSUME NEW r \in Q  PROVE r \in P
  <2>1. r \in S /\ <<r, q>> \in Urgency(day, second)
    BY DEF Before
  <2>2. PriorityScore(r, day) >= PriorityScore(q, day)
    BY <2>1, UrgencyOrders
  <2>3. PriorityScore(r, day) > PriorityScore(p, day)
    BY <1>1, <2>1, <2>2
  <2>. QED  BY <2>1, <2>3, UrgencyOrders DEF Before
<1>3. q \in P
  BY UrgencyOrders DEF Before
<1>4. q \notin Q
  BY UrgencyOrders DEF Before, Orders
<1>5. P \in SUBSET Ids /\ Q \in SUBSET P
  BY <1>2 DEF Before
<1>. HIDE DEF P, Q
<1>6. IsFiniteSet(P) /\ Cardinality(Q) # Cardinality(P)
  BY <1>3, <1>4, <1>5, IdsAre, FS_Subset
<1>. QED  BY <1>6 DEF Rank, P, Q

LEMMA RanksScoreSame ==
    ASSUME RowsInv, NEW day \in Days, NEW S \in SUBSET Ids,
           NEW first, Placing(first), NEW second, Placing(second),
           NEW p \in S, NEW q \in S,
           Rank(S, Urgency(day, first), p) = Rank(S, Urgency(day, second), q)
    PROVE  PriorityScore(q, day) = PriorityScore(p, day)
<1>1. PriorityScore(q, day) <= PriorityScore(p, day)
  BY RanksScore
<1>2. PriorityScore(p, day) <= PriorityScore(q, day)
  BY RanksScore
<1>. QED  BY <1>1, <1>2, ScoresAre

\* What a ranked list holds, N being its length.
RankedAs(list, S, order, N, day) ==
    /\ N = IF Cardinality(S) < Limit THEN Cardinality(S) ELSE Limit
    /\ DOMAIN list = 1..N /\ Len(list) = N /\ N \in Nat
    /\ \A k \in 1..N : /\ list[k].id \in S /\ Rank(S, order, list[k].id) = k - 1
                       /\ list[k].score = PriorityScore(list[k].id, day)
    /\ \A p \in S : Rank(S, order, p) < Limit => \E k \in 1..N : list[k].id = p
    /\ \A p \in S : Rank(S, order, p) \in Nat

LEMMA RankedRows ==
    ASSUME RowsInv, NEW day \in Days, NEW S \in SUBSET Ids, NEW place, Placing(place)
    PROVE  RankedAs(Ranked(S, day, place), S, Urgency(day, place),
                    Cardinality(FirstOf(S, Urgency(day, place), Limit)), day)
<1>. DEFINE order == Urgency(day, place)
            F == FirstOf(S, order, Limit)
            N == Cardinality(F)
            rows == InOrder(F, order)
            list == Ranked(S, day, place)
<1>1. Orders(order, S) /\ IsFiniteSet(S) /\ Cardinality(S) \in Nat /\ Limit \in Nat
  BY UrgencyOrders, OrdersSubset, IdsAre, ViewAssumption
<1>. HIDE DEF order
<1>2. /\ F \subseteq S /\ IsFiniteSet(F)
      /\ N = IF Cardinality(S) < Limit THEN Cardinality(S) ELSE Limit
      /\ \A p \in F : Rank(F, order, p) = Rank(S, order, p)
      /\ \A p \in S : p \in F <=> Rank(S, order, p) < Limit
  BY <1>1, FirstRows DEF Rank
<1>3. Orders(order, F)
  BY <1>1, <1>2, OrdersSubset
<1>. HIDE DEF F
<1>4. /\ DOMAIN rows = 1..N
      /\ \A k \in 1..N : rows[k] \in F /\ Rank(F, order, rows[k]) = k - 1
      /\ \A p \in F : \E k \in 1..N : rows[k] = p
  BY <1>2, <1>3, ListOfRows
<1>. HIDE DEF rows
<1>5. list = [k \in 1..N |-> [id |-> rows[k], score |-> PriorityScore(rows[k], day)]]
  BY <1>4 DEF Ranked, order, F, rows
<1>6. N \in Nat
  BY <1>1, <1>2
<1>. HIDE DEF N, list
<1>7. DOMAIN list = 1..N /\ Len(list) = N
  BY <1>5, <1>6
<1>8. \A k \in 1..N : list[k].id = rows[k] /\ list[k].score = PriorityScore(rows[k], day)
  BY <1>5
<1>9. ASSUME NEW p \in S  PROVE Rank(S, order, p) \in Nat
  <2>1. Before(S, order, p) \in SUBSET Ids
    BY DEF Before
  <2>. QED  BY <2>1, IdsAre DEF Rank
<1>. QED  BY <1>2, <1>4, <1>6, <1>7, <1>8, <1>9 DEF RankedAs, N, F, order, list

LEMMA UrgentFollow == RowsInv => MostUrgentListed
<1>. SUFFICES ASSUME RowsInv, NEW viewer \in Viewers, NEW place \in RowOrders
     PROVE  LET list == OverdueList(viewer, today)
                queue == PriorityQueue(viewer, today, place)
                open == OpenPickups(viewer)
                listed == {list[i].id : i \in DOMAIN list}
                score(p) == Score(OverdueDays(p, today), Near[pickup[p].place])
                late(i) == Overdue({queue[j].id : j \in 1..i}, today)
            IN  /\ \A p \in Overdue(open, today) \ listed :
                      \/ Cardinality(Before(open, Placed(Age), p)) >= 3 * Limit
                      \/ Len(list) = Limit /\ \A q \in listed : score(q) >= score(p)
                /\ Cardinality(open) <= 3 * Limit =>
                      \A i \in DOMAIN queue :
                          LET k == Cardinality(late(i))
                          IN  OverdueDays(queue[i].id, today) > 0
                              => k \in DOMAIN list /\ list[k].score = queue[i].score
  BY DEF MostUrgentListed
<1>. DEFINE open == OpenPickups(viewer)
            oldest == FirstOf(open, Placed(Age), 3 * Limit)
            L == Overdue(oldest, today)
            UA == Urgency(today, Age)
            UP == Urgency(today, place)
            N == Cardinality(FirstOf(L, UA, Limit))
            M == Cardinality(FirstOf(open, UP, Limit))
            list == OverdueList(viewer, today)
            queue == PriorityQueue(viewer, today, place)
            listed == {list[i].id : i \in DOMAIN list}
            score(p) == Score(OverdueDays(p, today), Near[pickup[p].place])
            late(i) == Overdue({queue[j].id : j \in 1..i}, today)
<1>1. /\ today \in Days /\ Limit \in Nat /\ 3 * Limit \in Nat
      /\ Placing(Age) /\ Placing(place)
  BY IdsAre, ViewAssumption DEF RowsInv
<1>2. open \in SUBSET Ids /\ IsFiniteSet(open) /\ Cardinality(open) \in Nat
  BY IdsAre DEF OpenPickups
<1>3. \A p \in Ids : score(p) = PriorityScore(p, today) /\ PriorityScore(p, today) \in Nat
                     /\ OverdueDays(p, today) \in Nat
  BY <1>1, ScoresAre DEF PriorityScore, Enriched
<1>4. list = Ranked(L, today, Age) /\ queue = Ranked(open, today, place)
  BY DEF OverdueList, PriorityQueue
<1>. HIDE DEF open, list, queue, score
<1>5. /\ oldest \subseteq open
      /\ \A p \in open : p \in oldest <=> Rank(open, Placed(Age), p) < 3 * Limit
      /\ Cardinality(open) <= 3 * Limit => oldest = open
  <2>1. Orders(Placed(Age), open)
    BY <1>1, <1>2, PlacedOrders, OrdersSubset
  <2>2. /\ oldest \subseteq open
        /\ \A p \in open : p \in oldest <=> Rank(open, Placed(Age), p) < 3 * Limit
    BY <1>1, <1>2, <2>1, FirstRows
  <2>3. ASSUME Cardinality(open) <= 3 * Limit, NEW p \in open  PROVE p \in oldest
    <3>1. Rank(open, Placed(Age), p) \in 0..(Cardinality(open) - 1)
      BY <1>2, <2>1, Ranks
    <3>. QED  BY <1>1, <1>2, <2>2, <2>3, <3>1
  <2>. QED  BY <2>2, <2>3
<1>. HIDE DEF oldest
<1>6. /\ L \in SUBSET Ids /\ L \subseteq open
      /\ \A p \in oldest : p \in L <=> OverdueDays(p, today) > 0
  BY <1>2, <1>5 DEF Overdue
<1>. HIDE DEF L
<1>7. /\ N = IF Cardinality(L) < Limit THEN Cardinality(L) ELSE Limit
      /\ DOMAIN list = 1..N /\ Len(list) = N /\ N \in Nat
      /\ \A k \in 1..N : /\ list[k].id \in L /\ Rank(L, UA, list[k].id) = k - 1
                         /\ list[k].score = PriorityScore(list[k].id, today)
      /\ \A p \in L : Rank(L, UA, p) < Limit => \E k \in 1..N : list[k].id = p
      /\ \A p \in L : Rank(L, UA, p) \in Nat
  <2>1. RankedAs(list, L, UA, N, today)
    BY <1>1, <1>4, <1>6, RankedRows
  <2>. HIDE DEF UA, N
  <2>. QED  BY <2>1 DEF RankedAs
<1>8. /\ M = IF Cardinality(open) < Limit THEN Cardinality(open) ELSE Limit
      /\ DOMAIN queue = 1..M /\ M \in Nat
      /\ \A k \in 1..M : /\ queue[k].id \in open /\ Rank(open, UP, queue[k].id) = k - 1
                         /\ queue[k].score = PriorityScore(queue[k].id, today)
      /\ \A p \in open : Rank(open, UP, p) < Limit => \E k \in 1..M : queue[k].id = p
      /\ \A p \in open : Rank(open, UP, p) \in Nat
  <2>1. RankedAs(queue, open, UP, M, today)
    BY <1>1, <1>2, <1>4, RankedRows
  <2>. HIDE DEF UP, M
  <2>. QED  BY <2>1 DEF RankedAs
<1>9. /\ Orders(UA, L) /\ Orders(UP, L) /\ Orders(UP, open)
      /\ IsFiniteSet(L) /\ Cardinality(L) \in Nat
      /\ \A p, q \in Ids : <<p, q>> \in UA => PriorityScore(p, today) >= PriorityScore(q, today)
  BY <1>1, <1>2, <1>6, UrgencyOrders, OrdersSubset, IdsAre
<1>. HIDE DEF UA, UP, N, M
<1>10. ASSUME NEW p \in Overdue(open, today) \ listed,
              ~(Cardinality(Before(open, Placed(Age), p)) >= 3 * Limit)
       PROVE  Len(list) = Limit /\ \A q \in listed : score(q) >= score(p)
  <2>1. p \in open /\ OverdueDays(p, today) > 0
    BY <1>10 DEF Overdue
  <2>2. Cardinality(Before(open, Placed(Age), p)) \in Nat
    BY <1>2, IdsAre DEF Before
  <2>3. Cardinality(Before(open, Placed(Age), p)) < 3 * Limit
    BY <1>1, <1>10, <2>2
  <2>4. p \in L
    BY <1>5, <1>6, <2>1, <2>3 DEF Rank
  <2>5. ~(Rank(L, UA, p) < Limit) /\ Rank(L, UA, p) \in Nat
    BY <1>7, <1>10, <2>4
  <2>6. Rank(L, UA, p) \in 0..(Cardinality(L) - 1)
    BY <1>9, <2>4, Ranks
  <2>7. Len(list) = Limit /\ N = Limit
    BY <1>1, <1>7, <1>9, <2>5, <2>6
  <2>8. ASSUME NEW q \in listed  PROVE score(q) >= score(p)
    <3>1. PICK k \in 1..N : list[k].id = q
      BY <1>7
    <3>2. q \in L /\ Rank(L, UA, q) < Rank(L, UA, p)
      BY <1>1, <1>7, <2>5, <2>7, <3>1
    <3>3. <<q, p>> \in UA
      BY <1>9, <2>4, <3>2, Ranks
    <3>. QED  BY <1>3, <1>6, <1>9, <2>4, <3>2, <3>3
  <2>. QED  BY <2>7, <2>8
<1>11. ASSUME Cardinality(open) <= 3 * Limit, NEW i \in DOMAIN queue,
              OverdueDays(queue[i].id, today) > 0
       PROVE  Cardinality(late(i)) \in DOMAIN list
              /\ list[Cardinality(late(i))].score = queue[i].score
  <2>. DEFINE x == queue[i].id  k == Cardinality(late(i))
  <2>0. oldest = open
    BY <1>5, <1>11
  <2>1. i \in 1..M /\ x \in open /\ Rank(open, UP, x) = i - 1
        /\ queue[i].score = PriorityScore(x, today)
    BY <1>8
  <2>2. x \in L
    BY <1>6, <1>11, <2>0, <2>1
  \* The overdue ones up to x are x and what comes before it of them.
  <2>3. \A p : p \in late(i) <=> p \in Before(L, UP, x) \cup {x}
    <3>1. ASSUME NEW p \in late(i)  PROVE p \in Before(L, UP, x) \cup {x}
      <4>1. PICK j \in 1..i : p = queue[j].id /\ OverdueDays(p, today) > 0
        BY <3>1 DEF Overdue
      <4>2. j \in 1..M /\ p \in open /\ Rank(open, UP, p) = j - 1
        BY <1>8, <2>1, <4>1
      <4>3. p \in L
        BY <1>6, <2>0, <4>1, <4>2
      <4>4. p = x \/ Rank(open, UP, p) < Rank(open, UP, x)
        BY <1>8, <2>1, <4>1, <4>2
      <4>5. p = x \/ <<p, x>> \in UP
        BY <1>2, <1>9, <2>1, <4>2, <4>4, Ranks
      <4>. QED  BY <4>3, <4>5 DEF Before
    <3>2. ASSUME NEW p \in Before(L, UP, x) \cup {x}  PROVE p \in late(i)
      <4>1. p \in L /\ p \in open /\ OverdueDays(p, today) > 0
        BY <1>6, <2>0, <2>2, <3>2 DEF Before
      <4>2. p = x \/ <<p, x>> \in UP
        BY <3>2 DEF Before
      <4>3. Rank(open, UP, p) <= Rank(open, UP, x) /\ Rank(open, UP, p) \in Nat
        BY <1>2, <1>8, <1>9, <2>1, <4>1, <4>2, Ranks
      <4>4. Rank(open, UP, p) < Limit
        BY <1>1, <1>2, <1>8, <2>1, <4>3
      <4>5. PICK j \in 1..M : queue[j].id = p
        BY <1>8, <4>1, <4>4
      <4>6. j \in 1..i
        BY <1>8, <2>1, <4>3, <4>5
      <4>. QED  BY <4>1, <4>5, <4>6 DEF Overdue
    <3>. QED  BY <3>1, <3>2
  <2>4. late(i) = Before(L, UP, x) \cup {x} /\ x \notin Before(L, UP, x)
    <3>1. x \notin Before(L, UP, x)
      BY <1>9, <2>2 DEF Before, Orders
    <3>. HIDE DEF late, x
    <3>. QED  BY <2>3, <3>1
  <2>5. k = Rank(L, UP, x) + 1
    <3>1. IsFiniteSet(Before(L, UP, x))
      BY <1>9, FS_Subset DEF Before
    <3>. HIDE DEF late, x
    <3>. QED  BY <2>4, <3>1, FS_AddElement DEF Rank
  <2>6. Rank(L, UP, x) \in 0..(Cardinality(L) - 1)
    BY <1>9, <2>2, Ranks
  <2>7. Rank(L, UP, x) <= Rank(open, UP, x)
    <3>1. Before(L, UP, x) \in SUBSET Before(open, UP, x) /\ Before(open, UP, x) \in SUBSET Ids
      BY <1>2, <1>6 DEF Before
    <3>2. IsFiniteSet(Before(open, UP, x))
      BY <3>1, IdsAre
    <3>. QED  BY <3>1, <3>2, FS_Subset DEF Rank
  <2>. HIDE DEF k, x
  <2>8. k \in 1..N
    BY <1>1, <1>2, <1>7, <1>8, <1>9, <2>1, <2>5, <2>6, <2>7
  <2>9. Rank(L, UA, list[k].id) = Rank(L, UP, x) /\ list[k].id \in L
    BY <1>7, <1>9, <2>5, <2>6, <2>8
  <2>10. PriorityScore(x, today) = PriorityScore(list[k].id, today)
    BY <1>1, <1>6, <2>2, <2>9, RanksScoreSame DEF UA, UP
  <2>. QED  BY <1>7, <2>1, <2>8, <2>10 DEF k
<1>. HIDE DEF late, listed
<1>. QED  BY <1>10, <1>11 DEF listed, late, list, queue, open, score

\* The list of overdue pickups is cut before it is scored and the queue is
\* not; which pickups they leave out, and that they agree while no more are
\* open than the first cut takes.
THEOREM UrgentCorrect == ViewSpec => []MostUrgentListed
BY RowsAlways, UrgentFollow, PTL

-----------------------------------------------------------------------------
(* The route.  It is a recursion over the number of stops made, which has  *)
(* a solution; after n of them it has visited n different stops, each a    *)
(* nearest of those that were left.                                        *)

Nearer(at, place) ==
    {e \in Ids \X Ids :
        \/ Haversine(at, e[1]) < Haversine(at, e[2])
        \/ Haversine(at, e[1]) = Haversine(at, e[2]) /\ place[e[1]] < place[e[2]]}

LEMMA NearestIsNearest ==
    ASSUME RowsInv, NEW at \in Sites, NEW place, Placing(place),
           NEW stops \in SUBSET Ids, stops # {}
    PROVE  LET next == Nearest(at, stops, place)
           IN  /\ next \in stops
               /\ \A q \in stops : Haversine(at, next) <= Haversine(at, q)
<1>. DEFINE order == Nearer(at, place)
            Best(p) == \A q \in stops :
                \/ Haversine(at, p) < Haversine(at, q)
                \/ Haversine(at, p) = Haversine(at, q) /\ place[p] <= place[q]
            next == Nearest(at, stops, place)
<1>1. \A p \in Ids : Haversine(at, p) \in Nat /\ place[p] \in Nat
  BY IdsAre, ViewAssumption DEF Row, Placing, Haversine
<1>2. \A p, q \in Ids : <<p, q>> \in order <=>
          \/ Haversine(at, p) < Haversine(at, q)
          \/ Haversine(at, p) = Haversine(at, q) /\ place[p] < place[q]
  <2>. TAKE p, q \in Ids
  <2>. DEFINE e == <<p, q>>
  <2>1. e \in Ids \X Ids /\ e[1] = p /\ e[2] = q
    OBVIOUS
  <2>2. e \in order <=>
          \/ Haversine(at, e[1]) < Haversine(at, e[2])
          \/ Haversine(at, e[1]) = Haversine(at, e[2]) /\ place[e[1]] < place[e[2]]
    <3>. HIDE DEF e
    <3>. QED  BY <2>1 DEF Nearer
  <2>. QED  BY <2>1, <2>2
<1>. HIDE DEF order
<1>3. Orders(order, stops)
  <2>1. \A p \in stops : p \in Ids
    OBVIOUS
  <2>2. \A p \in stops : <<p, p>> \notin order
    BY <1>1, <1>2, <2>1
  <2>3. \A p, q, r \in stops : <<p, q>> \in order /\ <<q, r>> \in order => <<p, r>> \in order
    BY <1>1, <1>2, <2>1
  <2>4. \A p, q \in stops : p # q => <<p, q>> \in order \/ <<q, p>> \in order
    <3>. TAKE p, q \in stops
    <3>1. /\ p \in Ids /\ q \in Ids /\ place[p] = place[q] => p = q
          /\ Haversine(at, p) \in Nat /\ Haversine(at, q) \in Nat
          /\ place[p] \in Nat /\ place[q] \in Nat
      BY <1>1, <2>1 DEF Placing
    <3>. QED  BY <1>2, <3>1
  <2>. QED  BY <2>2, <2>3, <2>4 DEF Orders
<1>4. IsFiniteSet(stops) /\ Cardinality(stops) \in Nat /\ Cardinality(stops) # 0
  BY IdsAre, FS_EmptySet
<1>5. 0 \in 0..(Cardinality(stops) - 1)
  BY <1>4
<1>6. PICK p \in stops : Rank(stops, order, p) = 0
  BY <1>3, <1>4, <1>5, Ranks
<1>7. Best(p)
  <2>. SUFFICES ASSUME NEW q \in stops
                PROVE  \/ Haversine(at, p) < Haversine(at, q)
                       \/ Haversine(at, p) = Haversine(at, q) /\ place[p] <= place[q]
    OBVIOUS
  <2>1. Rank(stops, order, q) \in 0..(Cardinality(stops) - 1)
    BY <1>3, <1>4, Ranks
  <2>2. p = q \/ <<p, q>> \in order
    <3>1. CASE Rank(stops, order, q) = 0
      BY <1>3, <1>4, <1>6, <3>1, Ranks
    <3>2. CASE Rank(stops, order, p) < Rank(stops, order, q)
      BY <1>3, <1>4, <3>2, Ranks
    <3>. QED  BY <1>6, <2>1, <3>1, <3>2
  <2>3. p \in Ids /\ q \in Ids
    OBVIOUS
  <2>. QED  BY <1>1, <1>2, <2>2, <2>3
<1>8. next = CHOOSE r \in stops : \A q \in stops :
                 \/ Haversine(at, r) < Haversine(at, q)
                 \/ Haversine(at, r) = Haversine(at, q) /\ place[r] <= place[q]
  BY DEF Nearest
<1>9. next \in stops /\ Best(next)
  <2>. HIDE DEF next
  <2>. QED  BY <1>7, <1>8
<1>. HIDE DEF next
<1>10. \A q \in stops : Haversine(at, next) <= Haversine(at, q)
  BY <1>1, <1>9
<1>. QED  BY <1>9, <1>10 DEF next

\* The recursion of OrderStops.
TourRec(origin, stops, place, f) ==
    [n \in 0..Cardinality(stops) |->
        IF n = 0 THEN [at |-> origin, left |-> stops, order |-> <<>>]
                 ELSE Visit(f[n - 1], place)]

LEMMA TourExists ==
    ASSUME NEW origin, NEW stops, Cardinality(stops) \in Nat, NEW place
    PROVE  \E f : f = TourRec(origin, stops, place, f)
<1>. DEFINE N == Cardinality(stops)
            start == [at |-> origin, left |-> stops, order |-> <<>>]
            Solves(f, m) == f = [n \in 0..m |-> IF n = 0 THEN start ELSE Visit(f[n - 1], place)]
            P == {m \in Nat : \E f : Solves(f, m)}
<1>1. 0 \in P
  <2>1. Solves([n \in 0..0 |-> start], 0)
    OBVIOUS
  <2>. HIDE DEF Solves
  <2>. QED  BY <2>1
<1>2. ASSUME NEW m \in P  PROVE m + 1 \in P
  <2>1. PICK f : Solves(f, m)
    OBVIOUS
  <2>. DEFINE g == [n \in 0..(m + 1) |-> IF n = 0 THEN start ELSE Visit(f[n - 1], place)]
  <2>2. m \in Nat /\ \A n \in 1..(m + 1) : n - 1 \in 0..m
    OBVIOUS
  <2>3. \A n \in 0..m : g[n] = f[n]
    <3>. HIDE DEF start
    <3>. QED  BY <2>1, <2>2
  <2>4. \A n \in 0..(m + 1) : g[n] = IF n = 0 THEN start ELSE Visit(g[n - 1], place)
    <3>. TAKE n \in 0..(m + 1)
    <3>1. CASE n = 0
      BY <2>2, <3>1
    <3>2. CASE n # 0
      <4>1. n - 1 \in 0..m /\ n - 1 \in 0..(m + 1)
        BY <2>2, <3>2
      <4>2. g[n] = Visit(f[n - 1], place)
        BY <3>2
      <4>. HIDE DEF g
      <4>. QED  BY <2>3, <3>2, <4>1, <4>2
    <3>. QED  BY <3>1, <3>2
  <2>5. Solves(g, m + 1)
    <3>. HIDE DEF start
    <3>. QED  BY <2>4
  <2>. HIDE DEF Solves, g
  <2>. QED  BY <2>2, <2>5
<1>3. P = Nat
  <2>. HIDE DEF P
  <2>1. P \in SUBSET Nat
    BY DEF P
  <2>. QED  BY <1>1, <1>2, <2>1, SetInduction
<1>4. PICK f : Solves(f, N)
  <2>. HIDE DEF Solves, N
  <2>1. N \in P
    BY <1>3 DEF N
  <2>. QED  BY <2>1
<1>. QED  BY <1>4 DEF TourRec

LEMMA TourDef ==
    ASSUME NEW origin, NEW stops, Cardinality(stops) \in Nat, NEW place
    PROVE  \E tour : /\ tour[0] = [at |-> origin, left |-> stops, order |-> <<>>]
                     /\ \A n \in 1..Cardinality(stops) : tour[n] = Visit(tour[n - 1], place)
                     /\ OrderStops(origin, stops, place) = tour[Cardinality(stops)].order
<1>. DEFINE tour == CHOOSE f : f = TourRec(origin, stops, place, f)
<1>1. tour = TourRec(origin, stops, place, tour)
  BY TourExists
<1>2. OrderStops(origin, stops, place) = tour[Cardinality(stops)].order
  BY DEF OrderStops, TourRec
<1>. HIDE DEF tour
<1>3. \A n \in 0..Cardinality(stops) : tour[n] =
          IF n = 0 THEN [at |-> origin, left |-> stops, order |-> <<>>]
                   ELSE Visit(tour[n - 1], place)
  <2>1. \A n \in 0..Cardinality(stops) : TourRec(origin, stops, place, tour)[n] =
            IF n = 0 THEN [at |-> origin, left |-> stops, order |-> <<>>]
                     ELSE Visit(tour[n - 1], place)
    BY DEF TourRec
  <2>. QED  BY <1>1, <2>1
<1>4. tour[0] = [at |-> origin, left |-> stops, order |-> <<>>]
  BY <1>3
<1>5. \A n \in 1..Cardinality(stops) : tour[n] = Visit(tour[n - 1], place)
  BY <1>3
<1>. QED  BY <1>2, <1>4, <1>5

\* Where the collector is after i stops.
Stand(origin, order, i) == IF i = 0 THEN origin ELSE pickup[order[i]].place

\* A tour after n stops.
Toured(origin, stops, t, n) ==
    /\ t.order \in Seq(stops) /\ Len(t.order) = n
    /\ t.left \in SUBSET stops /\ Cardinality(t.left) = Cardinality(stops) - n
    /\ t.at = Stand(origin, t.order, n)
    /\ \A i \in 1..n : t.order[i] \notin t.left
    /\ \A i, j \in 1..n : i < j => t.order[i] # t.order[j]
    /\ \A i \in 1..n :
          LET from == Stand(origin, t.order, i - 1)
          IN  /\ \A q \in t.left : Haversine(from, t.order[i]) <= Haversine(from, q)
              /\ \A j \in 1..n : i < j => Haversine(from, t.order[i]) <= Haversine(from, t.order[j])

LEMMA VisitStep ==
    ASSUME RowsInv, NEW origin \in Sites, NEW place, Placing(place), NEW stops \in SUBSET Ids,
           NEW n \in Nat, n < Cardinality(stops), NEW t, Toured(origin, stops, t, n)
    PROVE  Toured(origin, stops, Visit(t, place), n + 1)
<1>. DEFINE next == Nearest(t.at, t.left, place)  u == Visit(t, place)
<1>1. /\ t.order \in Seq(stops) /\ Len(t.order) = n /\ t.left \in SUBSET stops
      /\ Cardinality(t.left) = Cardinality(stops) - n /\ t.at = Stand(origin, t.order, n)
  BY DEF Toured
<1>2. \A i \in 1..n : t.order[i] \in stops /\ t.order[i] \in Ids
  BY <1>1
<1>3. IsFiniteSet(t.left) /\ Cardinality(t.left) \in Nat /\ Cardinality(stops) \in Nat
  BY <1>1, IdsAre
<1>4. t.left # {}
  BY <1>1, <1>3, FS_EmptySet
<1>5. t.at \in Sites
  <2>1. CASE n = 0
    BY <1>1, <2>1 DEF Stand
  <2>2. CASE n # 0
    <3>1. n \in 1..n
      BY <2>2
    <3>2. pickup[t.order[n]] \in Row
      BY <1>2, <3>1, IdsAre
    <3>. QED  BY <1>1, <2>2, <3>2 DEF Stand, Row
  <2>. QED  BY <2>1, <2>2
<1>6. next \in t.left /\ \A q \in t.left : Haversine(t.at, next) <= Haversine(t.at, q)
  BY <1>1, <1>4, <1>5, NearestIsNearest
<1>7. /\ u.at = pickup[next].place /\ u.left = t.left \ {next}
      /\ u.order = Append(t.order, next)
  BY DEF Visit
<1>. HIDE DEF next, u
<1>8. /\ u.order \in Seq(stops) /\ Len(u.order) = n + 1
      /\ u.order[n + 1] = next /\ \A i \in 1..n : u.order[i] = t.order[i]
  BY <1>1, <1>6, <1>7
<1>9. u.left \in SUBSET stops /\ Cardinality(u.left) = Cardinality(stops) - (n + 1)
  <2>1. Cardinality(t.left \ {next}) = Cardinality(t.left) - 1
    <3>1. IsFiniteSet(t.left) /\ next \in t.left
      BY <1>3, <1>6
    <3>. QED  BY <3>1, FS_RemoveElement
  <2>2. u.left \in SUBSET stops /\ Cardinality(u.left) = Cardinality(t.left) - 1
    BY <1>1, <1>7, <2>1
  <2>. QED  BY <1>1, <1>3, <2>2
<1>10. /\ u.at = Stand(origin, u.order, n + 1)
       /\ Stand(origin, u.order, n) = t.at
       /\ \A i \in 1..n : Stand(origin, u.order, i - 1) = Stand(origin, t.order, i - 1)
  <2>1. n + 1 # 0 /\ \A i \in 1..n : i - 1 = 0 \/ i - 1 \in 1..n
    OBVIOUS
  <2>2. n = 0 \/ n \in 1..n
    OBVIOUS
  <2>. QED  BY <1>1, <1>7, <1>8, <2>1, <2>2 DEF Stand
<1>11. \A i \in 1..(n + 1) : i \in 1..n \/ i = n + 1
  OBVIOUS
<1>12. \A i \in 1..n : t.order[i] \notin t.left
  BY DEF Toured
<1>13. \A i \in 1..(n + 1) : u.order[i] \notin u.left
  BY <1>7, <1>8, <1>11, <1>12
<1>14. ASSUME NEW i \in 1..(n + 1), NEW j \in 1..(n + 1), i < j  PROVE u.order[i] # u.order[j]
  <2>1. i \in 1..n
    BY <1>14
  <2>2. CASE j \in 1..n
    BY <1>8, <1>14, <2>1, <2>2 DEF Toured
  <2>3. CASE j = n + 1
    BY <1>6, <1>8, <1>12, <2>1, <2>3
  <2>. QED  BY <1>11, <2>2, <2>3
<1>15. ASSUME NEW i \in 1..(n + 1)
       PROVE  LET from == Stand(origin, u.order, i - 1)
              IN  /\ \A q \in u.left : Haversine(from, u.order[i]) <= Haversine(from, q)
                  /\ \A j \in 1..(n + 1) :
                        i < j => Haversine(from, u.order[i]) <= Haversine(from, u.order[j])
  <2>. DEFINE from == Stand(origin, u.order, i - 1)
  <2>1. CASE i \in 1..n
    <3>1. from = Stand(origin, t.order, i - 1) /\ u.order[i] = t.order[i]
      BY <1>8, <1>10, <2>1
    <3>. HIDE DEF from
    <3>2. /\ \A q \in t.left : Haversine(from, t.order[i]) <= Haversine(from, q)
          /\ \A j \in 1..n : i < j => Haversine(from, t.order[i]) <= Haversine(from, t.order[j])
      BY <2>1, <3>1 DEF Toured
    <3>3. ASSUME NEW j \in 1..(n + 1), i < j
          PROVE  Haversine(from, u.order[i]) <= Haversine(from, u.order[j])
      <4>1. CASE j \in 1..n
        BY <1>8, <3>1, <3>2, <3>3, <4>1
      <4>2. CASE j = n + 1
        BY <1>6, <1>8, <3>1, <3>2, <4>2
      <4>. QED  BY <1>11, <4>1, <4>2
    <3>4. \A q \in u.left : Haversine(from, u.order[i]) <= Haversine(from, q)
      BY <1>7, <3>1, <3>2
    <3>. QED  BY <3>3, <3>4 DEF from
  <2>2. CASE i = n + 1
    <3>1. from = t.at /\ u.order[i] = next
      <4>1. (n + 1) - 1 = n
        OBVIOUS
      <4>. QED  BY <1>8, <1>10, <2>2, <4>1
    <3>. HIDE DEF from
    <3>2. \A q \in u.left : Haversine(from, u.order[i]) <= Haversine(from, q)
      BY <1>6, <1>7, <3>1
    <3>3. \A j \in 1..(n + 1) : ~(i < j)
      BY <2>2
    <3>. QED  BY <3>2, <3>3 DEF from
  <2>. QED  BY <1>11, <2>1, <2>2
<1>. QED  BY <1>8, <1>9, <1>10, <1>13, <1>14, <1>15 DEF Toured, u

\* The whole route.
LEMMA RouteIsTour ==
    ASSUME RowsInv, NEW origin \in Sites, NEW place, Placing(place), NEW stops \in SUBSET Ids
    PROVE  LET route == OrderStops(origin, stops, place)
               N == Cardinality(stops)
           IN  /\ N \in Nat /\ route \in Seq(stops) /\ Len(route) = N
               /\ \A i, j \in 1..N : i < j =>
                     /\ route[i] # route[j]
                     /\ Haversine(Stand(origin, route, i - 1), route[i])
                           <= Haversine(Stand(origin, route, i - 1), route[j])
<1>. DEFINE N == Cardinality(stops)
<1>1. N \in Nat
  BY IdsAre
<1>2. PICK tour : /\ tour[0] = [at |-> origin, left |-> stops, order |-> <<>>]
                  /\ \A n \in 1..N : tour[n] = Visit(tour[n - 1], place)
                  /\ OrderStops(origin, stops, place) = tour[N].order
  BY <1>1, TourDef
<1>. DEFINE P == {n \in Nat : n <= N => Toured(origin, stops, tour[n], n)}
<1>3. 0 \in P
  <2>1. <<>> \in Seq(stops) /\ Len(<<>>) = 0
    OBVIOUS
  <2>2. Toured(origin, stops, tour[0], 0)
    BY <1>1, <1>2, <2>1 DEF Toured, Stand
  <2>. QED  BY <2>2
<1>4. ASSUME NEW n \in P  PROVE n + 1 \in P
  <2>. SUFFICES ASSUME n + 1 <= N  PROVE Toured(origin, stops, tour[n + 1], n + 1)
    OBVIOUS
  <2>1. n \in Nat /\ n < N /\ Toured(origin, stops, tour[n], n)
    BY <1>1
  <2>2. tour[n + 1] = Visit(tour[n], place)
    <3>1. n + 1 \in 1..N /\ (n + 1) - 1 = n
      BY <1>1, <2>1
    <3>. QED  BY <1>2, <3>1
  <2>. HIDE DEF P
  <2>. QED  BY <2>1, <2>2, VisitStep
<1>5. P = Nat
  <2>. HIDE DEF P
  <2>1. P \in SUBSET Nat
    BY DEF P
  <2>. QED  BY <1>3, <1>4, <2>1, SetInduction
<1>6. Toured(origin, stops, tour[N], N)
  <2>1. N \in P
    BY <1>1, <1>5
  <2>. QED  BY <1>1, <2>1
<1>. HIDE DEF N, P
<1>. QED  BY <1>1, <1>2, <1>6 DEF Toured, N

LEMMA RouteFollows == RowsInv => RouteIsGreedyTour
<1>. SUFFICES ASSUME RowsInv, NEW c \in Collectors, NEW origin \in Sites, NEW place \in RowOrders
     PROVE  LET route == Route(c, origin, place)
                mine == {p \in Ids : pickup[p].collector = c /\ pickup[p].status = "ASSIGNED"}
                at(i) == IF i = 0 THEN origin ELSE pickup[route[i]].place
            IN  /\ \A i \in DOMAIN route : route[i] \in mine
                /\ \A i, j \in DOMAIN route : route[i] = route[j] => i = j
                /\ Len(route) = IF Cardinality(mine) < MaxStops THEN Cardinality(mine) ELSE MaxStops
                /\ \A i, j \in DOMAIN route : i < j =>
                      Distance[at(i - 1), at(i)] <= Distance[at(i - 1), at(j)]
  BY DEF RouteIsGreedyTour
<1>. DEFINE mine == {p \in Ids : pickup[p].collector = c /\ pickup[p].status = "ASSIGNED"}
            stops == FirstOf(mine, Placed(place), MaxStops)
            N == Cardinality(stops)
            route == Route(c, origin, place)
            at(i) == IF i = 0 THEN origin ELSE pickup[route[i]].place
<1>1. ActiveOf(c) = mine
  <2>1. \A p \in Ids : pickup[p].status \in {"REQUESTED", "ASSIGNED"} \cup Terminal
    BY IdsAre DEF Row
  <2>2. \A p \in Ids : pickup[p].status \in Active \ {"REQUESTED"} <=> pickup[p].status = "ASSIGNED"
    BY <2>1 DEF Active, Terminal
  <2>. QED  BY <2>2 DEF ActiveOf
<1>2. mine \in SUBSET Ids /\ IsFiniteSet(mine) /\ Placing(place) /\ MaxStops \in Nat
  BY IdsAre, ViewAssumption
<1>3. Orders(Placed(place), mine)
  BY <1>2, PlacedOrders, OrdersSubset
<1>4. route = OrderStops(origin, stops, place)
  BY <1>1 DEF Route
<1>. HIDE DEF mine
<1>5. /\ stops \subseteq mine
      /\ N = IF Cardinality(mine) < MaxStops THEN Cardinality(mine) ELSE MaxStops
  BY <1>2, <1>3, FirstRows
<1>. HIDE DEF stops, route
<1>6. stops \in SUBSET Ids
  BY <1>2, <1>5
<1>7. /\ N \in Nat /\ route \in Seq(stops) /\ Len(route) = N
      /\ \A i, j \in 1..N : i < j =>
            /\ route[i] # route[j]
            /\ Haversine(Stand(origin, route, i - 1), route[i])
                  <= Haversine(Stand(origin, route, i - 1), route[j])
  BY <1>2, <1>4, <1>6, RouteIsTour
<1>. HIDE DEF N
<1>8. DOMAIN route = 1..N /\ \A i \in 1..N : route[i] \in mine
  BY <1>5, <1>7
<1>9. \A i, j \in 1..N : route[i] = route[j] => i = j
  <2>1. \A i, j \in 1..N : i # j => i < j \/ j < i
    BY <1>7
  <2>. QED  BY <1>7, <2>1
<1>10. ASSUME NEW i \in 1..N, NEW j \in 1..N, i < j
       PROVE  Distance[at(i - 1), at(i)] <= Distance[at(i - 1), at(j)]
  <2>1. i # 0 /\ j # 0
    BY <1>7
  <2>2. at(i - 1) = Stand(origin, route, i - 1) /\ at(i) = pickup[route[i]].place
        /\ at(j) = pickup[route[j]].place
    BY <2>1 DEF Stand
  <2>3. /\ Haversine(at(i - 1), route[i]) = Distance[at(i - 1), at(i)]
        /\ Haversine(at(i - 1), route[j]) = Distance[at(i - 1), at(j)]
    BY <2>2 DEF Haversine
  <2>. HIDE DEF at
  <2>. QED  BY <1>7, <1>10, <2>2, <2>3
<1>. HIDE DEF at
<1>. QED  BY <1>5, <1>7, <1>8, <1>9, <1>10 DEF mine, at, route

\* The route of a collector, in whatever order the database returns what he
\* has to do and wherever he is seen.
THEOREM RouteCorrect == ViewSpec => []RouteIsGreedyTour
BY RowsAlways, RouteFollows, PTL

=============================================================================
