------------------------ MODULE UnlockedRows_proofs -------------------------
(***************************************************************************)
(* Proofs about the rows that handlers read, change in memory and write    *)
(* back without a lock: the ledger and the stock of rewards, and the rows  *)
(* of StaleRows, for any number of users, threads and transactions; and    *)
(* Complaints, where a thread has checked its transition against a row     *)
(* that others may have changed since.                                     *)
(***************************************************************************)
EXTENDS RewardLedger, StaleRows, Complaints, FiniteSetTheorems, WellFoundedInduction, TLAPS

-----------------------------------------------------------------------------
(* Rewards.                                                                *)

Entry == [user : Redeemers, points : Int]
Offer == [points_cost : Costs, stock : Int \cup {Unlimited}, made : Stocks]
Redemption == [user : Redeemers, reward : Rewards, points : Costs]
Redeeming == [phase : {"read", "checked"}, user : Redeemers, reward : Rewards,
              cost : Costs, stock : Int \cup {Unlimited}]

LedgerShape ==
    /\ rule \in Points \cup {0}
    /\ reward \in [Rewards -> Offer \cup {NoReward}]
    /\ ledger \in Seq(Entry)
    /\ redemption \in Seq(Redemption)
    /\ redeeming \in [RedeemThreads -> Redeeming \cup {NotRedeeming}]

Active(t) == redeeming[t] \in Redeeming

\* What was taken from a stock is at most what was sold, and exactly that while
\* redemptions of the reward come one after another; and so is what it was
\* when a redemption under way read it.
Explained(w, stock) ==
    LET sold == Cardinality(RedemptionsOf(w))
    IN  /\ (stock = Unlimited) <=> (reward[w].made = Unlimited)
        /\ stock # Unlimited =>
              /\ stock >= 0 /\ reward[w].made - stock <= sold
              /\ w \notin redeemedAtOnce => reward[w].made - stock = sold

OffersExplained ==
    \A w \in Rewards :
        /\ reward[w] = NoReward => RedemptionsOf(w) = {}
        /\ reward[w] # NoReward => Explained(w, reward[w].stock)

ReadsExplained ==
    \A t \in RedeemThreads : Active(t) =>
        LET r == redeeming[t]
        IN  /\ reward[r.reward] # NoReward
            /\ Explained(r.reward, r.stock)
            /\ r.stock # Unlimited => r.stock > 0

\* A user, or a reward, with two redemptions under way is noted.
OverlapsNoted ==
    \A s, t \in RedeemThreads : Active(s) /\ Active(t) /\ s # t =>
        {redeeming[s].user, redeeming[s].reward} \cap {redeeming[t].user, redeeming[t].reward}
            \subseteq redeemedAtOnce

\* The redemptions of a user that have passed the check of his balance.
Pending(u) ==
    {t \in RedeemThreads : /\ redeeming[t] \in Redeeming
                           /\ redeeming[t].phase = "checked" /\ redeeming[t].user = u}

Costing == [t \in RedeemThreads |-> redeeming[t].cost]

\* One of the pending redemptions P was affordable when it was checked, and
\* of the T threads those that are not pending may have paid at most c points
\* each since, once.  A thread that pays leaves P.
CoveredBy(balance, P, cost, c) ==
    LET T == Cardinality(RedeemThreads)
    IN  IF P = {} THEN balance >= -(c * (T - 1))
        ELSE \E t \in P : balance >= cost[t] - c * (T - Cardinality(P))

DebtInv ==
    /\ \A u \in Redeemers, c \in Costs :
          (\A d \in Costs : d <= c) => CoveredBy(Balance(u), Pending(u), Costing, c)
    /\ \A u \in Redeemers \ redeemedAtOnce :
          /\ Balance(u) >= 0
          /\ \A t \in Pending(u) : Balance(u) >= redeeming[t].cost

LedgerInv == LedgerShape /\ OffersExplained /\ ReadsExplained /\ OverlapsNoted /\ DebtInv

-----------------------------------------------------------------------------
(* Rows.                                                                   *)

FullWhenFull(r) == r.status = "FULL" <=> r.fill >= 95

RowShape ==
    /\ table \in DOMAIN Column
    /\ writing = [t \in RowThreads |-> writing[t]]
    /\ commits \in Nat
    /\ writer \in [Column[table] -> 0 .. commits]
    /\ row = NotInserted <=> meant = NotInserted
    /\ row # NotInserted => DOMAIN row = Column[table] /\ DOMAIN meant = Column[table]

\* What a request sets, and what it knows: a column that no success has set
\* since the request read it is as it was.
Reading(r) ==
    /\ r.at \in 0 .. commits
    /\ DOMAIN r.sets \subseteq Column[table]
    /\ r.was = NotInserted => DOMAIN r.sets = Column[table]
    /\ r.was # NotInserted => /\ row # NotInserted /\ DOMAIN r.was = Column[table]
                         /\ \A c \in Column[table] : writer[c] <= r.at => row[c] = r.was[c]
    /\ table = "bin" => DOMAIN r.sets = Column[table] /\ FullWhenFull(r.sets)

RowsInv ==
    /\ RowShape
    /\ \A t \in RowThreads : writing[t] # NotWriting => Reading(writing[t])
    /\ row # NotInserted =>
          /\ \A c \in Column[table] \ torn : row[c] = meant[c]
          /\ table = "bin" => FullWhenFull(meant)


\* The columns of each table, and the changes a request can make.
LEMMA Columns ==
    /\ DOMAIN Column = {"bin", "preference", "vehicle", "collector"}
    /\ Column["bin"] = {"fill", "status"} /\ Column["preference"] = {"in_app", "email"}
    /\ Column["vehicle"] = {"status"} /\ Column["collector"] = {"zone", "vehicle", "location"}
BY DEF Column

LEMMA ChangesFit ==
    ASSUME table \in DOMAIN Column, NEW change \in Changes
    PROVE  /\ DOMAIN change \subseteq Column[table]
           /\ row = NotInserted => DOMAIN change = Column[table]
           /\ table = "bin" => DOMAIN change = Column[table] /\ FullWhenFull(change)
<1>1. CASE table = "preference"
  <2>1. change \in [Column["preference"] -> BOOLEAN]
    BY <1>1 DEF Changes, Preferences
  <2>. QED  BY <1>1, <2>1
<1>2. CASE table # "preference" /\ row = NotInserted
  <2>1. change = New[table]
    BY <1>2 DEF Changes
  <2>2. CASE table = "bin"
    <3>1. change = [fill |-> 0, status |-> "ACTIVE"]
      BY <2>1, <2>2 DEF New, NewBin
    <3>. QED  BY <2>2, <3>1, Columns DEF FullWhenFull
  <2>3. CASE table = "vehicle"
    <3>1. change = [status |-> "AVAILABLE"]
      BY <2>1, <2>3 DEF New, NewVehicle
    <3>. QED  BY <2>3, <3>1, Columns
  <2>4. CASE table = "collector"
    <3>1. change = [zone |-> 0, vehicle |-> 0, location |-> 0]
      BY <2>1, <2>4 DEF New, NewCollector
    <3>. QED  BY <2>4, <3>1, Columns
  <2>. QED  BY <1>2, <2>2, <2>3, <2>4, Columns
<1>3. CASE table = "bin" /\ row # NotInserted
  <2>1. PICK level \in Levels : change = FillLevel(level)
    BY <1>3 DEF Changes
  <2>. DEFINE s == IF level >= 95 THEN "FULL"
                   ELSE IF row.status = "FULL" THEN "ACTIVE" ELSE row.status
  <2>2. change = [fill |-> level, status |-> s]
    BY <2>1 DEF FillLevel
  <2>3. s = "FULL" <=> level >= 95
    OBVIOUS
  <2>. HIDE DEF s
  <2>. QED  BY <1>3, <2>2, <2>3, Columns DEF FullWhenFull
<1>4. CASE table = "vehicle" /\ row # NotInserted
  <2>1. change \in [status : VehicleStatus] \cup {[status |-> "MAINTENANCE"]}
    BY <1>4 DEF Changes, Statuses, Maintenance
  <2>2. DOMAIN change = {"status"}
    BY <2>1
  <2>. QED  BY <1>4, <2>2, Columns
<1>5. CASE table = "collector" /\ row # NotInserted
  <2>1. change \in Assignments \cup Locations
    BY <1>5 DEF Changes
  <2>2. DOMAIN change \subseteq {"zone", "vehicle", "location"}
    BY <2>1 DEF Assignments, Locations
  <2>. QED  BY <1>5, <2>2, Columns
<1>. QED  BY <1>1, <1>2, <1>3, <1>4, <1>5, Columns

LEMMA OverrideDef ==
    ASSUME NEW f, NEW g
    PROVE  /\ DOMAIN Override(f, g) = DOMAIN f
           /\ \A c \in DOMAIN f \cap DOMAIN g : Override(f, g)[c] = g[c]
           /\ \A c \in DOMAIN f \ DOMAIN g : Override(f, g)[c] = f[c]
BY DEF Override

LEMMA DifferingDef ==
    ASSUME NEW r
    PROVE  /\ DOMAIN Differing(r) = {d \in DOMAIN r.sets : r.sets[d] # r.was[d]}
           /\ \A c \in DOMAIN Differing(r) : Differing(r)[c] = r.sets[c]
BY DEF Differing

LEMMA ColumnsNotEmpty ==
    ASSUME table \in DOMAIN Column, NEW f, DOMAIN f = Column[table]
    PROVE  f # NotInserted
<1>1. DOMAIN NotInserted = {}
  BY DEF NotInserted
<1>2. Column[table] # {}
  BY Columns
<1>. QED  BY <1>1, <1>2

LEMMA RowsStep ==
    ASSUME RowsInv, [RowNext]_rowVars
    PROVE  RowsInv'
<1>. USE DEF RowsInv
<1>1. ASSUME NEW t \in RowThreads, ReadRow(t)
      PROVE  RowsInv'
  <2>1. PICK change \in Changes :
            writing' = [writing EXCEPT ![t] =
              [phase |-> "read", was |-> row, sets |-> change, at |-> commits]]
    BY <1>1 DEF ReadRow
  <2>2. UNCHANGED <<table, row, commits, meant, writer, torn>>
    BY <1>1 DEF ReadRow
  <2>3. RowShape'
    BY <2>1, <2>2 DEF RowShape
  <2>4. /\ writing'[t].was = row /\ writing'[t].sets = change /\ writing'[t].at = commits
        /\ \A s \in RowThreads \ {t} : writing'[s] = writing[s]
    BY <2>1 DEF RowShape
  <2>5. /\ DOMAIN change \subseteq Column[table]
        /\ row = NotInserted => DOMAIN change = Column[table]
        /\ table = "bin" => DOMAIN change = Column[table] /\ FullWhenFull(change)
    BY ChangesFit DEF RowShape
  <2>6. Reading(writing[t])'
    BY <2>2, <2>4, <2>5 DEF Reading, RowShape, FullWhenFull
  <2>7. \A s \in RowThreads \ {t} : writing'[s] # NotWriting => Reading(writing[s])'
    BY <2>2, <2>4 DEF Reading, FullWhenFull
  <2>. QED  BY <2>2, <2>3, <2>6, <2>7 DEF FullWhenFull
<1>2. ASSUME NEW t \in RowThreads, RefuseRow(t)
      PROVE  RowsInv'
  <2>1. /\ writing'[t] = NotWriting /\ \A s \in RowThreads \ {t} : writing'[s] = writing[s]
        /\ UNCHANGED <<table, row, commits, meant, writer, torn>>
        /\ RowShape'
    BY <1>2 DEF RefuseRow, RowShape
  <2>2. \A s \in RowThreads : writing'[s] # NotWriting => Reading(writing[s])'
    BY <2>1 DEF Reading, FullWhenFull
  <2>. QED  BY <2>1, <2>2 DEF FullWhenFull
<1>3. ASSUME NEW t \in RowThreads, CommitRow(t)
      PROVE  RowsInv'
  <2>. DEFINE r == writing[t]
  <2>1. writing[t] # NotWriting
    BY <1>3 DEF CommitRow, NotWriting
  <2>2. /\ table' = table /\ commits' = commits + 1
        /\ r.was = NotInserted => row = NotInserted
        /\ writer' = [c \in DOMAIN writer |->
              IF c \in DOMAIN r.sets THEN commits + 1 ELSE writer[c]]
        /\ torn' = (torn \ DOMAIN r.sets)
                   \cup {c \in DOMAIN r.sets : writer[c] > r.at}
        /\ writing' = [writing EXCEPT ![t] = NotWriting]
        /\ row' = IF row = NotInserted THEN r.sets ELSE Override(row, Differing(r))
        /\ meant' = IF row = NotInserted THEN r.sets ELSE Override(meant, r.sets)
    BY <1>3 DEF CommitRow
  <2>3. Reading(r)
    BY <2>1
  <2>4. /\ writing'[t] = NotWriting /\ \A s \in RowThreads \ {t} : writing'[s] = writing[s]
        /\ writing' = [s \in RowThreads |-> writing'[s]]
    BY <2>2 DEF RowShape
  <2>. HIDE DEF r
  <2>5. /\ writer' \in [Column[table] -> 0 .. commits + 1]
        /\ \A c \in Column[table] : writer'[c] >= writer[c]
        /\ \A c \in DOMAIN r.sets : writer'[c] = commits + 1
        /\ \A c \in Column[table] \ DOMAIN r.sets : writer'[c] = writer[c]
    BY <2>2, <2>3 DEF Reading, RowShape
  <2>6. DOMAIN row' = Column[table] /\ DOMAIN meant' = Column[table]
    <3>1. CASE row = NotInserted
      <4>1. DOMAIN r.sets = Column[table]
        BY <2>3, <3>1 DEF Reading
      <4>. QED  BY <2>2, <3>1, <4>1
    <3>2. CASE row # NotInserted
      BY <2>2, <3>2, OverrideDef DEF RowShape
    <3>. QED  BY <3>1, <3>2
  <2>7. row' # NotInserted /\ meant' # NotInserted
    BY <2>6, ColumnsNotEmpty DEF RowShape
  <2>8. RowShape'
    BY <2>2, <2>4, <2>5, <2>6, <2>7 DEF RowShape
  <2>9. ASSUME NEW c \in Column[table], row # NotInserted, c \notin DOMAIN r.sets
        PROVE  row'[c] = row[c] /\ meant'[c] = meant[c]
    <3>1. c \in DOMAIN row \ DOMAIN Differing(r) /\ c \in DOMAIN meant \ DOMAIN r.sets
      BY <2>9, DifferingDef DEF RowShape
    <3>. QED  BY <2>2, <2>9, <3>1, OverrideDef
  <2>10. ASSUME NEW s \in RowThreads, writing'[s] # NotWriting
         PROVE  Reading(writing[s])'
    <3>. DEFINE q == writing[s]
    <3>1. s # t /\ writing'[s] = q /\ Reading(q)
      BY <2>4, <2>10
    <3>. HIDE DEF q
    <3>2. /\ q.at \in 0 .. commits'
          /\ DOMAIN q.sets \subseteq Column[table]'
          /\ q.was = NotInserted => DOMAIN q.sets = Column[table]'
          /\ table' = "bin" => DOMAIN q.sets = Column[table]' /\ FullWhenFull(q.sets)
      BY <2>2, <3>1 DEF Reading, RowShape
    <3>3. ASSUME q.was # NotInserted, NEW c \in Column[table], writer'[c] <= q.at
          PROVE  row'[c] = q.was[c]
      <4>1. row # NotInserted /\ writer[c] <= q.at
        BY <2>5, <3>1, <3>3 DEF Reading, RowShape
      <4>2. c \notin DOMAIN r.sets
        BY <2>5, <3>1, <3>3 DEF Reading, RowShape
      <4>. QED  BY <2>9, <3>1, <3>3, <4>1, <4>2 DEF Reading
    <3>4. q.was # NotInserted => DOMAIN q.was = Column[table]
      BY <3>1 DEF Reading
    <3>. QED  BY <2>2, <2>7, <3>1, <3>2, <3>3, <3>4 DEF Reading, FullWhenFull
  <2>11. ASSUME NEW c \in Column[table] \ torn'
         PROVE  row'[c] = meant'[c]
    <3>1. CASE row = NotInserted
      BY <2>2, <3>1
    <3>2. CASE row # NotInserted /\ c \notin DOMAIN r.sets
      <4>1. c \notin torn
        BY <2>2, <2>11, <3>2
      <4>. QED  BY <2>9, <3>2, <4>1
    <3>3. CASE row # NotInserted /\ c \in DOMAIN r.sets
      <4>1. meant'[c] = r.sets[c] /\ c \in DOMAIN row
        BY <2>2, <3>3, OverrideDef DEF RowShape
      <4>2. writer[c] <= r.at
        BY <2>2, <2>3, <2>11, <3>3 DEF RowShape, Reading
      <4>3. row[c] = r.was[c]
        BY <2>2, <2>3, <3>3, <4>2 DEF Reading
      <4>4. CASE r.sets[c] # r.was[c]
        <5>1. c \in DOMAIN Differing(r) /\ Differing(r)[c] = r.sets[c]
          BY <3>3, <4>4, DifferingDef
        <5>. QED  BY <2>2, <3>3, <4>1, <5>1, OverrideDef
      <4>5. CASE r.sets[c] = r.was[c]
        <5>1. c \notin DOMAIN Differing(r)
          BY <4>5, DifferingDef
        <5>. QED  BY <2>2, <3>3, <4>1, <4>3, <4>5, <5>1, OverrideDef
      <4>. QED  BY <4>4, <4>5
    <3>. QED  BY <3>1, <3>2, <3>3
  <2>12. ASSUME table = "bin"
         PROVE  FullWhenFull(meant')
    <3>1. DOMAIN r.sets = Column[table] /\ FullWhenFull(r.sets)
      BY <2>3, <2>12 DEF Reading
    <3>2. \A c \in Column[table] : meant'[c] = r.sets[c]
      BY <2>2, <3>1, OverrideDef DEF RowShape
    <3>3. meant'.fill = r.sets.fill /\ meant'.status = r.sets.status
      BY <2>12, <3>2, Columns
    <3>. QED  BY <3>1, <3>3 DEF FullWhenFull
  <2>. QED  BY <2>2, <2>8, <2>10, <2>11, <2>12 DEF FullWhenFull
<1>4. CASE UNCHANGED rowVars
  BY <1>4 DEF rowVars, RowShape, Reading, FullWhenFull
<1>. QED  BY <1>1, <1>2, <1>3, <1>4 DEF RowNext

LEMMA RowsInvAlways == RowSpec => []RowsInv
<1>1. RowInit => RowsInv
  <2>. SUFFICES ASSUME RowInit  PROVE RowsInv
    OBVIOUS
  <2>1. RowShape
    BY DEF RowInit, RowShape
  <2>2. \A t \in RowThreads : writing[t] = NotWriting
    BY DEF RowInit
  <2>. QED  BY <2>1, <2>2 DEF RowInit, RowsInv
<1>2. RowsInv /\ [RowNext]_rowVars => RowsInv'
  BY RowsStep
<1>. QED  BY <1>1, <1>2, PTL DEF RowSpec

\* However many requests change a row at once, and whatever they set, every
\* column is what the last success that set it meant it to be, unless its
\* request had read before another that set the column succeeded; and a bin is
\* FULL when its level says so (bins.py:127-149, notifications.py:63-76,
\* vehicles.py:76-108, collectors.py:100-133).
THEOREM RowsCorrect == RowSpec => []RowsAreWhatWasMeant
<1>1. RowsInv => RowsAreWhatWasMeant
  <2>. SUFFICES ASSUME RowsInv, row # NotInserted, table = "bin", torn = {}
                PROVE  FullWhenFull(row)
    BY DEF RowsInv, RowsAreWhatWasMeant, FullWhenFull
  <2>1. row.status = meant.status /\ row.fill = meant.fill
    BY Columns DEF RowsInv
  <2>. QED  BY <2>1 DEF RowsInv, FullWhenFull
<1>. QED  BY <1>1, RowsInvAlways, PTL


-----------------------------------------------------------------------------
(* Sums over the ledger: the recursion that defines them has a solution,   *)
(* and an entry adds its points.                                           *)

\* A set of naturals with 0 and with the successors of its members is Nat:
\* else the least of the others would be 0 or a successor.
LEMMA SetInduction ==
    ASSUME NEW P \in SUBSET Nat, 0 \in P, \A n \in P : n + 1 \in P
    PROVE  P = Nat
<1>. SUFFICES ASSUME P # Nat  PROVE FALSE
  OBVIOUS
<1>. DEFINE R == OpToRel(<, Nat)
<1>1. IsWellFoundedOn(R, Nat)
  BY NatLessThanWellFounded
<1>2. \A x, y \in Nat : <<x, y>> \in R <=> x < y
  BY DEF OpToRel
<1>. HIDE DEF R
<1>3. PICK n \in Nat \ P : \A y \in Nat \ P : ~(<<y, n>> \in R)
  <2>1. Nat \ P \subseteq Nat /\ Nat \ P # {}
    OBVIOUS
  <2>. QED  BY <1>1, <2>1, WFMin
<1>4. n # 0 /\ n - 1 \in Nat /\ (n - 1) + 1 = n /\ n - 1 < n
  OBVIOUS
<1>5. n - 1 \notin P
  BY <1>3, <1>4
<1>. QED  BY <1>2, <1>3, <1>4, <1>5

Share(u, e) == IF e.user = u THEN e.points ELSE 0

LEMMA SumsDef ==
    ASSUME NEW u, NEW rows \in Seq(Entry)
    PROVE  LET sum == Sums(u, rows)
           IN  /\ sum \in [0 .. Len(rows) -> Int]
               /\ sum[0] = 0
               /\ \A n \in 1 .. Len(rows) : sum[n] = sum[n - 1] + Share(u, rows[n])
<1>. DEFINE N == Len(rows)
            Solves(g, m) ==
                /\ g \in [0 .. m -> Int] /\ g[0] = 0
                /\ \A n \in 1 .. m : g[n] = g[n - 1] + Share(u, rows[n])
            Solved(m) == \E g \in [0 .. m -> Int] : Solves(g, m)
            P == {m \in Nat : m <= N => Solved(m)}
<1>0. N \in Nat /\ \A n \in 1 .. N : Share(u, rows[n]) \in Int
  <2>1. \A n \in 1 .. N : rows[n] \in Entry
    OBVIOUS
  <2>. QED  BY <2>1 DEF Share, Entry
<1>1. 0 \in P
  <2>1. Solves([n \in 0 .. 0 |-> 0], 0)
    OBVIOUS
  <2>. QED  BY <2>1
<1>2. ASSUME NEW m \in P PROVE m + 1 \in P
  <2>. SUFFICES ASSUME m + 1 <= N  PROVE Solved(m + 1)
    <3>. HIDE DEF Solved, N
    <3>. QED  OBVIOUS
  <2>0. m \in Nat /\ Solved(m)
    <3>. HIDE DEF Solved
    <3>. QED  BY <1>0
  <2>1. PICK g \in [0 .. m -> Int] : Solves(g, m)
    BY <2>0
  <2>. DEFINE h == [n \in 0 .. m + 1 |-> IF n <= m THEN g[n] ELSE g[m] + Share(u, rows[m + 1])]
  <2>2. g[m] \in Int /\ Share(u, rows[m + 1]) \in Int
    BY <1>0, <2>0
  <2>3. h \in [0 .. m + 1 -> Int] /\ h[0] = 0
    BY <2>1, <2>2
  <2>4. \A n \in 1 .. m + 1 : h[n] = h[n - 1] + Share(u, rows[n])
    <3>. SUFFICES ASSUME NEW n \in 1 .. m + 1  PROVE h[n] = h[n - 1] + Share(u, rows[n])
      OBVIOUS
    <3>1. n - 1 \in 0 .. m
      OBVIOUS
    <3>2. CASE n <= m
      BY <2>1, <3>1, <3>2
    <3>3. CASE n = m + 1
      BY <3>1, <3>3
    <3>. QED  BY <3>2, <3>3
  <2>. HIDE DEF h
  <2>. QED  BY <2>3, <2>4
<1>3. P = Nat
  <2>. HIDE DEF P
  <2>1. P \in SUBSET Nat
    BY DEF P
  <2>. QED  BY <1>1, <1>2, <2>1, SetInduction
<1>4. PICK g \in [0 .. N -> Int] : Solves(g, N)
  <2>1. Solved(N)
    <3>1. N \in P
      BY <1>0, <1>3
    <3>. HIDE DEF Solved, N
    <3>. QED  BY <1>0, <3>1
  <2>. QED  BY <2>1
<1>. DEFINE Rec(h) == [n \in 0 .. Len(rows) |->
                IF n = 0 THEN 0
                ELSE h[n - 1] + (IF rows[n].user = u THEN rows[n].points ELSE 0)]
            sum == Sums(u, rows)
<1>5. g = Rec(g)
  BY <1>0, <1>4 DEF Share
<1>6. sum = Rec(sum)
  BY <1>5 DEF Sums
<1>7. /\ sum[0] = 0
      /\ \A n \in 1 .. N : sum[n] = sum[n - 1] + Share(u, rows[n])
      /\ sum = [n \in 0 .. N |-> sum[n]]
  BY <1>0, <1>6 DEF Share
<1>. DEFINE T == {n \in Nat : n <= N => sum[n] \in Int}
<1>. HIDE DEF sum, P, Rec, N
<1>8. 0 \in T
  BY <1>7
<1>9. ASSUME NEW n \in T PROVE n + 1 \in T
  <2>. SUFFICES ASSUME n + 1 <= N  PROVE sum[n + 1] \in Int
    OBVIOUS
  <2>1. sum[n] \in Int /\ n + 1 \in 1 .. N /\ (n + 1) - 1 = n
    BY <1>0
  <2>2. sum[n + 1] = sum[n] + Share(u, rows[n + 1]) /\ Share(u, rows[n + 1]) \in Int
    BY <1>0, <1>7, <2>1
  <2>. QED  BY <2>1, <2>2
<1>10. T = Nat
  <2>. HIDE DEF T
  <2>1. T \in SUBSET Nat
    BY DEF T
  <2>. QED  BY <1>8, <1>9, <2>1, SetInduction
<1>11. \A n \in 0 .. N : sum[n] \in Int
  <2>1. \A n \in 0 .. N : n \in T
    BY <1>0, <1>10
  <2>. QED  BY <1>0, <2>1
<1>. QED  BY <1>7, <1>11 DEF sum, N

LEMMA SumsAppend ==
    ASSUME NEW u, NEW rows \in Seq(Entry), NEW e \in Entry
    PROVE  /\ Sums(u, rows)[Len(rows)] \in Int
           /\ Sums(u, Append(rows, e))[Len(rows) + 1] = Sums(u, rows)[Len(rows)] + Share(u, e)
<1>. DEFINE N == Len(rows)
            more == Append(rows, e)
            a == Sums(u, rows)
            b == Sums(u, more)
            P == {n \in Nat : n <= N => a[n] = b[n]}
<1>1. /\ N \in Nat /\ more \in Seq(Entry) /\ Len(more) = N + 1 /\ more[N + 1] = e
      /\ \A n \in 1 .. N : more[n] = rows[n]
  OBVIOUS
<1>2. /\ a \in [0 .. N -> Int] /\ a[0] = 0
      /\ \A n \in 1 .. N : a[n] = a[n - 1] + Share(u, rows[n])
  BY SumsDef
<1>3. /\ b \in [0 .. N + 1 -> Int] /\ b[0] = 0
      /\ \A n \in 1 .. N + 1 : b[n] = b[n - 1] + Share(u, more[n])
  <2>. HIDE DEF more
  <2>1. /\ b \in [0 .. Len(more) -> Int] /\ b[0] = 0
        /\ \A n \in 1 .. Len(more) : b[n] = b[n - 1] + Share(u, more[n])
    <3>1. more \in Seq(Entry)
      BY <1>1
    <3>. QED  BY <3>1, SumsDef
  <2>. HIDE DEF b
  <2>. QED  BY <1>1, <2>1
<1>. HIDE DEF N, more, a, b
<1>4. 0 \in P
  BY <1>2, <1>3
<1>5. ASSUME NEW n \in P PROVE n + 1 \in P
  <2>. SUFFICES ASSUME n + 1 <= N  PROVE a[n + 1] = b[n + 1]
    OBVIOUS
  <2>1. a[n] = b[n] /\ n + 1 \in 1 .. N /\ n + 1 \in 1 .. N + 1 /\ (n + 1) - 1 = n
    BY <1>1
  <2>2. a[n + 1] = a[n] + Share(u, rows[n + 1]) /\ b[n + 1] = b[n] + Share(u, more[n + 1])
    BY <1>2, <1>3, <2>1
  <2>. QED  BY <1>1, <2>1, <2>2
<1>6. P = Nat
  <2>. HIDE DEF P
  <2>1. P \in SUBSET Nat
    BY DEF P
  <2>. QED  BY <1>4, <1>5, <2>1, SetInduction
<1>7. a[N] = b[N] /\ a[N] \in Int
  <2>1. N \in P
    BY <1>1, <1>6
  <2>. QED  BY <1>1, <1>2, <2>1
<1>8. N + 1 \in 1 .. N + 1 /\ (N + 1) - 1 = N
  BY <1>1
<1>9. b[N + 1] = b[N] + Share(u, e)
  BY <1>1, <1>3, <1>8
<1>. QED  BY <1>7, <1>9 DEF a, b, N, more


-----------------------------------------------------------------------------
(* Steps of the ledger.                                                    *)

LEMMA NotRedeemingIsNot == NotRedeeming \notin Redeeming
BY DEF NotRedeeming, Redeeming

LEMMA NoRewardIsNot == NoReward \notin Offer
<1>1. DOMAIN NoReward = {} /\ \A o \in Offer : "made" \in DOMAIN o
  BY DEF NoReward, Offer
<1>. QED  BY <1>1

LEMMA TakeOneIsOffer ==
    ASSUME NEW offer \in Offer, NEW read \in Int \cup {Unlimited}
    PROVE  /\ TakeOne(offer, read) \in Offer /\ TakeOne(offer, read).made = offer.made
           /\ TakeOne(offer, read).stock = IF read = Unlimited THEN offer.stock ELSE read - 1
BY LedgerAssumption DEF TakeOne, Offer

LEMMA LedgerShapeStep ==
    ASSUME LedgerShape, [LedgerNext]_ledgerVars
    PROVE  LedgerShape'
<1>. USE DEF LedgerShape
<1>1. ASSUME NEW p \in Points, CreateRule(p)
      PROVE  LedgerShape'
  BY <1>1 DEF CreateRule
<1>2. ASSUME NEW w \in Rewards, NEW c \in Costs, NEW s \in Stocks, CreateReward(w, c, s)
      PROVE  LedgerShape'
  <2>1. [points_cost |-> c, stock |-> s, made |-> s] \in Offer
    BY LedgerAssumption DEF Offer
  <2>. QED  BY <1>2, <2>1 DEF CreateReward
<1>3. ASSUME NEW u \in Redeemers, Earn(u)
      PROVE  LedgerShape'
  <2>1. [user |-> u, points |-> rule] \in Entry
    BY LedgerAssumption DEF Entry
  <2>. QED  BY <1>3, <2>1 DEF Earn
<1>4. ASSUME NEW t \in RedeemThreads, NEW u \in Redeemers, NEW w \in Rewards,
             ReadReward(t, u, w)
      PROVE  LedgerShape'
  <2>1. reward[w] \in Offer
    BY <1>4 DEF ReadReward
  <2>2. [phase |-> "read", user |-> u, reward |-> w,
         cost |-> reward[w].points_cost, stock |-> reward[w].stock] \in Redeeming
    BY <2>1 DEF Offer, Redeeming
  <2>. QED  BY <1>4, <2>2 DEF ReadReward
<1>5. ASSUME NEW t \in RedeemThreads, CheckBalance(t)
      PROVE  LedgerShape'
  <2>1. redeeming[t] \in Redeeming
    BY <1>5 DEF CheckBalance, NotRedeeming
  <2>2. [redeeming[t] EXCEPT !.phase = "checked"] \in Redeeming
    BY <2>1 DEF Redeeming
  <2>. QED  BY <1>5, <2>2 DEF CheckBalance
<1>6. ASSUME NEW t \in RedeemThreads, CommitRedemption(t)
      PROVE  LedgerShape'
  <2>. DEFINE r == redeeming[t]
  <2>1. r \in Redeeming
    BY <1>6 DEF CommitRedemption, NotRedeeming
  <2>2. [user |-> r.user, reward |-> r.reward, points |-> r.cost] \in Redemption
    BY <2>1 DEF Redeeming, Redemption
  <2>3. Payment(r) \in Entry
    <3>1. r.user \in Redeemers /\ r.cost \in Costs
      BY <2>1 DEF Redeeming
    <3>2. \A c \in Costs : -c \in Int
      BY LedgerAssumption
    <3>. QED  BY <3>1, <3>2 DEF Payment, Entry
  <2>4. reward' \in [Rewards -> Offer \cup {NoReward}]
    <3>1. r.reward \in Rewards /\ r.stock \in Int \cup {Unlimited}
      BY <2>1 DEF Redeeming
    <3>2. CASE reward[r.reward] \in Offer
      BY <1>6, <3>1, <3>2, TakeOneIsOffer DEF CommitRedemption
    <3>3. CASE reward[r.reward] = NoReward
      <4>1. TakeOne(NoReward, r.stock) = NoReward
        BY DEF TakeOne, NoReward
      <4>. QED  BY <1>6, <3>1, <3>3, <4>1 DEF CommitRedemption
    <3>. QED  BY <3>1, <3>2, <3>3
  <2>. QED  BY <1>6, <2>2, <2>3, <2>4 DEF CommitRedemption
<1>7. ASSUME NEW t \in RedeemThreads, AbortRedemption(t)
      PROVE  LedgerShape'
  BY <1>7 DEF AbortRedemption
<1>8. CASE UNCHANGED ledgerVars
  BY <1>8 DEF ledgerVars
<1>. QED  BY <1>1, <1>2, <1>3, <1>4, <1>5, <1>6, <1>7, <1>8 DEF LedgerNext

-----------------------------------------------------------------------------
(* The stock.                                                              *)

LEMMA SoldIsNatural ==
    ASSUME LedgerShape, NEW w
    PROVE  IsFiniteSet(RedemptionsOf(w)) /\ Cardinality(RedemptionsOf(w)) \in Nat
<1>1. IsFiniteSet(1 .. Len(redemption))
  BY FS_Interval DEF LedgerShape
<1>2. RedemptionsOf(w) \subseteq 1 .. Len(redemption)
  BY DEF RedemptionsOf, LedgerShape
<1>3. IsFiniteSet(RedemptionsOf(w))
  BY <1>1, <1>2, FS_Subset
<1>. QED  BY <1>3, FS_CardinalityType

LEMMA SoldOneMore ==
    ASSUME LedgerShape, NEW e \in Redemption, redemption' = Append(redemption, e), NEW w
    PROVE  /\ e.reward # w => RedemptionsOf(w)' = RedemptionsOf(w)
           /\ e.reward = w =>
                 Cardinality(RedemptionsOf(w)') = Cardinality(RedemptionsOf(w)) + 1
<1>. DEFINE n == Len(redemption) + 1
<1>1. /\ n \in Nat /\ DOMAIN redemption = 1 .. n - 1 /\ DOMAIN redemption' = 1 .. n
      /\ redemption'[n] = e /\ \A i \in 1 .. n - 1 : redemption'[i] = redemption[i]
  BY DEF LedgerShape
<1>. HIDE DEF n
<1>2. e.reward # w => RedemptionsOf(w)' = RedemptionsOf(w)
  BY <1>1 DEF RedemptionsOf
<1>3. e.reward = w => RedemptionsOf(w)' = RedemptionsOf(w) \cup {n}
  BY <1>1 DEF RedemptionsOf
<1>4. n \notin RedemptionsOf(w)
  BY <1>1 DEF RedemptionsOf
<1>. QED  BY <1>2, <1>3, <1>4, SoldIsNatural, FS_AddElement

\* A step that sells nothing and reads no reward.
LEMMA StockKept ==
    ASSUME OffersExplained, ReadsExplained, OverlapsNoted,
           UNCHANGED <<reward, redemption, redeemedAtOnce>>,
           \A t \in RedeemThreads : Active(t)' =>
               /\ Active(t) /\ redeeming'[t].user = redeeming[t].user
               /\ redeeming'[t].reward = redeeming[t].reward
               /\ redeeming'[t].stock = redeeming[t].stock
    PROVE  OffersExplained' /\ ReadsExplained' /\ OverlapsNoted'
<1>1. OffersExplained'
  <2>1. reward' = reward /\ redemption' = redemption /\ redeemedAtOnce' = redeemedAtOnce
    OBVIOUS
  <2>2. \A w \in Rewards : RedemptionsOf(w)' = RedemptionsOf(w)
    BY <2>1 DEF RedemptionsOf
  <2>3. ASSUME NEW w \in Rewards, Explained(w, reward[w].stock)
        PROVE  Explained(w, reward[w].stock)'
    BY <2>1, <2>2, <2>3 DEF Explained
  <2>. QED  BY <2>1, <2>2, <2>3 DEF OffersExplained
<1>2. ReadsExplained'
  BY DEF ReadsExplained, Explained, RedemptionsOf
<1>3. OverlapsNoted'
  BY DEF OverlapsNoted
<1>. QED  BY <1>1, <1>2, <1>3

LEMMA StockStep ==
    ASSUME LedgerInv, [LedgerNext]_ledgerVars
    PROVE  OffersExplained' /\ ReadsExplained' /\ OverlapsNoted'
<1>0. LedgerShape /\ LedgerShape' /\ OffersExplained /\ ReadsExplained /\ OverlapsNoted
  BY LedgerShapeStep DEF LedgerInv
<1>1. ASSUME NEW p \in Points, CreateRule(p)
      PROVE  OffersExplained' /\ ReadsExplained' /\ OverlapsNoted'
  BY <1>0, <1>1, StockKept DEF CreateRule, Active
<1>2. ASSUME NEW w \in Rewards, NEW c \in Costs, NEW s \in Stocks, CreateReward(w, c, s)
      PROVE  OffersExplained' /\ ReadsExplained' /\ OverlapsNoted'
  <2>1. /\ reward[w] = NoReward /\ UNCHANGED <<redemption, redeeming, redeemedAtOnce>>
        /\ reward'[w].stock = s /\ reward'[w].made = s /\ reward'[w] # NoReward
        /\ \A v \in Rewards \ {w} : reward'[v] = reward[v]
    <3>1. [points_cost |-> c, stock |-> s, made |-> s] \in Offer
      BY LedgerAssumption DEF Offer
    <3>. QED  BY <1>0, <1>2, <3>1, NoRewardIsNot DEF CreateReward, LedgerShape
  <2>2. Cardinality(RedemptionsOf(w)) = 0
    BY <1>0, <2>1, FS_EmptySet DEF OffersExplained
  <2>3. Explained(w, reward[w].stock)'
    BY <2>1, <2>2, LedgerAssumption DEF Explained, RedemptionsOf
  <2>4. OffersExplained'
    <3>1. redemption' = redemption /\ redeemedAtOnce' = redeemedAtOnce
      BY <2>1
    <3>2. \A v \in Rewards : RedemptionsOf(v)' = RedemptionsOf(v)
      BY <3>1 DEF RedemptionsOf
    <3>3. ASSUME NEW v \in Rewards \ {w}, Explained(v, reward[v].stock)
          PROVE  Explained(v, reward[v].stock)'
      <4>1. reward'[v] = reward[v]
        BY <2>1
      <4>. QED  BY <3>1, <3>2, <3>3, <4>1 DEF Explained
    <3>4. ASSUME NEW v \in Rewards \ {w}
          PROVE  /\ reward'[v] = NoReward => RedemptionsOf(v)' = {}
                 /\ reward'[v] # NoReward => Explained(v, reward[v].stock)'
      <4>1. reward'[v] = reward[v] /\ RedemptionsOf(v)' = RedemptionsOf(v)
        BY <2>1, <3>2
      <4>. QED  BY <1>0, <3>3, <4>1 DEF OffersExplained
    <3>. QED  BY <2>1, <2>3, <3>4 DEF OffersExplained
  <2>5. ASSUME NEW t \in RedeemThreads, Active(t)'
        PROVE  /\ reward'[redeeming[t].reward] = reward[redeeming[t].reward]
               /\ Active(t) /\ redeeming'[t] = redeeming[t]
    <3>1. Active(t) /\ redeeming'[t] = redeeming[t]
      BY <2>1, <2>5 DEF Active
    <3>2. redeeming[t].reward \in Rewards /\ redeeming[t].reward # w
      BY <1>0, <2>1, <3>1 DEF ReadsExplained, Active, Redeeming
    <3>. QED  BY <2>1, <3>1, <3>2
  <2>6. ReadsExplained'
    BY <1>0, <2>1, <2>5 DEF ReadsExplained, Explained, RedemptionsOf
  <2>7. OverlapsNoted'
    BY <1>0, <2>1 DEF OverlapsNoted, Active
  <2>. QED  BY <2>4, <2>6, <2>7
<1>3. ASSUME NEW u \in Redeemers, Earn(u)
      PROVE  OffersExplained' /\ ReadsExplained' /\ OverlapsNoted'
  BY <1>0, <1>3, StockKept DEF Earn, Active
<1>4. ASSUME NEW t \in RedeemThreads, NEW u \in Redeemers, NEW w \in Rewards,
             ReadReward(t, u, w)
      PROVE  OffersExplained' /\ ReadsExplained' /\ OverlapsNoted'
  <2>1. /\ redeeming[t] = NotRedeeming /\ reward[w] # NoReward
        /\ reward[w].stock # Unlimited => reward[w].stock > 0
        /\ UNCHANGED <<reward, redemption>>
    BY <1>4 DEF ReadReward
  <2>2. /\ redeeming'[t].user = u /\ redeeming'[t].reward = w
        /\ redeeming'[t].stock = reward[w].stock
        /\ \A s \in RedeemThreads \ {t} : redeeming'[s] = redeeming[s]
    BY <1>0, <1>4 DEF ReadReward, LedgerShape
  <2>3. \A s \in RedeemThreads : Active(s) <=> redeeming[s] # NotRedeeming
    BY <1>0, NotRedeemingIsNot DEF Active, LedgerShape
  <2>4. /\ redeemedAtOnce \subseteq redeemedAtOnce'
        /\ \A s \in RedeemThreads : Active(s) =>
              {u, w} \cap {redeeming[s].user, redeeming[s].reward} \subseteq redeemedAtOnce'
    BY <1>4, <2>3 DEF ReadReward
  <2>5. \A s \in RedeemThreads \ {t} : Active(s)' => Active(s)
    BY <2>2 DEF Active
  <2>6. OffersExplained'
    BY <1>0, <2>1, <2>4 DEF OffersExplained, Explained, RedemptionsOf
  <2>7. ReadsExplained'
    <3>1. Explained(w, reward[w].stock)'
      BY <2>1, <2>6 DEF OffersExplained
    <3>2. Explained(redeeming[t].reward, redeeming[t].stock)'
      BY <2>1, <2>2, <3>1 DEF Explained
    <3>3. ASSUME NEW s \in RedeemThreads \ {t}, Active(s)'
          PROVE  /\ reward'[redeeming'[s].reward] # NoReward
                 /\ Explained(redeeming[s].reward, redeeming[s].stock)'
                 /\ redeeming'[s].stock # Unlimited => redeeming'[s].stock > 0
      BY <1>0, <2>1, <2>2, <2>4, <2>5, <3>3 DEF ReadsExplained, Explained, RedemptionsOf
    <3>. QED  BY <2>1, <2>2, <3>2, <3>3 DEF ReadsExplained
  <2>8. OverlapsNoted'
    <3>1. \A s, q \in RedeemThreads \ {t} : Active(s)' /\ Active(q)' /\ s # q =>
              {redeeming'[s].user, redeeming'[s].reward}
                  \cap {redeeming'[q].user, redeeming'[q].reward} \subseteq redeemedAtOnce'
      BY <1>0, <2>2, <2>4, <2>5 DEF OverlapsNoted
    <3>2. \A s \in RedeemThreads \ {t} : Active(s)' =>
              {u, w} \cap {redeeming'[s].user, redeeming'[s].reward} \subseteq redeemedAtOnce'
      BY <2>2, <2>4, <2>5
    <3>. QED  BY <2>2, <3>1, <3>2 DEF OverlapsNoted
  <2>. QED  BY <2>6, <2>7, <2>8
<1>5. ASSUME NEW t \in RedeemThreads, CheckBalance(t)
      PROVE  OffersExplained' /\ ReadsExplained' /\ OverlapsNoted'
  <2>1. Active(t)
    BY <1>0, <1>5 DEF CheckBalance, NotRedeeming, Active, LedgerShape
  <2>2. \/ redeeming'[t] = [redeeming[t] EXCEPT !.phase = "checked"]
        \/ redeeming'[t] = NotRedeeming
    BY <1>0, <1>5 DEF CheckBalance, LedgerShape
  <2>3. Active(t)' => /\ redeeming'[t].user = redeeming[t].user
                      /\ redeeming'[t].reward = redeeming[t].reward
                      /\ redeeming'[t].stock = redeeming[t].stock
    BY <2>1, <2>2, NotRedeemingIsNot DEF Active, Redeeming
  <2>4. \A s \in RedeemThreads \ {t} : redeeming'[s] = redeeming[s]
    BY <1>0, <1>5 DEF CheckBalance, LedgerShape
  <2>5. UNCHANGED <<reward, redemption, redeemedAtOnce>>
    BY <1>5 DEF CheckBalance
  <2>6. \A s \in RedeemThreads : Active(s)' =>
            /\ Active(s) /\ redeeming'[s].user = redeeming[s].user
            /\ redeeming'[s].reward = redeeming[s].reward
            /\ redeeming'[s].stock = redeeming[s].stock
    BY <2>1, <2>3, <2>4 DEF Active
  <2>. QED  BY <1>0, <2>5, <2>6, StockKept
<1>6. ASSUME NEW t \in RedeemThreads, CommitRedemption(t)
      PROVE  OffersExplained' /\ ReadsExplained' /\ OverlapsNoted'
  <2>0. PICK r \in Redeeming : r = redeeming[t]
    BY <1>0, <1>6 DEF CommitRedemption, NotRedeeming, LedgerShape
  <2>. DEFINE w == r.reward
              e == [user |-> r.user, reward |-> r.reward, points |-> r.cost]
  <2>1. Active(t) /\ w \in Rewards /\ r.stock \in Int \cup {Unlimited}
    BY <2>0 DEF Active, Redeeming
  <2>2. e \in Redemption /\ e.reward = w /\ redemption' = Append(redemption, e)
    BY <1>6, <2>0 DEF CommitRedemption, Redeeming, Redemption
  <2>3. /\ redeeming'[t] = NotRedeeming
        /\ \A s \in RedeemThreads \ {t} : redeeming'[s] = redeeming[s]
        /\ redeemedAtOnce' = redeemedAtOnce
        /\ reward' = [reward EXCEPT ![w] = TakeOne(reward[w], r.stock)]
    BY <1>0, <1>6, <2>0 DEF CommitRedemption, LedgerShape
  <2>4. reward[w] # NoReward /\ reward[w] \in Offer
    BY <1>0, <2>0, <2>1 DEF ReadsExplained, LedgerShape
  <2>5. Explained(w, r.stock) /\ (r.stock # Unlimited => r.stock > 0)
    BY <1>0, <2>0, <2>1 DEF ReadsExplained
  <2>6. Explained(w, reward[w].stock)
    BY <1>0, <2>1, <2>4 DEF OffersExplained
  <2>. HIDE DEF e, w
  <2>7. /\ reward'[w] # NoReward /\ reward'[w].made = reward[w].made
        /\ reward'[w].stock = IF r.stock = Unlimited THEN reward[w].stock ELSE r.stock - 1
        /\ \A v \in Rewards \ {w} : reward'[v] = reward[v]
    <3>1. reward \in [Rewards -> Offer \cup {NoReward}]
      BY <1>0 DEF LedgerShape
    <3>2. reward'[w] = TakeOne(reward[w], r.stock)
      BY <2>1, <2>3, <3>1
    <3>3. \A v \in Rewards \ {w} : reward'[v] = reward[v]
      BY <2>1, <2>3, <3>1
    <3>4. /\ TakeOne(reward[w], r.stock) \in Offer
          /\ TakeOne(reward[w], r.stock).made = reward[w].made
          /\ TakeOne(reward[w], r.stock).stock =
                IF r.stock = Unlimited THEN reward[w].stock ELSE r.stock - 1
      BY <2>1, <2>4, TakeOneIsOffer
    <3>. QED  BY <3>2, <3>3, <3>4, NoRewardIsNot
  <2>8. /\ \A v \in Rewards \ {w} : RedemptionsOf(v)' = RedemptionsOf(v)
        /\ Cardinality(RedemptionsOf(w)') = Cardinality(RedemptionsOf(w)) + 1
        /\ Cardinality(RedemptionsOf(w)) \in Nat
    BY <1>0, <2>2, SoldOneMore, SoldIsNatural
  <2>9. /\ reward[w].made \in Int \cup {Unlimited} /\ reward[w].stock \in Int \cup {Unlimited}
    <3>1. reward[w].made \in Stocks /\ reward[w].stock \in Int \cup {Unlimited}
      BY <2>4 DEF Offer
    <3>2. \A m \in Stocks : m \in Int \cup {Unlimited}
      BY LedgerAssumption
    <3>. QED  BY <3>1, <3>2
  <2>10. /\ (reward'[w].stock = Unlimited) <=> (reward[w].made = Unlimited)
         /\ reward'[w].stock # Unlimited =>
               /\ reward'[w].stock >= 0
               /\ reward[w].made - reward'[w].stock <= Cardinality(RedemptionsOf(w)) + 1
               /\ w \notin redeemedAtOnce =>
                     reward[w].made - reward'[w].stock = Cardinality(RedemptionsOf(w)) + 1
    BY <2>1, <2>5, <2>6, <2>7, <2>8, <2>9, LedgerAssumption DEF Explained
  <2>11. ASSUME NEW v \in Rewards, reward'[v] # NoReward
         PROVE  Explained(v, reward[v].stock)'
    <3>1. CASE v = w
      BY <2>3, <2>7, <2>8, <2>10, <3>1 DEF Explained
    <3>2. CASE v # w
      BY <1>0, <2>3, <2>7, <2>8, <2>11, <3>2 DEF Explained, OffersExplained
    <3>. QED  BY <3>1, <3>2
  <2>12. OffersExplained'
    BY <1>0, <2>7, <2>8, <2>11 DEF OffersExplained
  <2>13. ASSUME NEW s \in RedeemThreads, Active(s)'
         PROVE  /\ reward'[redeeming'[s].reward] # NoReward
                /\ Explained(redeeming[s].reward, redeeming[s].stock)'
                /\ redeeming'[s].stock # Unlimited => redeeming'[s].stock > 0
    <3>0. s # t /\ Active(s) /\ redeeming'[s] = redeeming[s]
      BY <2>3, <2>13, NotRedeemingIsNot DEF Active
    <3>. PICK q \in Redeeming : q = redeeming[s]
      BY <3>0 DEF Active
    <3>. DEFINE v == q.reward
                n == q.stock
    <3>1. v \in Rewards /\ n \in Int \cup {Unlimited}
      BY DEF Redeeming
    <3>2. /\ reward[v] # NoReward /\ Explained(v, n)
          /\ n # Unlimited => n > 0
      BY <1>0, <3>0 DEF ReadsExplained
    <3>3. v = w => w \in redeemedAtOnce
      BY <1>0, <2>0, <2>1, <3>0 DEF OverlapsNoted, w
    <3>. HIDE DEF v, n
    <3>4. /\ (n = Unlimited) <=> (reward'[v].made = Unlimited)
          /\ n # Unlimited =>
                /\ n >= 0 /\ reward'[v].made - n <= Cardinality(RedemptionsOf(v)')
                /\ v \notin redeemedAtOnce =>
                      reward'[v].made - n = Cardinality(RedemptionsOf(v)')
      <4>1. CASE v = w
        BY <2>7, <2>8, <2>9, <3>1, <3>2, <3>3, <4>1, LedgerAssumption DEF Explained
      <4>2. CASE v # w
        BY <2>7, <2>8, <3>1, <3>2, <4>2 DEF Explained
      <4>. QED  BY <4>1, <4>2
    <3>5. reward'[v] # NoReward
      BY <2>7, <3>1, <3>2
    <3>. QED  BY <2>3, <3>0, <3>2, <3>4, <3>5 DEF Explained, v, n
  <2>14. ReadsExplained'
    BY <2>13 DEF ReadsExplained
  <2>15. OverlapsNoted'
    BY <1>0, <2>3, NotRedeemingIsNot DEF OverlapsNoted, Active
  <2>. QED  BY <2>12, <2>14, <2>15
<1>7. ASSUME NEW t \in RedeemThreads, AbortRedemption(t)
      PROVE  OffersExplained' /\ ReadsExplained' /\ OverlapsNoted'
  <2>1. \A s \in RedeemThreads : Active(s)' => Active(s) /\ redeeming'[s] = redeeming[s]
    BY <1>0, <1>7, NotRedeemingIsNot DEF AbortRedemption, Active, LedgerShape
  <2>. QED  BY <1>0, <1>7, <2>1, StockKept DEF AbortRedemption
<1>8. CASE UNCHANGED ledgerVars
  BY <1>0, <1>8, StockKept DEF ledgerVars, Active
<1>. QED  BY <1>1, <1>2, <1>3, <1>4, <1>5, <1>6, <1>7, <1>8 DEF LedgerNext


-----------------------------------------------------------------------------
(* The debt.                                                               *)

LEMMA BalanceIsInteger ==
    ASSUME NEW u
    PROVE  /\ LedgerShape => Balance(u) \in Int
           /\ LedgerShape' => Balance(u)' \in Int
<1>1. \A rows \in Seq(Entry) : Sums(u, rows)[Len(rows)] \in Int
  <2>1. \A rows \in Seq(Entry) : Len(rows) \in 0 .. Len(rows)
    OBVIOUS
  <2>. QED  BY <2>1, SumsDef
<1>. QED  BY <1>1 DEF Balance, LedgerShape

LEMMA BalanceGrows ==
    ASSUME LedgerShape, NEW e \in Entry, ledger' = Append(ledger, e), NEW u
    PROVE  Balance(u)' = Balance(u) + Share(u, e)
<1>1. ledger \in Seq(Entry) /\ Len(ledger') = Len(ledger) + 1
  BY DEF LedgerShape
<1>. QED  BY <1>1, SumsAppend DEF Balance

\* What counts of the costs is those of the pending redemptions.
LEMMA CoveredWithMore ==
    ASSUME NEW P \in SUBSET RedeemThreads, NEW cost, NEW cost2, NEW c,
           \A t \in P : cost2[t] = cost[t] /\ cost[t] \in Int,
           NEW b \in Int, NEW b2 \in Int, b <= b2, c \in Nat, CoveredBy(b, P, cost, c)
    PROVE  CoveredBy(b2, P, cost2, c)
<1>. DEFINE T == Cardinality(RedeemThreads)
            n == Cardinality(P)
<1>1. T \in Nat /\ n \in Nat
  BY LedgerAssumption, FS_Subset, FS_CardinalityType
<1>. HIDE DEF T, n
<1>2. c * (T - 1) \in Int /\ c * (T - n) \in Int
  BY <1>1
<1>. DEFINE x == c * (T - 1)
            y == c * (T - n)
<1>3. IF P = {} THEN b >= -x ELSE \E t \in P : b >= cost[t] - y
  BY DEF CoveredBy, T, n
<1>. HIDE DEF x, y
<1>4. IF P = {} THEN b2 >= -x ELSE \E t \in P : b2 >= cost2[t] - y
  BY <1>2, <1>3 DEF x, y
<1>. QED  BY <1>4 DEF CoveredBy, T, n, x, y

LEMMA Counts ==
    ASSUME NEW P \in SUBSET RedeemThreads, NEW t \in RedeemThreads
    PROVE  /\ Cardinality(RedeemThreads) \in Nat /\ Cardinality(P) \in Nat
           /\ Cardinality(P) <= Cardinality(RedeemThreads)
           /\ Cardinality(RedeemThreads) >= 1
           /\ t \in P => Cardinality(P \ {t}) = Cardinality(P) - 1
           /\ P \ {t} = {} /\ t \in P => Cardinality(P) = 1
           /\ t \notin P => Cardinality(P \cup {t}) = Cardinality(P) + 1
<1>1. IsFiniteSet(RedeemThreads) /\ IsFiniteSet(P)
  BY LedgerAssumption, FS_Subset
<1>2. /\ Cardinality(RedeemThreads) \in Nat /\ Cardinality(P) \in Nat
      /\ Cardinality(P) <= Cardinality(RedeemThreads)
  BY <1>1, FS_CardinalityType, FS_Subset
<1>3. Cardinality(RedeemThreads) # 0
  BY <1>1, FS_EmptySet
<1>4. t \in P => Cardinality(P \ {t}) = Cardinality(P) - 1
  BY <1>1, FS_RemoveElement
<1>5. t \notin P => Cardinality(P \cup {t}) = Cardinality(P) + 1
  BY <1>1, FS_AddElement
<1>6. P \ {t} = {} /\ t \in P => Cardinality(P) = 1
  <2>. SUFFICES ASSUME P \ {t} = {}, t \in P  PROVE Cardinality(P) = 1
    OBVIOUS
  <2>1. P = {t}
    OBVIOUS
  <2>. QED  BY <2>1, FS_Singleton
<1>7. Cardinality(RedeemThreads) >= 1
  BY <1>2, <1>3
<1>. QED  BY <1>2, <1>4, <1>5, <1>6, <1>7

\* A redemption that is affordable covers itself.
LEMMA CoveredByOne ==
    ASSUME NEW P \in SUBSET RedeemThreads, NEW cost, NEW c \in Nat, NEW t \in P,
           cost[t] \in Int, NEW b \in Int, b >= cost[t]
    PROVE  CoveredBy(b, P, cost, c)
<1>. DEFINE T == Cardinality(RedeemThreads)
            n == Cardinality(P)
<1>1. T \in Nat /\ n \in Nat /\ n <= T
  BY Counts
<1>. HIDE DEF T, n
<1>2. c * (T - n) >= 0 /\ c * (T - n) \in Int
  <2>1. \A x \in Nat : c * x \in Nat
    OBVIOUS
  <2>2. T - n \in Nat
    BY <1>1
  <2>. QED  BY <2>1, <2>2
<1>3. b >= cost[t] - c * (T - n)
  BY <1>2
<1>. QED  BY <1>3 DEF CoveredBy, T, n

\* Whatever is pending, what is covered bounds the debt.
LEMMA CoveredIsBounded ==
    ASSUME NEW P \in SUBSET RedeemThreads, NEW cost, NEW c \in Nat,
           \A t \in P : cost[t] \in Nat, NEW b \in Int, CoveredBy(b, P, cost, c)
    PROVE  b >= -(c * (Cardinality(RedeemThreads) - 1))
<1>1. CASE P = {}
  BY <1>1 DEF CoveredBy
<1>2. CASE P # {}
  <2>. DEFINE T == Cardinality(RedeemThreads)
              n == Cardinality(P)
              x == c * (T - 1)
              y == c * (T - n)
  <2>1. PICK t \in P : b >= cost[t] - y
    BY <1>2 DEF CoveredBy
  <2>2. T \in Nat /\ n \in Nat /\ Cardinality(P \ {t}) = n - 1 /\ Cardinality(P \ {t}) \in Nat
    <3>1. P \ {t} \in SUBSET RedeemThreads
      OBVIOUS
    <3>. QED  BY <3>1, Counts
  <2>. HIDE DEF T, n
  <2>3. T - 1 \in Int /\ T - n \in Int /\ n - 1 \in Nat /\ T - 1 = (T - n) + (n - 1)
    BY <2>2
  <2>4. x = y + c * (n - 1) /\ c * (n - 1) \in Nat /\ x \in Int /\ y \in Int
    <3>1. \A k, m \in Int : c * (k + m) = c * k + c * m /\ c * k \in Int
      OBVIOUS
    <3>2. \A k \in Nat : c * k \in Nat
      OBVIOUS
    <3>. QED  BY <2>3, <3>1, <3>2
  <2>. HIDE DEF x, y
  <2>5. b >= -x
    BY <2>1, <2>4
  <2>. QED  BY <2>5 DEF x, T
<1>. QED  BY <1>1, <1>2

\* A pending redemption that is given up, or paid, leaves the rest covered.
LEMMA CoveredWithLess ==
    ASSUME NEW P \in SUBSET RedeemThreads, NEW cost, NEW c \in Nat, NEW t \in P,
           \A s \in P : cost[s] \in Nat /\ cost[s] <= c,
           NEW b \in Int, CoveredBy(b, P, cost, c)
    PROVE  /\ CoveredBy(b, P \ {t}, cost, c)
           /\ CoveredBy(b - cost[t], P \ {t}, cost, c)
<1>. DEFINE T == Cardinality(RedeemThreads)
            n == Cardinality(P)
            Q == P \ {t}
            x == c * (T - 1)
            y == c * (T - n)
            z == c * (T - Cardinality(Q))
<1>1. /\ T \in Nat /\ n \in Nat /\ Cardinality(Q) = n - 1
      /\ Q = {} => n = 1
  BY Counts
<1>2. x \in Int /\ y \in Int /\ z \in Int /\ z = y + c /\ (Q = {} => y = x)
  <2>. HIDE DEF T, n, Q
  <2>1. z = c * (T - (n - 1))
    BY <1>1
  <2>2. \A k, m \in Int : k * (m + 1) = k * m + k
    OBVIOUS
  <2>3. T - (n - 1) = (T - n) + 1 /\ T - n \in Int /\ T - 1 \in Int
    BY <1>1
  <2>4. z = y + c
    BY <2>1, <2>2, <2>3
  <2>5. x \in Int /\ y \in Int
    BY <2>3
  <2>. HIDE DEF x, y, z
  <2>6. z \in Int
    BY <2>4, <2>5
  <2>7. Q = {} => y = x
    BY <1>1 DEF x, y
  <2>. QED  BY <2>4, <2>5, <2>6, <2>7
<1>3. PICK s \in P : b >= cost[s] - y
  BY DEF CoveredBy
<1>4. /\ cost[s] \in Nat /\ cost[t] \in Nat /\ cost[s] <= c /\ cost[t] <= c
      /\ \A q \in Q : cost[q] \in Nat /\ cost[q] <= c
  OBVIOUS
<1>. HIDE DEF x, y, z, Q
<1>5. CASE Q = {}
  <2>1. s = t
    BY <1>5 DEF Q
  <2>2. b >= -x /\ b - cost[t] >= -x
    BY <1>2, <1>3, <1>4, <1>5, <2>1
  <2>. QED  BY <1>5, <2>2 DEF CoveredBy, x, Q
<1>6. CASE Q # {}
  <2>1. PICK q \in Q : s # t => q = s
    BY <1>6 DEF Q
  <2>2. b >= cost[q] - z /\ b - cost[t] >= cost[q] - z
    <3>1. CASE s = t
      BY <1>2, <1>3, <1>4, <3>1
    <3>2. CASE s # t
      BY <1>2, <1>3, <1>4, <2>1, <3>2
    <3>. QED  BY <3>1, <3>2
  <2>3. /\ \E p \in Q : b >= cost[p] - z
        /\ \E p \in Q : b - cost[t] >= cost[p] - z
    BY <2>2
  <2>. QED  BY <1>6, <2>3 DEF CoveredBy, z, Q
<1>. QED  BY <1>5, <1>6


MostOf(c) == \A d \in Costs : d <= c

LEMMA CostsAreCosts ==
    ASSUME LedgerShape
    PROVE  /\ \A c \in Costs : c \in Nat
           /\ \A u : Pending(u) \subseteq RedeemThreads
           /\ \A u : \A t \in Pending(u) : Costing[t] \in Costs
                                           /\ Costing[t] = redeeming[t].cost
  <1>1. \A c \in Costs : c \in Nat
    BY LedgerAssumption
  <1>2. ASSUME NEW u, NEW t \in Pending(u)
        PROVE  t \in RedeemThreads /\ redeeming[t].cost \in Costs
    BY DEF Pending, Redeeming
  <1>. QED  BY <1>1, <1>2 DEF Costing

\* A step in which the balances do not fall and what is pending stays so.
LEMMA DebtKept ==
    ASSUME LedgerShape, LedgerShape', DebtInv, redeemedAtOnce \subseteq redeemedAtOnce',
           \A u \in Redeemers : Balance(u)' >= Balance(u) /\ Pending(u)' = Pending(u),
           \A u \in Redeemers : \A t \in Pending(u) : redeeming'[t].cost = redeeming[t].cost
    PROVE  DebtInv'
<1>1. ASSUME NEW u \in Redeemers, NEW c \in Costs, MostOf(c)
      PROVE  CoveredBy(Balance(u), Pending(u), Costing, c)'
  <2>. DEFINE P == Pending(u)
              k == Costing
  <2>1. CoveredBy(Balance(u), P, k, c)
    BY <1>1 DEF DebtInv, MostOf
  <2>2. \A t \in P : Costing'[t] = k[t] /\ k[t] \in Int
    <3>1. \A t \in P : k[t] \in Costs /\ k[t] = redeeming[t].cost
      BY CostsAreCosts
    <3>2. \A t \in P : Costing'[t] = redeeming'[t].cost
      BY CostsAreCosts DEF Costing
    <3>. QED  BY <3>1, <3>2, CostsAreCosts
  <2>3. P \in SUBSET RedeemThreads /\ c \in Nat
    BY CostsAreCosts
  <2>4. Balance(u) \in Int /\ Balance(u)' \in Int /\ Balance(u) <= Balance(u)'
    BY BalanceIsInteger
  <2>5. Pending(u)' = P
    OBVIOUS
  <2>. HIDE DEF P, k
  <2>6. CoveredBy(Balance(u)', P, Costing', c)
    BY <2>1, <2>2, <2>3, <2>4, CoveredWithMore
  <2>. QED  BY <2>5, <2>6
<1>2. ASSUME NEW u \in Redeemers \ redeemedAtOnce'
      PROVE  /\ Balance(u)' >= 0
             /\ \A t \in Pending(u)' : Balance(u)' >= redeeming'[t].cost
  <2>1. Balance(u) >= 0 /\ \A t \in Pending(u) : Balance(u) >= redeeming[t].cost
    BY DEF DebtInv
  <2>2. Balance(u) \in Int /\ Balance(u)' \in Int /\ Balance(u) <= Balance(u)'
    BY BalanceIsInteger
  <2>3. \A t \in Pending(u) : redeeming[t].cost \in Nat
    BY CostsAreCosts
  <2>. QED  BY <2>1, <2>2, <2>3
<1>. QED  BY <1>1, <1>2 DEF DebtInv, MostOf


Checked(t, u) ==
    redeeming[t] \in Redeeming /\ redeeming[t].phase = "checked" /\ redeeming[t].user = u

\* A step of one thread changes the pending redemptions by its own at most.
LEMMA PendingStep ==
    ASSUME NEW t \in RedeemThreads,
           \A s \in RedeemThreads \ {t} : redeeming'[s] = redeeming[s], NEW u
    PROVE  /\ t \in Pending(u) <=> Checked(t, u)
           /\ Checked(t, u)' => Pending(u)' = Pending(u) \cup {t}
           /\ ~Checked(t, u)' => Pending(u)' = Pending(u) \ {t}
<1>1. \A s : s \in Pending(u) <=> s \in RedeemThreads /\ Checked(s, u)
  BY DEF Pending, Checked
<1>2. \A s : s \in Pending(u)' <=> s \in RedeemThreads /\ Checked(s, u)'
  BY DEF Pending, Checked
<1>3. \A s \in RedeemThreads \ {t} : Checked(s, u)' <=> Checked(s, u)
  BY DEF Checked
<1>4. Checked(t, u)' => Pending(u)' = Pending(u) \cup {t}
  BY <1>1, <1>2, <1>3
<1>5. ~Checked(t, u)' => Pending(u)' = Pending(u) \ {t}
  BY <1>1, <1>2, <1>3
<1>. QED  BY <1>1, <1>4, <1>5

LEMMA DebtStep ==
    ASSUME LedgerInv, [LedgerNext]_ledgerVars
    PROVE  DebtInv'
<1>0. LedgerShape /\ LedgerShape' /\ DebtInv /\ OverlapsNoted
  BY LedgerShapeStep DEF LedgerInv
<1>1. ASSUME UNCHANGED <<ledger, redeeming>>, redeemedAtOnce' = redeemedAtOnce
      PROVE  DebtInv'
  <2>1. \A u \in Redeemers : Balance(u)' = Balance(u) /\ Pending(u)' = Pending(u)
                             /\ Balance(u) \in Int
    BY <1>0, <1>1, BalanceIsInteger DEF Balance, Pending
  <2>2. \A u \in Redeemers : Balance(u)' >= Balance(u)
    BY <2>1
  <2>. QED  BY <1>0, <1>1, <2>1, <2>2, DebtKept
<1>2. ASSUME NEW u \in Redeemers, Earn(u)
      PROVE  DebtInv'
  <2>1. PICK e \in Entry : e = [user |-> u, points |-> rule] /\ rule \in Nat
    <3>1. rule \in Nat
      <4>1. rule \in Points \cup {0}
        BY <1>0 DEF LedgerShape
      <4>2. \A p \in Points \cup {0} : p \in Nat
        BY LedgerAssumption
      <4>. QED  BY <4>1, <4>2
    <3>2. [user |-> u, points |-> rule] \in Entry
      BY <3>1 DEF Entry
    <3>. QED  BY <3>1, <3>2
  <2>2. ledger' = Append(ledger, e) /\ UNCHANGED <<redeeming, redeemedAtOnce>>
    BY <1>2, <2>1 DEF Earn
  <2>3. \A v \in Redeemers : /\ Balance(v)' = Balance(v) + Share(v, e)
                             /\ Balance(v) \in Int /\ Share(v, e) \in Nat
    <3>1. \A v \in Redeemers : Share(v, e) \in Nat
      BY <2>1 DEF Share
    <3>. QED  BY <1>0, <2>2, <3>1, BalanceGrows, BalanceIsInteger
  <2>4. \A v \in Redeemers : Balance(v)' >= Balance(v)
    BY <2>3
  <2>5. \A v \in Redeemers : Pending(v)' = Pending(v)
    BY <2>2 DEF Pending
  <2>. QED  BY <1>0, <2>2, <2>4, <2>5, DebtKept
<1>3. ASSUME NEW t \in RedeemThreads, NEW u \in Redeemers, NEW w \in Rewards,
             ReadReward(t, u, w)
      PROVE  DebtInv'
  <2>1. /\ redeeming[t] = NotRedeeming /\ redeeming'[t].phase = "read"
        /\ \A s \in RedeemThreads \ {t} : redeeming'[s] = redeeming[s]
        /\ ledger' = ledger /\ redeemedAtOnce \subseteq redeemedAtOnce'
    BY <1>0, <1>3 DEF ReadReward, LedgerShape
  <2>2. \A v \in Redeemers : Pending(v)' = Pending(v) /\ t \notin Pending(v)
    <3>1. \A v \in Redeemers : ~Checked(t, v) /\ ~Checked(t, v)'
      BY <2>1, NotRedeemingIsNot DEF Checked
    <3>2. \A v \in Redeemers : Pending(v)' = Pending(v) \ {t} /\ t \notin Pending(v)
      BY <2>1, <3>1, PendingStep
    <3>. QED  BY <3>2
  <2>3. ledger' = ledger
    BY <2>1
  <2>4. \A v \in Redeemers : Balance(v)' >= Balance(v) /\ Pending(v)' = Pending(v)
    <3>1. \A v \in Redeemers : Balance(v)' = Balance(v)
      BY <2>3 DEF Balance
    <3>2. \A v \in Redeemers : Balance(v) \in Int
      BY <1>0, BalanceIsInteger
    <3>3. \A v \in Redeemers : Balance(v)' >= Balance(v)
      BY <3>1, <3>2
    <3>. QED  BY <2>2, <3>3
  <2>5. \A v \in Redeemers : \A s \in Pending(v) : redeeming'[s].cost = redeeming[s].cost
    BY <1>0, <2>1, <2>2, CostsAreCosts
  <2>6. redeemedAtOnce \subseteq redeemedAtOnce'
    BY <2>1
  <2>. QED  BY <1>0, <2>4, <2>5, <2>6, DebtKept
<1>4. ASSUME NEW t \in RedeemThreads, CheckBalance(t),
             redeeming'[t] = [redeeming[t] EXCEPT !.phase = "checked"],
             Affordable(Balance(redeeming[t].user), redeeming[t].cost)
      PROVE  DebtInv'
  <2>0. PICK r \in Redeeming : r = redeeming[t] /\ r.phase = "read"
    BY <1>0, <1>4 DEF CheckBalance, NotRedeeming, LedgerShape
  <2>1. /\ redeeming'[t] = [r EXCEPT !.phase = "checked"]
        /\ [r EXCEPT !.phase = "checked"] \in Redeeming
        /\ redeeming'[t].phase = "checked" /\ redeeming'[t].user = r.user
        /\ redeeming'[t].cost = r.cost /\ r.cost \in Costs /\ r.user \in Redeemers
    BY <1>4, <2>0 DEF Redeeming
  <2>2. /\ \A s \in RedeemThreads \ {t} : redeeming'[s] = redeeming[s]
        /\ ledger' = ledger /\ redeemedAtOnce' = redeemedAtOnce
    BY <1>0, <1>4 DEF CheckBalance, LedgerShape
  <2>3. \A v \in Redeemers : Balance(v)' = Balance(v) /\ Balance(v) \in Int
    BY <1>0, <2>2, BalanceIsInteger DEF Balance
  <2>. DEFINE u == r.user
  <2>5. ASSUME NEW v \in Redeemers, v # u
        PROVE  Pending(v)' = Pending(v) /\ t \notin Pending(v)
    <3>1. ~Checked(t, v) /\ ~Checked(t, v)'
      BY <2>0, <2>1, <2>5 DEF Checked
    <3>. QED  BY <2>2, <3>1, PendingStep
  <2>6. Pending(u)' = Pending(u) \cup {t} /\ t \notin Pending(u)
    <3>1. ~Checked(t, u) /\ Checked(t, u)'
      BY <2>0, <2>1 DEF Checked
    <3>. QED  BY <2>2, <3>1, PendingStep
  <2>4. Balance(u) >= r.cost
    BY <1>4, <2>0 DEF Affordable
  <2>. HIDE DEF u
  <2>7. ASSUME NEW v \in Redeemers, NEW c \in Costs, MostOf(c)
        PROVE  CoveredBy(Balance(v), Pending(v), Costing, c)'
    <3>0. c \in Nat /\ Pending(v)' \in SUBSET RedeemThreads
      BY <1>0, CostsAreCosts DEF Pending
    <3>1. CASE v = u
      <4>. DEFINE P == Pending(v)'
                  b == Balance(v)'
      <4>1. t \in P /\ Costing'[t] = r.cost /\ r.cost \in Int
        <5>1. t \in P /\ Costing'[t] = r.cost
          BY <2>1, <2>6, <3>1 DEF Costing
        <5>. QED  BY <1>0, <2>1, <5>1, CostsAreCosts
      <4>2. b \in Int /\ b >= Costing'[t] /\ P \in SUBSET RedeemThreads
        BY <2>3, <2>4, <3>0, <3>1, <4>1
      <4>. HIDE DEF P, b
      <4>3. CoveredBy(b, P, Costing', c)
        BY <3>0, <4>1, <4>2, CoveredByOne
      <4>. QED  BY <4>3 DEF P, b
    <3>2. CASE v # u
      <4>. DEFINE P == Pending(v)
                  b == Balance(v)
                  k == Costing
      <4>1. CoveredBy(b, P, k, c)
        BY <1>0, <2>7 DEF DebtInv, MostOf
      <4>2. \A s \in P : Costing'[s] = k[s] /\ k[s] \in Int
        <5>1. \A s \in P : s \in RedeemThreads \ {t} /\ k[s] \in Costs
                           /\ k[s] = redeeming[s].cost
          BY <1>0, <2>5, <3>2, CostsAreCosts
        <5>2. \A s \in P : Costing'[s] = k[s]
          BY <2>2, <5>1 DEF Costing
        <5>. QED  BY <1>0, <5>1, <5>2, CostsAreCosts
      <4>3. Pending(v)' = P /\ Balance(v)' = b /\ b \in Int /\ b <= b
        BY <2>3, <2>5, <3>2
      <4>. HIDE DEF P, b, k
      <4>4. CoveredBy(b, P, Costing', c)
        BY <3>0, <4>1, <4>2, <4>3, CoveredWithMore
      <4>. QED  BY <4>3, <4>4
    <3>. QED  BY <3>1, <3>2
  <2>8. ASSUME NEW v \in Redeemers \ redeemedAtOnce'
        PROVE  /\ Balance(v)' >= 0
               /\ \A s \in Pending(v)' : Balance(v)' >= redeeming'[s].cost
    <3>1. Balance(v) >= 0 /\ \A s \in Pending(v) : Balance(v) >= redeeming[s].cost
      BY <1>0, <2>2 DEF DebtInv
    <3>2. \A s \in Pending(v) : s # t /\ s \in RedeemThreads
      BY <2>5, <2>6, CostsAreCosts, <1>0
    <3>3. CASE v = u
      BY <2>1, <2>2, <2>3, <2>4, <2>6, <3>1, <3>2, <3>3
    <3>4. CASE v # u
      BY <2>2, <2>3, <2>5, <3>1, <3>2, <3>4
    <3>. QED  BY <3>3, <3>4
  <2>. QED  BY <2>7, <2>8 DEF DebtInv, MostOf
<1>5. ASSUME NEW t \in RedeemThreads, redeeming[t] # NotRedeeming,
             redeeming'[t] = NotRedeeming, redeemedAtOnce' = redeemedAtOnce,
             \A s \in RedeemThreads \ {t} : redeeming'[s] = redeeming[s],
             \/ ledger' = ledger
             \/ redeeming[t].phase = "checked" /\ ledger' = Append(ledger, Payment(redeeming[t]))
      PROVE  DebtInv'
  <2>1. PICK r \in Redeeming : r = redeeming[t]
    BY <1>0, <1>5 DEF LedgerShape
  <2>. DEFINE u == r.user
  <2>2. u \in Redeemers /\ r.cost \in Costs /\ r.cost \in Nat
    <3>1. u \in Redeemers /\ r.cost \in Costs
      BY DEF Redeeming
    <3>. QED  BY <1>0, <3>1, CostsAreCosts
  <2>3. \A v \in Redeemers : /\ Pending(v)' = Pending(v) \ {t}
                             /\ t \in Pending(v) <=> v = u /\ r.phase = "checked"
    <3>1. \A v \in Redeemers : ~Checked(t, v)' /\ (Checked(t, v) <=> v = u /\ r.phase = "checked")
      BY <1>5, <2>1, NotRedeemingIsNot DEF Checked
    <3>. QED  BY <1>5, <3>1, PendingStep
  <2>. HIDE DEF u
  <2>4. ASSUME NEW v \in Redeemers
        PROVE  /\ Balance(v) \in Int /\ Balance(v)' \in Int
               /\ \/ Balance(v)' = Balance(v)
                  \/ v = u /\ t \in Pending(v) /\ Balance(v)' = Balance(v) - r.cost
    <3>1. Balance(v) \in Int /\ Balance(v)' \in Int
      BY <1>0, BalanceIsInteger
    <3>2. CASE ledger' = ledger
      BY <3>1, <3>2 DEF Balance
    <3>3. CASE redeeming[t].phase = "checked" /\ ledger' = Append(ledger, Payment(redeeming[t]))
      <4>0. -r.cost \in Int
        BY <2>2
      <4>1. PICK e \in Entry : e = [user |-> u, points |-> -r.cost]
        BY <2>2, <4>0 DEF Entry
      <4>2. ledger' = Append(ledger, e)
        BY <2>1, <3>3, <4>1 DEF Payment, u
      <4>3. Balance(v)' = Balance(v) + Share(v, e)
        BY <1>0, <4>2, BalanceGrows
      <4>4. Share(v, e) = IF v = u THEN -r.cost ELSE 0
        BY <4>1 DEF Share
      <4>5. v = u => t \in Pending(v)
        BY <2>1, <2>3, <3>3
      <4>. QED  BY <2>2, <3>1, <4>3, <4>4, <4>5
    <3>. QED  BY <1>5, <3>1, <3>2, <3>3
  <2>5. ASSUME NEW v \in Redeemers, NEW c \in Costs, MostOf(c)
        PROVE  CoveredBy(Balance(v), Pending(v), Costing, c)'
    <3>. DEFINE P == Pending(v)
                b == Balance(v)
                k == Costing
                Q == P \ {t}
    <3>1. CoveredBy(b, P, k, c)
      BY <1>0, <2>5 DEF DebtInv, MostOf
    <3>2. /\ c \in Nat /\ P \in SUBSET RedeemThreads
          /\ \A s \in P : k[s] \in Nat /\ k[s] <= c /\ k[s] = redeeming[s].cost
      <4>1. \A s \in P : k[s] \in Costs /\ k[s] = redeeming[s].cost
        BY <1>0, CostsAreCosts
      <4>2. c \in Nat /\ P \in SUBSET RedeemThreads /\ \A d \in Costs : d \in Nat
        BY <1>0, CostsAreCosts
      <4>. HIDE DEF P, k
      <4>. QED  BY <2>5, <4>1, <4>2 DEF MostOf
    <3>3. \A s \in Q : Costing'[s] = k[s]
      <4>1. \A s \in Q : s \in RedeemThreads \ {t}
        BY <3>2
      <4>. QED  BY <1>5, <4>1 DEF Costing
    <3>4. Pending(v)' = Q
      BY <2>3
    <3>5. b \in Int /\ Balance(v)' \in Int
      BY <2>4
    <3>6. t \in P => k[t] = r.cost
      BY <2>1, <3>2
    <3>7. Balance(v)' = b \/ (t \in P /\ Balance(v)' = b - k[t])
      BY <2>4, <3>6
    <3>. HIDE DEF P, b, k
    <3>8. CoveredBy(Balance(v)', Q, k, c)
      <4>1. CASE t \in P
        BY <3>1, <3>2, <3>5, <3>7, <4>1, CoveredWithLess
      <4>2. CASE t \notin P
        <5>1. Q = P /\ Balance(v)' = b
          BY <3>7, <4>2
        <5>. QED  BY <3>1, <5>1
      <4>. QED  BY <4>1, <4>2
    <3>9. \A s \in Q : Costing'[s] = k[s] /\ k[s] \in Int
      BY <3>2, <3>3
    <3>10. Q \in SUBSET RedeemThreads /\ Balance(v)' <= Balance(v)'
      BY <3>2, <3>5
    <3>. HIDE DEF Q
    <3>11. CoveredBy(Balance(v)', Q, Costing', c)
      BY <3>2, <3>5, <3>8, <3>9, <3>10, CoveredWithMore
    <3>. QED  BY <3>4, <3>11
  <2>6. ASSUME NEW v \in Redeemers \ redeemedAtOnce'
        PROVE  /\ Balance(v)' >= 0
               /\ \A s \in Pending(v)' : Balance(v)' >= redeeming'[s].cost
    <3>1. Balance(v) >= 0 /\ \A s \in Pending(v) : Balance(v) >= redeeming[s].cost
      BY <1>0, <1>5 DEF DebtInv
    <3>2. CASE Balance(v)' = Balance(v)
      <4>1. \A s \in Pending(v)' : s \in Pending(v) /\ s \in RedeemThreads \ {t}
        BY <1>0, <2>3, CostsAreCosts
      <4>. QED  BY <1>5, <3>1, <3>2, <4>1
    <3>3. CASE v = u /\ t \in Pending(v) /\ Balance(v)' = Balance(v) - r.cost
      <4>1. Balance(v) >= r.cost
        BY <2>1, <3>1, <3>3
      <4>2. Balance(v)' >= 0
        BY <2>2, <2>4, <3>3, <4>1
      <4>3. Pending(v)' = {}
        <5>. SUFFICES ASSUME NEW s \in Pending(v)'  PROVE FALSE
          OBVIOUS
        <5>1. s \in Pending(v) /\ s # t /\ s \in RedeemThreads
          BY <1>0, <2>3, CostsAreCosts
        <5>2. Active(s) /\ Active(t) /\ redeeming[s].user = v /\ redeeming[t].user = v
          BY <3>3, <5>1 DEF Pending, Active
        <5>3. v \in redeemedAtOnce
          BY <1>0, <5>1, <5>2 DEF OverlapsNoted
        <5>. QED  BY <1>5, <2>6, <5>3
      <4>. QED  BY <4>2, <4>3
    <3>. QED  BY <2>4, <3>2, <3>3
  <2>. QED  BY <2>5, <2>6 DEF DebtInv, MostOf
<1>6. ASSUME NEW t \in RedeemThreads, CheckBalance(t)
      PROVE  DebtInv'
  <2>1. /\ redeeming[t] # NotRedeeming /\ ledger' = ledger /\ redeemedAtOnce' = redeemedAtOnce
        /\ \A s \in RedeemThreads \ {t} : redeeming'[s] = redeeming[s]
    BY <1>0, <1>6 DEF CheckBalance, LedgerShape, NotRedeeming
  <2>2. \/ /\ redeeming'[t] = [redeeming[t] EXCEPT !.phase = "checked"]
           /\ Affordable(Balance(redeeming[t].user), redeeming[t].cost)
        \/ redeeming'[t] = NotRedeeming
    BY <1>0, <1>6 DEF CheckBalance, LedgerShape
  <2>. QED  BY <1>4, <1>5, <1>6, <2>1, <2>2
<1>7. ASSUME NEW t \in RedeemThreads, CommitRedemption(t)
      PROVE  DebtInv'
  <2>1. /\ redeeming[t] # NotRedeeming /\ redeeming[t].phase = "checked"
        /\ redeeming'[t] = NotRedeeming /\ redeemedAtOnce' = redeemedAtOnce
        /\ \A s \in RedeemThreads \ {t} : redeeming'[s] = redeeming[s]
        /\ ledger' = Append(ledger, Payment(redeeming[t]))
    BY <1>0, <1>7 DEF CommitRedemption, LedgerShape, NotRedeeming
  <2>. QED  BY <1>5, <2>1
<1>8. ASSUME NEW t \in RedeemThreads, AbortRedemption(t)
      PROVE  DebtInv'
  <2>1. /\ redeeming[t] # NotRedeeming /\ ledger' = ledger
        /\ redeeming'[t] = NotRedeeming /\ redeemedAtOnce' = redeemedAtOnce
        /\ \A s \in RedeemThreads \ {t} : redeeming'[s] = redeeming[s]
    BY <1>0, <1>8 DEF AbortRedemption, LedgerShape
  <2>. QED  BY <1>5, <2>1
<1>9. CASE UNCHANGED ledgerVars
  BY <1>1, <1>9 DEF ledgerVars
<1>10. ASSUME NEW p \in Points, CreateRule(p)
       PROVE  DebtInv'
  BY <1>1, <1>10 DEF CreateRule
<1>11. ASSUME NEW w \in Rewards, NEW c \in Costs, NEW s \in Stocks, CreateReward(w, c, s)
       PROVE  DebtInv'
  BY <1>1, <1>11 DEF CreateReward
<1>. QED  BY <1>2, <1>3, <1>6, <1>7, <1>8, <1>9, <1>10, <1>11 DEF LedgerNext

\* A user who redeems one reward at a time is never in debt, one who redeems
\* several at once owes at most one for each further thread, and the stock of
\* a reward explains what was sold of it, for any number of users, rewards,
\* threads and entries of the ledger (rewards.py:104-135).
THEOREM RedemptionsCorrect == LedgerSpec => []RedemptionsAreCovered
<1>1. LedgerInit => LedgerInv
  <2>. SUFFICES ASSUME LedgerInit  PROVE LedgerInv
    OBVIOUS
  <2>1. LedgerShape
    BY DEF LedgerInit, LedgerShape
  <2>2. \A t \in RedeemThreads : ~Active(t)
    BY NotRedeemingIsNot DEF LedgerInit, Active
  <2>3. OffersExplained /\ ReadsExplained /\ OverlapsNoted
    BY <2>2 DEF LedgerInit, OffersExplained, ReadsExplained, OverlapsNoted, RedemptionsOf
  <2>4. DebtInv
    <3>1. \A u : Pending(u) = {}
      BY <2>2 DEF Pending, Active
    <3>2. \A u : Balance(u) = 0
      <4>1. ledger \in Seq(Entry) /\ Len(ledger) = 0
        BY DEF LedgerInit
      <4>. QED  BY <4>1, SumsDef DEF Balance
    <3>3. \A c \in Costs : 0 >= -(c * (Cardinality(RedeemThreads) - 1))
      <4>1. Cardinality(RedeemThreads) - 1 \in Nat
        BY LedgerAssumption, Counts
      <4>2. \A c, x \in Nat : 0 >= -(c * x)
        <5>1. \A c, x \in Nat : c * x \in Nat
          OBVIOUS
        <5>. QED  BY <5>1
      <4>3. \A c \in Costs : c \in Nat
        BY LedgerAssumption
      <4>. QED  BY <4>1, <4>2, <4>3
    <3>. QED  BY <3>1, <3>2, <3>3 DEF DebtInv, CoveredBy
  <2>. QED  BY <2>1, <2>3, <2>4 DEF LedgerInv
<1>2. LedgerInv /\ [LedgerNext]_ledgerVars => LedgerInv'
  BY LedgerShapeStep, StockStep, DebtStep DEF LedgerInv
<1>3. LedgerInv => RedemptionsAreCovered
  <2>. SUFFICES ASSUME LedgerInv  PROVE DebtIsBounded /\ StockIsExplained
    BY DEF RedemptionsAreCovered
  <2>1. ASSUME NEW u \in Redeemers, NEW c \in Costs, MostOf(c)
        PROVE  Balance(u) >= IF u \in redeemedAtOnce
                             THEN -c * (Cardinality(RedeemThreads) - 1) ELSE 0
    <3>. DEFINE x == c * (Cardinality(RedeemThreads) - 1)
    <3>1. Balance(u) \in Int /\ CoveredBy(Balance(u), Pending(u), Costing, c)
          /\ (u \notin redeemedAtOnce => Balance(u) >= 0)
      BY <2>1, BalanceIsInteger DEF LedgerInv, DebtInv, MostOf
    <3>2. /\ c \in Nat /\ Pending(u) \in SUBSET RedeemThreads
          /\ \A t \in Pending(u) : Costing[t] \in Nat
      BY CostsAreCosts DEF LedgerInv
    <3>3. Balance(u) >= -x
      BY <3>1, <3>2, CoveredIsBounded
    <3>. QED  BY <3>1, <3>3
  <2>2. DebtIsBounded
    BY <2>1 DEF DebtIsBounded, MostOf
  <2>3. StockIsExplained
    BY DEF StockIsExplained, LedgerInv, OffersExplained, Explained
  <2>. QED  BY <2>2, <2>3
<1>. QED  BY <1>1, <1>2, <1>3, PTL DEF LedgerSpec


-----------------------------------------------------------------------------
(* Complaints.  What a thread read cannot be undone by the others, because *)
(* notifications are only inserted; and while nobody else updates the      *)
(* complaint the row is still the one it read.                             *)

Told(c, s) == <<c, s>> \in notification

\* The statuses from which a status may be reached.
Before(s) == {r \in ComplaintStatus : s \in COMPLAINT_TRANSITIONS[r]}

Update == [phase : {"update"}, complaint : Complaint, to : ComplaintStatus, notes : BOOLEAN]

RowType ==
    /\ status \in [Complaint -> ComplaintStatus \cup {NoRow}]
    /\ resolvedAt \in [Complaint -> BOOLEAN]
    /\ notification \subseteq Complaint \X ComplaintStatus
    /\ thread \in [Threads -> Update \cup {NotUpdating}]

Busy(t, c) == thread[t] \in Update /\ thread[t].complaint = c

\* Of every status but the first the reporter was told, and before that of one
\* that leads to it.
Preceded(c, s) == s # "REPORTED" => \E r \in Before(s) : r = "REPORTED" \/ Told(c, r)

StoryInv ==
    \A c \in Complaint :
        /\ status[c] \notin {NoRow, "REPORTED"} => Told(c, status[c])
        /\ \A s \in ComplaintStatus : Told(c, s) => Preceded(c, s)
        /\ \A s \in ComplaintStatus \ {"REPORTED"} : Told(c, s) <=> <<c, s>> \in logged
        /\ \A t \in Threads : Busy(t, c) => /\ thread[t].to # "REPORTED"
                                            /\ Preceded(c, thread[t].to)

ComplaintInv == RowType /\ StoryInv

LEMMA TransitionFacts ==
    /\ COMPLAINT_TRANSITIONS \in [ComplaintStatus -> SUBSET ComplaintStatus]
    /\ \A s \in ComplaintStatus : "REPORTED" \notin COMPLAINT_TRANSITIONS[s]
    /\ COMPLAINT_TRANSITIONS["RESOLVED"] = {}
    /\ Before("UNDER_REVIEW") = {"REPORTED"}
    /\ Before("ASSIGNED") = {"UNDER_REVIEW"}
    /\ Before("IN_PROGRESS") = {"ASSIGNED"}
    /\ Before("RESOLVED") = {"IN_PROGRESS"}
BY DEF COMPLAINT_TRANSITIONS, ComplaintStatus, Before

LEMMA IdleIsNoUpdate == NotUpdating \notin Update
BY DEF NotUpdating, Update

LEMMA RowTypeStep ==
    ASSUME RowType, [ComplaintNext]_complaintVars
    PROVE  RowType'
<1>. USE DEF RowType
<1>1. ASSUME NEW c \in Complaint, ReportComplaint(c)
      PROVE  RowType'
  BY <1>1 DEF ReportComplaint, ComplaintStatus
<1>2. ASSUME NEW t \in Threads, NEW c \in Complaint, NEW s \in ComplaintStatus,
             NEW n \in BOOLEAN, ReadComplaint(t, c, s, n)
      PROVE  RowType'
  <2>1. [phase |-> "update", complaint |-> c, to |-> s, notes |-> n] \in Update
    BY DEF Update
  <2>. QED  BY <1>2, <2>1 DEF ReadComplaint
<1>3. ASSUME NEW t \in Threads, CommitStatus(t)
      PROVE  RowType'
  <2>1. thread[t] \in Update
    BY <1>3 DEF CommitStatus, NotUpdating
  <2>2. thread[t].complaint \in Complaint /\ thread[t].to \in ComplaintStatus
    BY <2>1 DEF Update
  <2>3. resolvedAt' \in [Complaint -> BOOLEAN]
    BY <1>3, <2>2 DEF CommitStatus
  <2>. QED  BY <1>3, <2>2, <2>3 DEF CommitStatus
<1>4. CASE \/ \E t \in Threads : Abort(t)
           \/ \E n \in unread : MarkRead(n)
           \/ UNCHANGED complaintVars
  BY <1>4 DEF Abort, MarkRead, complaintVars
<1>. QED  BY <1>1, <1>2, <1>3, <1>4 DEF ComplaintNext

LEMMA StoryStep ==
    ASSUME ComplaintInv, [ComplaintNext]_complaintVars
    PROVE  StoryInv'
<1>. USE DEF ComplaintInv
<1>1. RowType'
  BY RowTypeStep
<1>2. ASSUME NEW c \in Complaint, ReportComplaint(c)
      PROVE  StoryInv'
  BY <1>2, <1>1 DEF ReportComplaint, StoryInv, RowType, Told, Preceded, Busy, NoRow
<1>3. ASSUME NEW t \in Threads, NEW c \in Complaint, NEW s \in ComplaintStatus,
             NEW n \in BOOLEAN, ReadComplaint(t, c, s, n)
      PROVE  StoryInv'
  <2>1. /\ s # "REPORTED" /\ status[c] \in Before(s)
        /\ status[c] = "REPORTED" \/ Told(c, status[c])
    BY <1>3, TransitionFacts DEF ReadComplaint, AllowedStatus, Before, RowType, StoryInv
  <2>2. Preceded(c, s)
    BY <2>1 DEF Preceded
  <2>3. /\ thread'[t].to = s /\ thread'[t].complaint = c
        /\ \A o \in Threads \ {t} : thread'[o] = thread[o]
        /\ UNCHANGED <<status, notification, logged>>
    BY <1>3 DEF ReadComplaint, RowType
  <2>4. \A o \in Threads, d \in Complaint : Busy(o, d)' =>
           \/ Busy(o, d) /\ thread'[o] = thread[o]
           \/ d = c /\ thread'[o].to = s
    BY <2>3 DEF Busy
  <2>. QED  BY <2>1, <2>2, <2>3, <2>4 DEF StoryInv, Told, Preceded
<1>4. ASSUME NEW t \in Threads, CommitStatus(t)
      PROVE  StoryInv'
  <2>. DEFINE d == thread[t].complaint
              s == thread[t].to
  <2>1. thread[t] \in Update /\ Busy(t, d) /\ d \in Complaint /\ s \in ComplaintStatus
    BY <1>4 DEF CommitStatus, RowType, NotUpdating, Update, Busy
  <2>2. s # "REPORTED" /\ Preceded(d, s)
    BY <2>1 DEF StoryInv
  <2>3. /\ status' = [status EXCEPT ![d] = s]
        /\ notification' = notification \cup {<<d, s>>}
        /\ logged' = logged \cup {<<d, s>>}
        /\ thread' = [thread EXCEPT ![t] = NotUpdating]
    BY <1>4 DEF CommitStatus
  <2>4. ASSUME NEW c \in Complaint, NEW r \in ComplaintStatus
        PROVE  /\ Told(c, r)' <=> Told(c, r) \/ (c = d /\ r = s)
               /\ (<<c, r>> \in logged)' <=> <<c, r>> \in logged \/ (c = d /\ r = s)
    BY <2>3 DEF Told
  <2>5. ASSUME NEW c \in Complaint, NEW r \in ComplaintStatus, Preceded(c, r)
        PROVE  Preceded(c, r)'
    BY <2>4, <2>5 DEF Preceded, Before
  <2>6. ASSUME NEW c \in Complaint
        PROVE  (status[c] \notin {NoRow, "REPORTED"} => Told(c, status[c]))'
    BY <2>1, <2>3, <2>4 DEF StoryInv, RowType
  <2>7. ASSUME NEW c \in Complaint, NEW r \in ComplaintStatus, Told(c, r)'
        PROVE  Preceded(c, r)'
    BY <2>2, <2>4, <2>5, <2>7 DEF StoryInv
  <2>8. ASSUME NEW c \in Complaint, NEW o \in Threads, Busy(o, c)'
        PROVE  /\ thread'[o].to # "REPORTED"
               /\ Preceded(c, thread[o].to)'
    <3>1. o # t /\ thread'[o] = thread[o] /\ Busy(o, c)
      BY <2>3, <2>8, IdleIsNoUpdate DEF RowType, Busy
    <3>2. thread[o].to \in ComplaintStatus
      BY <3>1 DEF Busy, Update
    <3>. QED  BY <3>1, <3>2, <2>5 DEF StoryInv
  <2>. QED  BY <2>4, <2>6, <2>7, <2>8 DEF StoryInv
<1>5. ASSUME NEW t \in Threads, Abort(t)
      PROVE  StoryInv'
  <2>1. \A o \in Threads, c \in Complaint : Busy(o, c)' => Busy(o, c) /\ thread'[o] = thread[o]
    BY <1>5, IdleIsNoUpdate DEF Abort, Busy, RowType
  <2>2. UNCHANGED <<status, notification, logged>>
    BY <1>5 DEF Abort
  <2>. QED  BY <2>1, <2>2 DEF StoryInv, Told, Preceded
<1>6. CASE (\E n \in unread : MarkRead(n)) \/ UNCHANGED complaintVars
  BY <1>6 DEF MarkRead, complaintVars, StoryInv, Told, Preceded, Busy
<1>. QED  BY <1>2, <1>3, <1>4, <1>5, <1>6 DEF ComplaintNext

LEMMA ComplaintInvInit == ComplaintInit => ComplaintInv
BY IdleIsNoUpdate DEF ComplaintInit, ComplaintInv, RowType, StoryInv, Told, Busy, NoRow

LEMMA ComplaintInvAlways == ComplaintSpec => []ComplaintInv
<1>1. ComplaintInv /\ [ComplaintNext]_complaintVars => ComplaintInv'
  BY RowTypeStep, StoryStep DEF ComplaintInv
<1>. QED  BY ComplaintInvInit, <1>1, PTL DEF ComplaintSpec

\* However many updates race, the reporter is told of every stage before the
\* next and of the status the complaint is in, and the audit log agrees
\* (complaints.py:148-176).
THEOREM StagesCorrect == ComplaintSpec => []StagesAreTold
<1>1. ComplaintInv => StagesAreTold
  <2>. SUFFICES ASSUME ComplaintInv, NEW c \in Complaint
                PROVE  /\ \A i \in 2..Len(Stages) :
                             Told(c, Stages[i]) => Told(c, Stages[i - 1])
                       /\ status[c] \notin {NoRow, "REPORTED"} => Told(c, status[c])
                       /\ \A s \in ComplaintStatus \ {"REPORTED"} :
                             Told(c, s) <=> <<c, s>> \in logged
    BY DEF StagesAreTold, Told
  <2>1. /\ Told(c, "ASSIGNED") => Told(c, "UNDER_REVIEW")
        /\ Told(c, "IN_PROGRESS") => Told(c, "ASSIGNED")
        /\ Told(c, "RESOLVED") => Told(c, "IN_PROGRESS")
    BY TransitionFacts DEF ComplaintInv, StoryInv, Preceded, ComplaintStatus
  <2>2. \A i \in 2..Len(Stages) : i = 2 \/ i = 3 \/ i = 4
    BY DEF Stages
  <2>3. /\ Stages[1] = "UNDER_REVIEW" /\ Stages[2] = "ASSIGNED"
        /\ Stages[3] = "IN_PROGRESS" /\ Stages[4] = "RESOLVED"
    BY DEF Stages
  <2>4. \A i \in 2..Len(Stages) : Told(c, Stages[i]) => Told(c, Stages[i - 1])
    BY <2>1, <2>2, <2>3
  <2>. QED  BY <2>4 DEF ComplaintInv, StoryInv
<1>. QED  BY ComplaintInvAlways, <1>1, PTL

-----------------------------------------------------------------------------
(* The date of a resolution.                                               *)

\* A complaint that no two updates ever shared has at most one under way, and
\* its row is still the one that update checked.
AloneInv ==
    \A c \in Complaint : c \notin overlapped =>
        \A t \in Threads : Busy(t, c) =>
            /\ status[c] \in ComplaintStatus
            /\ thread[t].to \in COMPLAINT_TRANSITIONS[status[c]]
            /\ \A o \in Threads \ {t} : ~Busy(o, c)

DateInv == AloneInv /\ ResolutionIsDated

LEMMA DateStep ==
    ASSUME ComplaintInv, DateInv, [ComplaintNext]_complaintVars
    PROVE  DateInv'
<1>. USE DEF ComplaintInv, DateInv
<1>2. ASSUME NEW c \in Complaint, ReportComplaint(c)
      PROVE  DateInv'
  <2>1. AloneInv'
    BY <1>2 DEF ReportComplaint, AloneInv, RowType, Busy, ComplaintStatus, NoRow
  <2>2. ResolutionIsDated'
    BY <1>2 DEF ReportComplaint, ResolutionIsDated, RowType, NoRow
  <2>. QED  BY <2>1, <2>2
<1>3. ASSUME NEW t \in Threads, NEW c \in Complaint, NEW s \in ComplaintStatus,
             NEW n \in BOOLEAN, ReadComplaint(t, c, s, n)
      PROVE  DateInv'
  <2>1. /\ thread'[t] \in Update /\ thread'[t].to = s /\ thread'[t].complaint = c
        /\ \A o \in Threads \ {t} : thread'[o] = thread[o]
        /\ thread[t] = NotUpdating
        /\ UNCHANGED <<status, resolvedAt, notification>>
    BY <1>3 DEF ReadComplaint, RowType, Update
  <2>2. status[c] \in ComplaintStatus /\ s \in COMPLAINT_TRANSITIONS[status[c]]
    BY <1>3 DEF ReadComplaint, AllowedStatus, RowType
  <2>3. overlapped \subseteq overlapped'
    BY <1>3 DEF ReadComplaint
  <2>4. c \notin overlapped' => \A o \in Threads : ~Busy(o, c)
    BY <1>3, IdleIsNoUpdate DEF ReadComplaint, Busy
  <2>5. AloneInv'
    BY <2>1, <2>2, <2>3, <2>4 DEF AloneInv, Busy
  <2>6. ResolutionIsDated'
    BY <2>1, <2>3 DEF ResolutionIsDated
  <2>. QED  BY <2>5, <2>6
<1>4. ASSUME NEW t \in Threads, CommitStatus(t)
      PROVE  DateInv'
  <2>. DEFINE d == thread[t].complaint
              s == thread[t].to
  <2>1. Busy(t, d) /\ d \in Complaint /\ s \in ComplaintStatus
    BY <1>4 DEF CommitStatus, RowType, NotUpdating, Update, Busy
  <2>2. /\ status' = [status EXCEPT ![d] = s]
        /\ notification' = notification \cup {<<d, s>>}
        /\ thread' = [thread EXCEPT ![t] = NotUpdating]
        /\ overlapped' = overlapped
    BY <1>4 DEF CommitStatus
  <2>3. \A o \in Threads, c \in Complaint :
            Busy(o, c)' => o # t /\ Busy(o, c) /\ thread'[o] = thread[o]
    BY <2>2, IdleIsNoUpdate DEF Busy, RowType
  <2>4. AloneInv'
    BY <2>1, <2>2, <2>3 DEF AloneInv, RowType
  <2>5. \A c \in Complaint : resolvedAt'[c] => resolvedAt[c] \/ (c = d /\ s = "RESOLVED")
    BY <1>4, <2>1 DEF CommitStatus, RowType, Stamps
  <2>6. d \notin overlapped /\ resolvedAt[d] => FALSE
    BY <2>1, TransitionFacts DEF AloneInv, ResolutionIsDated
  <2>7. s = "RESOLVED" => resolvedAt'[d]
    BY <1>4, <2>1 DEF CommitStatus, RowType, Stamps
  <2>8. \A c \in Complaint \ {d} : resolvedAt'[c] = resolvedAt[c]
    BY <1>4, <2>1 DEF CommitStatus, RowType
  <2>9. ResolutionIsDated'
    BY <2>1, <2>2, <2>5, <2>6, <2>7, <2>8 DEF ResolutionIsDated, RowType
  <2>. QED  BY <2>4, <2>9
<1>5. ASSUME NEW t \in Threads, Abort(t)
      PROVE  DateInv'
  <2>1. \A o \in Threads, c \in Complaint : Busy(o, c)' => Busy(o, c) /\ thread'[o] = thread[o]
    BY <1>5, IdleIsNoUpdate DEF Abort, Busy, RowType
  <2>2. UNCHANGED <<status, resolvedAt, notification, overlapped>>
    BY <1>5 DEF Abort
  <2>. QED  BY <2>1, <2>2 DEF AloneInv, ResolutionIsDated
<1>6. CASE (\E n \in unread : MarkRead(n)) \/ UNCHANGED complaintVars
  BY <1>6 DEF MarkRead, complaintVars, AloneInv, ResolutionIsDated, Busy
<1>. QED  BY <1>2, <1>3, <1>4, <1>5, <1>6 DEF ComplaintNext

\* A resolved complaint has its date, a dated one went through all stages, and
\* it stays resolved unless updates of it were under way at once
\* (complaints.py:148-157).
THEOREM ResolutionCorrect == ComplaintSpec => []ResolutionIsDated
<1>1. ComplaintInit => DateInv
  BY IdleIsNoUpdate DEF ComplaintInit, DateInv, AloneInv, ResolutionIsDated, Busy, NoRow
<1>2. ComplaintInv /\ DateInv /\ [ComplaintNext]_complaintVars => DateInv'
  BY DateStep
<1>3. DateInv => ResolutionIsDated
  BY DEF DateInv
<1>. QED  BY ComplaintInvAlways, <1>1, <1>2, <1>3, PTL DEF ComplaintSpec

-----------------------------------------------------------------------------
(* Types.                                                                  *)

\* What became of complaints and their notifications is of its kind, for any
\* number of complaints and threads.
THEOREM ComplaintTypeCorrect == ComplaintSpec => []ComplaintTypeOK
<1>. DEFINE Rest == /\ notes \in [Complaint -> ComplaintStatus \cup {NoRow}]
                    /\ unread \subseteq notification
<1>1. ComplaintInit => Rest
  BY DEF ComplaintInit
<1>2. ComplaintInv /\ Rest /\ [ComplaintNext]_complaintVars => Rest'
  <2>. SUFFICES ASSUME ComplaintInv, Rest, [ComplaintNext]_complaintVars  PROVE Rest'
    OBVIOUS
  <2>1. ASSUME NEW c \in Complaint, ReportComplaint(c)
        PROVE  Rest'
    BY <2>1 DEF ReportComplaint
  <2>2. ASSUME NEW t \in Threads, NEW c \in Complaint, NEW s \in ComplaintStatus,
               NEW n \in BOOLEAN, ReadComplaint(t, c, s, n)
        PROVE  Rest'
    BY <2>2 DEF ReadComplaint
  <2>3. ASSUME NEW t \in Threads, CommitStatus(t)
        PROVE  Rest'
    <3>1. thread[t] \in Update
      BY <2>3 DEF CommitStatus, ComplaintInv, RowType, NotUpdating
    <3>2. thread[t].complaint \in Complaint /\ thread[t].to \in ComplaintStatus
      BY <3>1 DEF Update
    <3>3. notes' \in [Complaint -> ComplaintStatus \cup {NoRow}]
      BY <2>3, <3>2 DEF CommitStatus
    <3>. QED  BY <2>3, <3>3 DEF CommitStatus
  <2>4. ASSUME NEW t \in Threads, Abort(t)
        PROVE  Rest'
    BY <2>4 DEF Abort
  <2>5. CASE (\E n \in unread : MarkRead(n)) \/ UNCHANGED complaintVars
    BY <2>5 DEF MarkRead, complaintVars
  <2>. QED  BY <2>1, <2>2, <2>3, <2>4, <2>5 DEF ComplaintNext
<1>3. ComplaintInv /\ Rest => ComplaintTypeOK
  BY DEF ComplaintInv, RowType, ComplaintTypeOK
<1>. QED  BY <1>1, <1>2, <1>3, ComplaintInvAlways, PTL DEF ComplaintSpec

\* A row has the columns of its table and no others, whatever the requests set.
THEOREM RowTypeCorrect == RowSpec => []RowTypeOK
<1>. DEFINE Rest == commits \in 0..MaxCommits /\ torn \subseteq Column[table]
<1>1. RowInit => Rest
  BY RowAssumption DEF RowInit
<1>2. RowsInv /\ Rest /\ [RowNext]_rowVars => Rest'
  <2>. SUFFICES ASSUME RowsInv, Rest, [RowNext]_rowVars  PROVE Rest'
    OBVIOUS
  <2>1. ASSUME NEW t \in RowThreads, ReadRow(t) \/ RefuseRow(t)
        PROVE  Rest'
    BY <2>1 DEF ReadRow, RefuseRow
  <2>2. ASSUME NEW t \in RowThreads, CommitRow(t)
        PROVE  Rest'
    <3>1. writing[t] # NotWriting
      BY <2>2 DEF CommitRow, NotWriting
    <3>2. DOMAIN writing[t].sets \subseteq Column[table]
      BY <3>1 DEF RowsInv, Reading
    <3>3. /\ torn' = (torn \ DOMAIN writing[t].sets)
                     \cup {c \in DOMAIN writing[t].sets : writer[c] > writing[t].at}
          /\ commits' = commits + 1 /\ commits < MaxCommits /\ table' = table
      BY <2>2 DEF CommitRow
    <3>. QED  BY <3>2, <3>3, RowAssumption
  <2>3. CASE UNCHANGED rowVars
    BY <2>3 DEF rowVars
  <2>. QED  BY <2>1, <2>2, <2>3 DEF RowNext
<1>3. RowsInv /\ Rest => RowTypeOK
  BY DEF RowsInv, RowShape, RowTypeOK
<1>. QED  BY <1>1, <1>2, <1>3, RowsInvAlways, PTL DEF RowSpec

\* The ledger, the rewards and the redemptions are rows of their kinds.
THEOREM LedgerTypeCorrect == LedgerSpec => []LedgerTypeOK
<1>1. LedgerInit => LedgerShape
  BY DEF LedgerInit, LedgerShape
<1>2. LedgerShape /\ [LedgerNext]_ledgerVars => LedgerShape'
  BY LedgerShapeStep
<1>3. LedgerShape => LedgerTypeOK
  <2>. SUFFICES ASSUME LedgerShape  PROVE LedgerTypeOK
    OBVIOUS
  <2>1. ASSUME NEW w \in Rewards, reward[w] # NoReward
        PROVE  reward[w].points_cost \in Costs /\ reward[w].stock \in Int \cup {Unlimited}
    <3>1. reward[w] \in Offer
      BY <2>1 DEF LedgerShape
    <3>. QED  BY <3>1 DEF Offer
  <2>2. \A i \in DOMAIN ledger : ledger[i] \in Entry
    BY DEF LedgerShape
  <2>3. \A i \in DOMAIN redemption : redemption[i] \in Redemption
    BY DEF LedgerShape
  <2>. QED  BY <2>1, <2>2, <2>3 DEF LedgerShape, LedgerTypeOK, Entry, Redemption
<1>. QED  BY <1>1, <1>2, <1>3, PTL DEF LedgerSpec

=============================================================================
