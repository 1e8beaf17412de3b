---------------------------- MODULE RewardLedger ----------------------------
(***************************************************************************)
(* Points and rewards: backend/app/api/v1/rewards.py, and the entry a      *)
(* completed pickup adds (services/pickup_service.py).                     *)
(*                                                                         *)
(* A redemption runs three queries before its transaction commits, and     *)
(* READ COMMITTED lets each see what was committed before it.  No row is   *)
(* locked: the stock written is the stock read, less one.                  *)
(***************************************************************************)
EXTENDS Integers, Sequences, FiniteSets

CONSTANTS
    Redeemers,        \* the users, who all earn and spend
    Rewards, RedeemThreads,
    Unlimited,        \* the stock of a reward that has none to run out of
    Costs, Stocks,    \* what an administrator may give a reward
    Points,           \* what an administrator may give the rule
    MaxEntries        \* bound: rows of points_ledger_entries

\* points and points_cost are Field(gt=0), stock is Field(ge=0).
ASSUME LedgerAssumption ==
    /\ Costs \subseteq Nat \ {0} /\ Points \subseteq Nat \ {0}
    /\ Stocks \subseteq Nat \cup {Unlimited} /\ Unlimited \notin Int
    /\ IsFiniteSet(RedeemThreads) /\ RedeemThreads # {}

VARIABLES
    rule,             \* reward_rules: points of VERIFIED_PICKUP, 0 if absent
    reward,           \* rewards, by name: <<>> or the row
    ledger,           \* points_ledger_entries, in the order of insertion
    redemption,       \* reward_redemptions
    redeeming,        \* the redemptions under way
    redeemedAtOnce    \* history: users and rewards with redemptions that
                      \* were under way at the same time

ledgerVars == <<rule, reward, ledger, redemption, redeeming, redeemedAtOnce>>

NotRedeeming == [phase |-> "idle"]
NoReward == <<>>

LedgerInit ==
    /\ rule = 0
    /\ reward = [w \in Rewards |-> NoReward]
    /\ ledger = <<>> /\ redemption = <<>>
    /\ redeeming = [t \in RedeemThreads |-> NotRedeeming]
    /\ redeemedAtOnce = {}

\* func.sum over the entries of a user, after each of the rows.
Sums(u, rows) ==
    LET sum[n \in 0 .. Len(rows)] ==
            IF n = 0 THEN 0
            ELSE sum[n - 1] + (IF rows[n].user = u THEN rows[n].points ELSE 0)
    IN  sum

Balance(u) == Sums(u, ledger)[Len(ledger)]

RedemptionsOf(w) == {i \in DOMAIN redemption : redemption[i].reward = w}

-----------------------------------------------------------------------------
(* create_reward_rule, create_reward.  The unique column activity_type     *)
(* refuses a second rule however many administrators ask at once.          *)

CreateRule(p) ==
    /\ rule = 0
    /\ rule' = p
    /\ UNCHANGED <<reward, ledger, redemption, redeeming, redeemedAtOnce>>

CreateReward(w, cost, stock) ==
    /\ reward[w] = NoReward
    /\ reward' = [reward EXCEPT ![w] =
          [points_cost |-> cost, stock |-> stock, made |-> stock]]
    /\ UNCHANGED <<rule, ledger, redemption, redeeming, redeemedAtOnce>>

\* complete_collection credits the requester under the rule.
Earn(u) ==
    /\ rule > 0
    /\ Len(ledger) < MaxEntries
    /\ ledger' = Append(ledger, [user |-> u, points |-> rule])
    /\ UNCHANGED <<rule, reward, redemption, redeeming, redeemedAtOnce>>

-----------------------------------------------------------------------------
(* redeem_reward.                                                          *)

\* The reward is read: it is there and not out of stock.
ReadReward(t, u, w) ==
    LET others == {s \in RedeemThreads : redeeming[s] # NotRedeeming}
    IN  /\ redeeming[t] = NotRedeeming
        /\ reward[w] # NoReward
        /\ reward[w].stock # Unlimited => reward[w].stock > 0
        /\ redeeming' = [redeeming EXCEPT ![t] =
              [phase |-> "read", user |-> u, reward |-> w,
               cost |-> reward[w].points_cost, stock |-> reward[w].stock]]
        /\ redeemedAtOnce' = redeemedAtOnce
              \cup {x \in {u, w} : \E s \in others :
                                      x \in {redeeming[s].user, redeeming[s].reward}}
        /\ UNCHANGED <<rule, reward, ledger, redemption>>

\* Broken variant: a redemption is good for one point less than its price.
AlmostAffordable(balance, cost) == balance >= cost - 1

Affordable(balance, cost) == balance >= cost

\* The balance is summed; too small a one is refused.
CheckBalance(t) ==
    /\ redeeming[t].phase = "read"
    /\ redeeming' = [redeeming EXCEPT ![t] =
          IF Affordable(Balance(@.user), @.cost)
          THEN [@ EXCEPT !.phase = "checked"] ELSE NotRedeeming]
    /\ UNCHANGED <<rule, reward, ledger, redemption, redeemedAtOnce>>

\* Broken variant: every reward is treated as one without a stock.
KeepStock(row, read) == row

\* The column as the UPDATE leaves it; there is none for an unlimited stock.
TakeOne(row, read) ==
    IF read = Unlimited THEN row ELSE [row EXCEPT !.stock = read - 1]

Payment(r) == [user |-> r.user, points |-> -r.cost]

\* The redemption, its entry in the ledger and the stock, in one transaction.
CommitRedemption(t) ==
    LET r == redeeming[t]
    IN  /\ r.phase = "checked"
        /\ Len(ledger) < MaxEntries
        /\ redemption' = Append(redemption,
              [user |-> r.user, reward |-> r.reward, points |-> r.cost])
        /\ ledger' = Append(ledger, Payment(r))
        /\ reward' = [reward EXCEPT ![r.reward] = TakeOne(@, r.stock)]
        /\ redeeming' = [redeeming EXCEPT ![t] = NotRedeeming]
        /\ UNCHANGED <<rule, redeemedAtOnce>>

\* The request or its connection is lost before the commit.
AbortRedemption(t) ==
    /\ redeeming[t] # NotRedeeming
    /\ redeeming' = [redeeming EXCEPT ![t] = NotRedeeming]
    /\ UNCHANGED <<rule, reward, ledger, redemption, redeemedAtOnce>>

LedgerNext ==
    \/ \E p \in Points : CreateRule(p)
    \/ \E w \in Rewards, c \in Costs, s \in Stocks : CreateReward(w, c, s)
    \/ \E u \in Redeemers : Earn(u)
    \/ \E t \in RedeemThreads :
          \/ \E u \in Redeemers, w \in Rewards : ReadReward(t, u, w)
          \/ CheckBalance(t)
          \/ CommitRedemption(t)
          \/ AbortRedemption(t)

LedgerSpec == LedgerInit /\ [][LedgerNext]_ledgerVars

-----------------------------------------------------------------------------
\* Rows hold values of their kind.
LedgerTypeOK ==
    /\ rule \in Points \cup {0}
    /\ \A w \in Rewards : reward[w] # NoReward =>
          reward[w].points_cost \in Costs /\ reward[w].stock \in Int \cup {Unlimited}
    /\ \A i \in DOMAIN ledger : ledger[i].user \in Redeemers /\ ledger[i].points \in Int
    /\ \A i \in DOMAIN redemption : redemption[i].reward \in Rewards

\* The balance is compared before the entry is written (rewards.py:112-115):
\* a user whose redemptions never overlapped is never in debt, and one whose
\* did owes at most one redemption for each further thread of the server.
DebtIsBounded ==
    \A u \in Redeemers, c \in Costs :
        (\A d \in Costs : d <= c) =>
            Balance(u) >= IF u \in redeemedAtOnce
                          THEN -c * (Cardinality(RedeemThreads) - 1) ELSE 0

\* The stock is read, then written (rewards.py:109, 132): it never goes below
\* zero, it never counts a redemption that is not there, and it counts all
\* of them when no two redemptions of the reward were under way at once.
StockIsExplained ==
    \A w \in Rewards :
        reward[w] # NoReward /\ reward[w].made # Unlimited =>
            LET gone == reward[w].made - reward[w].stock
                sold == Cardinality(RedemptionsOf(w))
            IN  /\ reward[w].stock >= 0
                /\ gone <= sold
                /\ w \notin redeemedAtOnce => gone = sold

\* Every redemption is covered by points and taken from the stock, but for
\* the ones that were under way at once.
RedemptionsAreCovered == DebtIsBounded /\ StockIsExplained

=============================================================================
