----------------------------- MODULE HealthScore -----------------------------
(***************************************************************************)
(* The profile that health_score_service calculates.  It asks finance and  *)
(* analytics for a user's data, one request after the other, while the     *)
(* user goes on changing it, and makes scores of them whose weights are    *)
(* scaled to what could be computed.  Decimal percents are kept here to a  *)
(* hundredth, rounded down: 100 percent is 10000.  What is done with the   *)
(* profile, snapshot and cache, is in UserData.                            *)
(***************************************************************************)
EXTENDS Integers, FiniteSets, Functions

CONSTANTS
    Wealth,         \* sets of amounts the user may have, by field
    Goals,          \* savings goals
    Debts,          \* debts
    MaxDataChanges  \* bound: changes to the data while it is read

ASSUME HealthAssumption == MaxDataChanges \in Nat

\* Spending and earnings are sums of absolute amounts, and finance_service
\* refuses a debt with a negative amount.  Nothing is asked of a balance, of
\* what is expected to be paid, or of the amounts of a goal.
ASSUME HealthDataAssumption ==
    /\ \A field \in {"income", "earlier", "spent"} : Wealth[field] \subseteq Nat
    /\ \A field \in {"balance", "fixed"} : Wealth[field] \subseteq Int
    /\ \A goals \in Goals : \A g \in goals :
          g.target \in Int /\ g.current \in Int /\ g.months \in Nat
    /\ IsFiniteSet(Debts)
    /\ \A d \in Debts :
          d.payment \in Nat /\ d.remaining \in Nat /\ d.limit \in Nat /\ d.overdue \in Nat

VARIABLES
    wealth,       \* the user's data, as committed
    known,        \* what the calculation has read of it
    computing,    \* what the calculation is at
    profile,      \* the profile it built, if any
    dataChanges,  \* changes so far
    torn          \* the data changed between two of its reads

healthVars == <<wealth, known, computing, profile, dataChanges, torn>>

Categories == {"transfers", "rent", "credits", "fun"}

\* Months of income: this one and one before it.  fixed: the regular expenses.
WealthFields == {"income", "earlier", "balance", "fixed"}
NoProfile == [score |-> -1]

\* What is read from the transactions of the period, and what after it.
FromTransactions(w) == [spent |-> w.spent, incomes |-> {<<"now", w.income>>, <<"earlier", w.earlier>>}]

HealthInit ==
    /\ wealth \in [income : Wealth["income"], earlier : Wealth["earlier"],
                   balance : Wealth["balance"], fixed : Wealth["fixed"],
                   spent : [Categories -> Wealth["spent"]],
                   limited : BOOLEAN, goals : Goals, debts : SUBSET Debts]
    /\ known = FromTransactions(wealth)
    /\ computing = "idle"
    /\ profile = NoProfile
    /\ dataChanges = 0
    /\ torn = FALSE

-----------------------------------------------------------------------------
(* Decimals *)

AtLeast(a, b) == IF a > b THEN a ELSE b
AtMost(a, b) == IF a < b THEN a ELSE b

\* Mutant: only what is above a hundred is cut off.
ClampAbove(v) == AtMost(v, 10000)

Clamp(v) == AtMost(AtLeast(v, 0), 10000)
\* \div is that of positive numbers; the target of a goal may be negative.
Percent(n, d) == IF d > 0 THEN (n * 10000) \div d ELSE (-n * 10000) \div (-d)
SumOver(S, Value(_)) == SumFunction([x \in S |-> Value(x)])

-----------------------------------------------------------------------------
(* Expenses, by the markers in the names of their categories *)

\* Every name contains the empty string; that of a credit is in two tuples.
MarkersIn(c) == {""} \union (CASE c = "transfers" -> {"transfer"}
                               [] c = "rent" -> {"rent"}
                               [] c = "credits" -> {"credit"}
                               [] OTHER -> {})

SumByMarkers(spent, markers) ==
    SumOver({c \in Categories : MarkersIn(c) \cap markers # {}}, LAMBDA c : spent[c])

UnclearMarkers == {"transfer", "cash", "unknown", ""}
CreditMarkers == {"credit", "loan"}
MandatoryMarkers == {"utility", "rent", "supermarket", "credit"}

-----------------------------------------------------------------------------
(* Components: sets of at most one score.  An empty one is a gap. *)

NoScore == {}

CashflowScore(net, income) ==
    IF income = 0 THEN NoScore ELSE {Clamp(((Percent(net, income) + 1000) * 10) \div 3)}

DebtScore(toIncome) == {Clamp(10000 - (((r - 1000) * 5) \div 2)) : r \in toIncome}

ReserveScore(balance, base) ==
    IF base = 0 THEN NoScore ELSE {Clamp(Percent(balance, base) \div 3)}

\* _category_limits answers an empty list on each of its paths.
CategoryLimits(limited) == {}
BudgetScore(limits) == IF limits = {} THEN NoScore ELSE {Clamp(10000 - SumOver(limits, LAMBDA l : l))}

ClarityScore(unclear, total) ==
    {Clamp(10000 - (IF total = 0 THEN 0 ELSE Percent(unclear, total)))}

\* The first of the active goals.
GoalScore(goals, net) ==
    {LET progress == IF g.target = 0 THEN 10000 ELSE Percent(g.current, g.target)
         remaining == AtLeast(g.target - g.current, 0)
         afford == IF remaining = 0 THEN 10000 ELSE Percent(net * g.months, remaining) IN
     Clamp((Clamp(progress) * 60 + Clamp(afford) * 40) \div 100) : g \in goals}

\* Of two months the deviation is half their difference.
IncomeStability(incomes) ==
    LET earned == {m \in incomes : m[2] > 0}
        all == SumOver(earned, LAMBDA m : m[2]) IN
    IF Cardinality(earned) < 2 THEN NoScore
    ELSE {Clamp(10000 - 2 * Percent(AtLeast(p[1][2] - p[2][2], p[2][2] - p[1][2]), all)) :
             p \in {q \in earned \X earned : q[1][1] = "now" /\ q[2][1] = "earlier"}}

AverageMonthlyIncome(incomes) ==
    LET earned == {m \in incomes : m[2] > 0} IN
    IF earned = {} THEN 0 ELSE SumOver(earned, LAMBDA m : m[2]) \div Cardinality(earned)

Weights == [cashflow |-> 25, debt |-> 20, reserve |-> 15, budget |-> 15, clarity |-> 10,
            goal |-> 10, stability |-> 5]
Present(components) == {k \in DOMAIN Weights : components[k] # NoScore}
ScoreOf(components, k) == CHOOSE v \in components[k] : TRUE

\* Mutant: what could not be computed counts as zero.
ScoreOfAllWeights(components) ==
    Clamp(SumOver(Present(components), LAMBDA k : ScoreOf(components, k) * Weights[k]) \div 100)

WeightedScore(components) ==
    IF Present(components) = {} THEN 0
    ELSE Clamp(SumOver(Present(components), LAMBDA k : ScoreOf(components, k) * Weights[k])
                 \div SumOver(Present(components), LAMBDA k : Weights[k]))

-----------------------------------------------------------------------------
(* Debts *)

Payments(debts) == SumOver(debts, LAMBDA d : d.payment)
ActiveCredits(debts) == Cardinality({d \in debts : d.remaining > 0})
CardUtilization(debts) ==
    LET cards == {d \in debts : d.limit > 0} IN
    IF cards = {} THEN 0 ELSE Percent(SumOver(cards, LAMBDA d : d.remaining), SumOver(cards, LAMBDA d : d.limit))
OverdueDays(debts) == IF debts = {} THEN 0 ELSE CHOOSE n \in {d.overdue : d \in debts} : \A d \in debts : n >= d.overdue

\* Weights and scores of what there is; the last two only of recorded debts.
CreditLoadIndex(toIncome, net, payments, credits, debts) ==
    LET parts == {<<55, Clamp(r * 2)>> : r \in toIncome}
                   \union {<<10, IF net - p < 0 THEN 10000 ELSE 2500>> : p \in {payments} \ {0}}
                   \union {<<5, Clamp(credits * 2500)>>}
        recorded == IF debts = {} THEN 0
                    ELSE 15 * Clamp(CardUtilization(debts)) + 15 * Clamp(OverdueDays(debts) * 1000)
        weight == SumOver(parts, LAMBDA q : q[1]) + (IF debts = {} THEN 0 ELSE 30) IN
    Clamp((SumOver(parts, LAMBDA q : q[1] * q[2]) + recorded) \div weight)

-----------------------------------------------------------------------------
(* _build_profile, of the transactions read first and the rest read after *)

Components(k, w, total, unclear, net, toIncome) ==
    LET mandatory == w.fixed + SumByMarkers(k.spent, MandatoryMarkers) IN
    [cashflow |-> CashflowScore(net, w.income),
     debt |-> DebtScore(toIncome),
     reserve |-> ReserveScore(w.balance, IF mandatory > 0 THEN mandatory ELSE total),
     budget |-> BudgetScore(CategoryLimits(w.limited)),
     clarity |-> ClarityScore(unclear, total),
     goal |-> GoalScore(w.goals, net),
     stability |-> IncomeStability(k.incomes)]

BuildProfile(k, w) ==
    LET total == SumOver(Categories, LAMBDA c : w.spent[c])
        unclear == SumByMarkers(k.spent, UnclearMarkers)
        net == w.income - total
        payments == IF w.debts # {} THEN Payments(w.debts) ELSE SumByMarkers(k.spent, CreditMarkers)
        base == IF w.debts # {} THEN AverageMonthlyIncome(k.incomes) ELSE w.income
        toIncome == IF base = 0 THEN NoScore ELSE {Percent(payments, base)}
        credits == IF w.debts # {} THEN ActiveCredits(w.debts)
                   ELSE Cardinality({c \in Categories : k.spent[c] > 0 /\ MarkersIn(c) \cap CreditMarkers # {}})
        components == Components(k, w, total, unclear, net, toIncome) IN
    [score |-> WeightedScore(components), components |-> components,
     credit |-> CreditLoadIndex(toIncome, net, payments, credits, w.debts),
     total |-> total, unclear |-> unclear, spent |-> k.spent]

-----------------------------------------------------------------------------
(* _calculate_and_store *)

ReadTransactions ==
    /\ computing = "idle" /\ profile = NoProfile
    /\ known' = FromTransactions(wealth)
    /\ computing' = "read"
    /\ UNCHANGED <<wealth, profile, dataChanges, torn>>

\* The sums, accounts, limits, goals and debts come with requests of their own.
ReadRest ==
    /\ computing = "read"
    /\ profile' = BuildProfile(known, wealth)
    /\ computing' = "idle"
    /\ UNCHANGED <<wealth, known, dataChanges, torn>>

\* Meanwhile the user spends, earns or removes what they had.
ChangeData ==
    /\ dataChanges < MaxDataChanges
    /\ computing = "read"
    /\ \/ \E c \in Categories, v \in Wealth["spent"] :
            wealth.spent[c] # v /\ wealth' = [wealth EXCEPT !.spent[c] = v]
       \/ \E v \in Wealth["income"] : wealth.income # v /\ wealth' = [wealth EXCEPT !.income = v]
    /\ dataChanges' = dataChanges + 1
    /\ torn' = TRUE
    /\ UNCHANGED <<known, computing, profile>>

HealthNext == ReadTransactions \/ ReadRest \/ ChangeData

HealthSpec == HealthInit /\ [][HealthNext]_healthVars

-----------------------------------------------------------------------------
(* Properties *)

Percents == 0..10000

HealthTypeOK ==
    /\ computing \in {"idle", "read"}
    /\ dataChanges \in 0..MaxDataChanges /\ torn \in BOOLEAN
    /\ profile # NoProfile =>
         /\ profile.score \in Percents /\ profile.credit \in Percents
         /\ \A k \in DOMAIN Weights : profile.components[k] \subseteq Percents

(* What could not be computed is dropped and neither raises nor lowers the *)
(* score: the score lies between the worst and the best of the components  *)
(* there are.  A profile that no change of the data came in between is of  *)
(* one moment: its categories add up to its total.                         *)
ScoreOfWhatIsKnown ==
    profile # NoProfile =>
      LET scores == {ScoreOf(profile.components, k) : k \in Present(profile.components)} IN
      /\ \E v \in scores : v <= profile.score
      /\ \E v \in scores : v >= profile.score
      /\ ~torn => profile.total = SumOver(Categories, LAMBDA c : profile.spent[c])

(* unclear_expenses are the transfers, the cash and the expenses without a *)
(* category (docs/backend-plan.md:441): no other category counts as one.   *)
OnlyUnclearIsUnclear ==
    profile # NoProfile => profile.unclear = profile.spent["transfers"]
==============================================================================
