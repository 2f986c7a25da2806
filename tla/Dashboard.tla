----------------------------- MODULE Dashboard -----------------------------
(***************************************************************************)
(* The finance service's dashboard: what it shows of a budget period is    *)
(* computed from the expenses the expense service answers with.            *)
(*                                                                         *)
(* A period is a record of year, month, budget, percent (of essentials,    *)
(* desires and savings) and currency.  Percentages of the answers are in   *)
(* hundredths; the code's floating point is exact here.                    *)
(***************************************************************************)
EXTENDS ExpenseReads

CONSTANT RequestedPageSize

SumAmounts(rows) == FoldSet(LAMBDA r, sum : r.amount + sum, 0, rows)
OfType(rows, type) == {r \in rows : r.type = type}
ExpenseTypes == {"essentials", "desires", "savings"}

\* GRPCExpenseClient: the first page of the listing.
Fetched(rows, year, month) ==
  ToSet(GetActiveExpensesForPeriod(rows, year, month, 1, RequestedPageSize).data)

\* Go's division cuts off towards zero.
Truncated(num, den) == IF num < 0 THEN -((-num) \div den) ELSE num \div den

\* math.Round of a quotient.
Nearest(num, den) ==
  IF num < 0 THEN -((2 * (-num) + den) \div (2 * den)) ELSE (2 * num + den) \div (2 * den)
-----------------------------------------------------------------------------
(* The calendar.                                                           *)

DaysInMonth(year, month) ==
  LET leap == (year % 4 = 0 /\ year % 100 # 0) \/ year % 400 = 0
  IN CASE month = 2 -> IF leap THEN 29 ELSE 28
       [] month \in {4, 6, 9, 11} -> 30
       [] OTHER -> 31

\* now is a date.
ComputeDaysElapsed(period, now) ==
  IF now[1] = period.year /\ now[2] = period.month THEN now[3] ELSE DaysInMonth(period.year, period.month)

\* Mutated day: an expense of another month has none.
ParseDayStrict(date, period) == IF date[1] = period.year /\ date[2] = period.month THEN date[3] ELSE 0

\* An expense dated in another month was spent before this one began.
ParseDayForPeriod(date, period) == IF date[1] = period.year /\ date[2] = period.month THEN date[3] ELSE 1
-----------------------------------------------------------------------------
(* A month's figures.                                                      *)

\* The rounding remainder goes to the largest category, the first of equal ones.
AllocateCategories(budget, percent) ==
  LET floor == [t \in ExpenseTypes |-> (budget * percent[t]) \div 100]
      remainder == budget - (floor["essentials"] + floor["desires"] + floor["savings"])
      Largest(t) == \A s \in ExpenseTypes : percent[s] <= percent[t]
      target == CASE Largest("essentials") -> "essentials"
                  [] ~ Largest("essentials") /\ Largest("desires") -> "desires"
                  [] OTHER -> "savings"
  IN [floor EXCEPT ![target] = @ + remainder]

\* Something spent of nothing is 100 and more.
BuildCategorySummary(allocated, spent) ==
  [allocated |-> allocated, spent |-> spent, remaining |-> allocated - spent,
   percentUsed |-> CASE allocated > 0 -> Nearest(10000 * spent, allocated)
                     [] allocated = 0 /\ spent > 0 -> 10000 + 100 * Nearest(spent, 100)
                     [] OTHER -> 0]

ComputePeriodSummary(period, expenses, now) ==
  LET days == DaysInMonth(period.year, period.month)
      elapsed == ComputeDaysElapsed(period, now)
      total == SumAmounts(expenses)
      remaining == period.budget - total
      rate == IF elapsed > 0 THEN total \div elapsed ELSE 0
      allocated == AllocateCategories(period.budget, period.percent)
  IN [totalSpent |-> total, remaining |-> remaining, daysInPeriod |-> days, daysElapsed |-> elapsed,
      dailySpendRate |-> rate,
      budgetPace |-> IF days > elapsed THEN Truncated(remaining, days - elapsed) ELSE 0,
      isOnTrack |-> rate * days <= period.budget,
      categories |-> [t \in ExpenseTypes |-> BuildCategorySummary(allocated[t], SumAmounts(OfType(expenses, t)))]]

\* tagNames are the tags that exist.
ComputeTagSpending(expenses, tagNames) ==
  {LET amount == SumAmounts({r \in expenses : r.tag = tag})
   IN [tag |-> tag, name |-> IF tag \in tagNames THEN tag ELSE "Unknown", amount |-> amount,
       percent |-> IF SumAmounts(expenses) > 0 THEN Nearest(10000 * amount, SumAmounts(expenses)) ELSE 0]
     : tag \in {r.tag : r \in expenses}}

ComputeCumulativeSpend(expenses, period) ==
  LET days == DaysInMonth(period.year, period.month)
  IN [day \in 1..days |->
        [actual |-> SumAmounts({r \in expenses : ParseDayForPeriod(r.date, period) \in 1..day}),
         ideal |-> Nearest(period.budget * day, days)]]

\* What the three requests about one period answer.
GetPeriodSummary(rows, period, now) ==
  ComputePeriodSummary(period, Fetched(rows, period.year, period.month), now)

GetSpendingByTag(rows, period, tagNames) ==
  ComputeTagSpending(Fetched(rows, period.year, period.month), tagNames)

GetCumulativeSpend(rows, period) ==
  ComputeCumulativeSpend(Fetched(rows, period.year, period.month), period)
-----------------------------------------------------------------------------
(* Several months: rows are what the expense service holds, periods a      *)
(* sequence, the latest first.                                             *)

\* Not a number between 1 and 12: 6, or 12.
MonthsAsked(months) == CASE months < 1 -> 6 [] months > 12 -> 12 [] OTHER -> months

\* i months before; a year's first follows the last of the year before.
MonthsBefore(year, month, i) ==
  LET n == 12 * year + month - 1 - i IN <<n \div 12, (n % 12) + 1>>

\* ComputeSpendingTrends: a month without a period is all zero.
TrendPoint(rows, periods, year, month) ==
  LET found == {p \in ToSet(periods) : p.year = year /\ p.month = month}
      expenses == IF found = {} THEN {} ELSE Fetched(rows, year, month)
  IN [year |-> year, month |-> month, budget |-> IF found = {} THEN 0 ELSE (CHOOSE p \in found : TRUE).budget,
      totalSpent |-> SumAmounts(expenses), spent |-> [t \in ExpenseTypes |-> SumAmounts(OfType(expenses, t))]]

GetSpendingTrends(rows, periods, year, month, months) ==
  LET n == MonthsAsked(months)
      At(i) == MonthsBefore(year, month, n - i)
  IN [i \in 1..n |-> TrendPoint(rows, periods, At(i)[1], At(i)[2])]

GetTotalSpentForPeriod(rows, period) == SumAmounts(Fetched(rows, period.year, period.month))

AllSameReportingCurrency(current, periods) == \A p \in ToSet(periods) : p.currency = current

\* periods[i] is compared with the period before and with the three before; a
\* comparison across currencies is not made.
GetHistoricalComparison(rows, periods, i) ==
  LET Spent(k) == GetTotalSpentForPeriod(rows, periods[i + k])
      hasPrevious == Len(periods) > i
      comparable == hasPrevious => periods[i + 1].currency = periods[i].currency
      hasAverage == /\ Len(periods) >= i + 3
                    /\ AllSameReportingCurrency(periods[i].currency, SubSeq(periods, i + 1, i + 3))
  IN [currentSpent |-> Spent(0), previousSpent |-> IF hasPrevious THEN Spent(1) ELSE 0,
      comparable |-> comparable,
      changePercent |-> CASE hasPrevious /\ comparable /\ Spent(1) > 0 ->
                               Nearest(10000 * (Spent(0) - Spent(1)), Spent(1))
                          [] hasPrevious /\ comparable /\ Spent(1) = 0 /\ Spent(0) > 0 -> 10000
                          [] OTHER -> 0,
      rollingAverage |-> IF hasAverage THEN <<(Spent(1) + Spent(2) + Spent(3)) \div 3>> ELSE << >>]
-----------------------------------------------------------------------------
(* What holds of every input.                                              *)

\* GetPeriodSummary, GetSpendingByTag, GetCumulativeSpend,
\* GetSpendingTrends, GetHistoricalComparison: the cards of one month, computed by
\* five requests, agree on what was spent, whatever months the expenses are dated
\* in; the allocations spread the whole budget; the ideal line ends at the budget;
\* and who spends the shown pace every day that is left stays within the budget.
FiguresAgree(rows, periods, i, tagNames, now, months) ==
  LET period == periods[i]
      summary == GetPeriodSummary(rows, period, now)
      tags == GetSpendingByTag(rows, period, tagNames)
      line == GetCumulativeSpend(rows, period)
      trend == GetSpendingTrends(rows, periods, period.year, period.month, months)
      left == summary.daysInPeriod - summary.daysElapsed
      OverTypes(field) == summary.categories["essentials"][field] + summary.categories["desires"][field]
                            + summary.categories["savings"][field]
  IN /\ summary.totalSpent = OverTypes("spent")
     /\ summary.totalSpent = SumAmounts(tags)
     /\ summary.totalSpent = line[Len(line)].actual
     /\ summary.totalSpent = trend[Len(trend)].totalSpent
     /\ summary.totalSpent = GetHistoricalComparison(rows, periods, i).currentSpent
     /\ OverTypes("allocated") = period.budget /\ OverTypes("remaining") = summary.remaining
     /\ line[Len(line)].ideal = period.budget
     /\ summary.remaining >= 0 => summary.budgetPace * left <= summary.remaining
     /\ \A k \in 2..Len(trend) :
          <<trend[k - 1].year, trend[k - 1].month>> = MonthsBefore(trend[k].year, trend[k].month, 1)

\* dashboard.go, GetPeriodSummary and getTotalSpentForPeriod: the totals are those
\* of the period's expenses.
CountsEveryExpense(rows, period) ==
  GetTotalSpentForPeriod(rows, period) = SumAmounts(ActiveOfPeriod(rows, period.year, period.month))
=============================================================================
