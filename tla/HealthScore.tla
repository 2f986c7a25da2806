----------------------------- MODULE HealthScore -----------------------------
(***************************************************************************)
(* The monthly health score, computed from a budget, the month's spending  *)
(* by type and the desires spending of recent closed months.               *)
(*                                                                         *)
(* The code computes in floating point; here a quotient is kept as its two *)
(* integers, so ties and sums are exact.  Weights are in units of five     *)
(* points.  A type's record of amounts is spent, of percentages percent.   *)
(***************************************************************************)
EXTENDS Integers, SequencesExt

Types == {"essentials", "desires", "savings"}
Keys == <<"savings", "budget", "allocation", "stability">>

Base == [savings |-> 5, budget |-> 5, allocation |-> 6, stability |-> 4]

AbsoluteValue(n) == IF n < 0 THEN -n ELSE n

\* math.Round of a quotient that is not negative.
Rounded(num, den) == (2 * num + den) \div (2 * den)

Least(m, n) == IF m < n THEN m ELSE n

\* The sum of f over a set.
Total(f, S) == FoldSet(LAMBDA x, sum : f[x] + sum, 0, S)
-----------------------------------------------------------------------------
(* Targets and weights.                                                    *)

SavingsTarget(period) == (period.budget * period.percent.savings) \div 100
CombinedTarget(period) == (period.budget * (period.percent.essentials + period.percent.desires)) \div 100

\* The components a month is scored by.
Present(period, window) ==
  {"budget", "allocation"}
    \cup (IF SavingsTarget(period) # 0 THEN {"savings"} ELSE {})
    \cup (IF Len(window) >= 3 THEN {"stability"} ELSE {})

\* A component's weight of 100 is Base[c] * 100 / Total(Base, present); the
\* remainder of the rounded ones is added to allocation.
WithRemainder(weights) == [weights EXCEPT !.allocation = @ + 100 - Total(weights, DOMAIN weights)]
Maxima(present) == WithRemainder([c \in present |-> Rounded(100 * Base[c], Total(Base, present))])

\* roundClamp of the weight of c times the factor num / den; max are the maxima of
\* the components that are present.
Clamped(c, max, num, den) == Least(Rounded(100 * Base[c] * num, Total(Base, DOMAIN max) * den), max[c])
-----------------------------------------------------------------------------
(* The four components.                                                    *)

SavingsScore(target, spent, max) == Clamped("savings", max, Least(spent.savings, target), target)

\* Full up to the plan, nothing from half as much again; without a plan only
\* spending nothing is on it.
BudgetScore(target, actual, max) ==
  CASE actual <= target -> max.budget
    [] actual > target /\ 2 * actual >= 3 * target -> 0
    [] OTHER -> Clamped("budget", max, 3 * target - 2 * actual, target)

Categories(present) == IF "savings" \in present THEN Types ELSE Types \ {"savings"}

\* A category's share of the spending minus its share of the percentages, times
\* both sums.
Deviation(percent, spent, S) == [t \in S |-> spent[t] * Total(percent, S) - percent[t] * Total(spent, S)]

\* Mutated penalty: desires above their share are not counted.
PenaltyForgiving(t, deviation) ==
  CASE t = "desires" /\ deviation > 0 -> 0
    [] t = "savings" /\ deviation < 0 -> 2 * AbsoluteValue(deviation)
    [] OTHER -> AbsoluteValue(deviation)

\* In halves: desires above and savings below their share count in full.
Penalty(t, deviation) ==
  IF (t = "desires" /\ deviation > 0) \/ (t = "savings" /\ deviation < 0)
  THEN 2 * AbsoluteValue(deviation) ELSE AbsoluteValue(deviation)

PenaltyOf(deviation) == Total([t \in DOMAIN deviation |-> Penalty(t, deviation[t])], DOMAIN deviation)

\* One less the penalty, of the spending in the categories S; whole is twice the
\* product of both sums.
AllocationShare(penalty, whole, max) ==
  IF whole = 0 THEN max.allocation ELSE Clamped("allocation", max, whole - Least(penalty, whole), whole)

AllocationScore(percent, spent, S, max) ==
  AllocationShare(PenaltyOf(Deviation(percent, spent, S)), 2 * Total(percent, S) * Total(spent, S), max)

\* sampleStdDev over the mean, squared: Variation / (Sum * Sum * (n - 1)).
SumOf(window) == FoldSeq(LAMBDA x, sum : x + sum, 0, window)
Square(n) == n * n
Variation(window, sum) == SumOf([i \in DOMAIN window |-> Square(Len(window) * window[i] - sum)])

\* The highest k that is reached: weight * (1 - CoV) >= k - 1/2, in squares.
HighestReached(max, all, weight, variation, scale) ==
  LET Rest(k) == weight - (2 * k - 1) * all
      reached == {k \in 1..max : Rest(k) >= 0 /\ Square(weight) * variation <= Square(Rest(k)) * scale}
  IN CHOOSE k \in reached \cup {0} : \A j \in reached : j <= k

StabilityScore(window, sum, max) ==
  IF sum = 0 THEN max.stability
  ELSE HighestReached(max.stability, Total(Base, DOMAIN max), 200 * Base.stability, Variation(window, sum),
                      (Len(window) - 1) * Square(sum))
-----------------------------------------------------------------------------
(* The score and its insight.                                              *)

\* The scores of the components that are present, of the maxima max.
ScoresOf(period, spent, window, max) ==
  [c \in DOMAIN max |->
     CASE c = "savings" -> SavingsScore(SavingsTarget(period), spent, max)
       [] c = "budget" -> BudgetScore(CombinedTarget(period), spent.essentials + spent.desires, max)
       [] c = "allocation" -> AllocationScore(period.percent, spent, Categories(DOMAIN max), max)
       [] c = "stability" -> StabilityScore(window, SumOf(window), max)]

Band(total) == CASE total >= 80 -> "green"
                 [] total >= 55 /\ total < 80 -> "amber"
                 [] OTHER -> "red"

\* selectDriver: the first component with the lowest score.
Driver(scores) ==
  LET components == SelectSeq(Keys, LAMBDA c : c \in DOMAIN scores)
      Lowest(c) == \A d \in DOMAIN scores : scores[c] <= scores[d]
  IN SelectSeq(components, Lowest)[1]

\* The category most over its share, and the one most under it.
MostOver(deviation) ==
  {t \in DOMAIN deviation : deviation[t] > 0 /\ \A s \in DOMAIN deviation : deviation[s] <= deviation[t]}
MostUnder(deviation) ==
  {t \in DOMAIN deviation : deviation[t] < 0 /\ \A s \in DOMAIN deviation : deviation[s] >= deviation[t]}

\* buildInsight: the points that the driver promises and the money it asks for.
AllAtMax(scores, max) == scores = max
InsightOf(period, spent, driver, points) ==
  [driver |-> driver, points |-> points,
   money |-> CASE driver = "savings" -> SavingsTarget(period) - spent.savings
               [] driver = "budget" -> spent.essentials + spent.desires - CombinedTarget(period)
               [] OTHER -> 0]
Insight(period, spent, scores, driver, max) ==
  IF AllAtMax(scores, max) THEN [driver |-> "none", points |-> 0, money |-> 0]
  ELSE InsightOf(period, spent, driver, max[driver] - scores[driver])

Judged(period, spent, scores, max, total) ==
  [components |-> scores, total |-> total, band |-> Band(total),
   insight |-> Insight(period, spent, scores, Driver(scores), max)]
Summed(period, spent, scores, max) == Judged(period, spent, scores, max, Total(scores, DOMAIN scores))
Weighed(period, spent, window, max) == Summed(period, spent, ScoresOf(period, spent, window, max), max)

\* ComputeHealthScore
HealthScore(period, spent, window) == Weighed(period, spent, window, Maxima(Present(period, window)))
-----------------------------------------------------------------------------
(* What holds of every input.                                              *)

More(spent, t) == [spent EXCEPT ![t] = @ + 1]

\* resolveWeights, ComputeHealthScore: the maxima add up to 100, and a month that
\* spends in the plan's proportions and within it has all of them.
PlanIsFullMarks(period, spent, window, score, max) ==
  /\ Total(max, DOMAIN max) = 100
  /\ \A c \in DOMAIN max : score.components[c] \in 0..max[c]
  /\ (/\ \A t \in Types : 100 * spent[t] = period.budget * period.percent[t]
      /\ \A i, j \in DOMAIN window : window[i] = window[j])
     => score.total = 100 /\ score.insight.driver = "none"

\* allocationComponent's asymmetric penalty: spending more on desires when they
\* have their share never raises the score, and saving more while savings are
\* below their share and target never lowers it.
OverspendingNeverPays(period, spent, window, score, deviation) ==
  LET NowTotal(t) == HealthScore(period, More(spent, t), window).total
      Below(t) == Deviation(period.percent, More(spent, t), DOMAIN deviation)[t] <= 0
  IN /\ deviation["desires"] >= 0 /\ Total(spent, DOMAIN deviation) > 0
        => NowTotal("desires") <= score.total
     /\ /\ "savings" \in DOMAIN deviation /\ spent.savings < SavingsTarget(period)
        /\ Below("savings") /\ Total(spent, Types) > 0
        => NowTotal("savings") >= score.total

\* buildInsight's defensive branch is unreachable: an allocation below its maximum
\* has a category over its share and one under it.
RebalancingIsNamed(score, deviation) ==
  score.insight.driver = "allocation" /\ score.insight.points > 0
  => MostOver(deviation) # {} /\ MostUnder(deviation) # {}

\* All three, of one month.
FairWith(period, spent, window, score, max, deviation) ==
  /\ PlanIsFullMarks(period, spent, window, score, max)
  /\ OverspendingNeverPays(period, spent, window, score, deviation)
  /\ RebalancingIsNamed(score, deviation)
ScoresAreFair(period, spent, window) ==
  FairWith(period, spent, window, HealthScore(period, spent, window), Maxima(Present(period, window)),
           Deviation(period.percent, spent, Categories(Present(period, window))))
=============================================================================
