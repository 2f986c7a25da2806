---------------------------- MODULE StoredScores ----------------------------
(***************************************************************************)
(* The finance service's stored health scores of one user: the score of a  *)
(* month that is over is stored by whoever reads it first, while expenses  *)
(* are written, the budget is edited and the months pass.                  *)
(*                                                                         *)
(* Months are numbered.  A score is the inputs it was computed from: the   *)
(* budget, the month's spending and the spending of the months in its      *)
(* window.  Spending is a number that every write makes different.         *)
(***************************************************************************)
EXTENDS Naturals, FiniteSets

CONSTANTS Readers,
          LastMonth,
          WindowMonths,  \* stabilityWindowMonths
          Ahead,         \* months a client's calendar may be ahead of the server's
          MaxWrites,     \* bound: expenses and budgets that are changed
          MaxVersion     \* bound: formula versions

VARIABLES today,     \* the server's month
          budgets,   \* of the periods: NoPeriod, 0 for one that is not configured
          spending,
          scores,    \* the rows of health_scores
          formula,   \* the version that is deployed
          reader,
          editing,   \* the month of an UpdatePeriod that was let through, or 0
          writes,
          outdated   \* history: months that have a row with inputs written too late for it

scoreVars == <<today, budgets, spending, scores, formula, reader, editing, writes, outdated>>

Months == 1..LastMonth
NoPeriod == 100
NoScore == [version |-> 0, budget |-> 0, spent |-> 0, window |-> {}]

\* What a request has read so far; overtaken is history: an input was written since,
\* or the month had not begun.
Idle == [pc |-> "idle", periods |-> [m \in Months |-> NoPeriod], todo |-> {}, month |-> 0,
         spent |-> 0, unread |-> {}, window |-> {}, overtaken |-> FALSE]

\* The first month of a user with a budget.
Init ==
  /\ today = 1
  /\ budgets = [m \in Months |-> IF m = 1 THEN 1 ELSE NoPeriod]
  /\ spending = [m \in Months |-> 0]
  /\ scores = [m \in Months |-> NoScore]
  /\ formula = 1 /\ reader = [r \in Readers |-> Idle]
  /\ editing = 0 /\ writes = 0 /\ outdated = {}
-----------------------------------------------------------------------------
(* Reading the score of a month, and those of several.                     *)

\* Mutated predicate: the current month counts as over.
IsProvisionalBefore(m) == m > today

IsProvisional(m) == m = today

IsCurrent(row) == row.version = formula

\* The periods that a request goes on with.
Kept(periods, S) == [m \in Months |-> IF m \in S THEN periods[m] ELSE NoPeriod]

\* GetHealthScore: a month without a period or a budget is answered at once.
AskForCard(r, m) ==
  /\ reader[r] = Idle
  /\ budgets[m] \notin {NoPeriod, 0}
  /\ reader' = [reader EXCEPT ![r] = [Idle EXCEPT !.pc = "resolve", !.periods = Kept(budgets, {m}),
                                           !.month = m]]
  /\ UNCHANGED <<today, budgets, spending, scores, formula, editing, writes, outdated>>

\* GetHealthScoreTrend: the list of the periods ...
AskForTrend(r, m) ==
  /\ reader[r] = Idle
  /\ LET asked == {k \in 1..m : budgets[k] \notin {NoPeriod, 0}}
     IN reader' = [reader EXCEPT ![r] =
          [Idle EXCEPT !.pc = "scalars", !.periods = Kept(budgets, asked), !.todo = asked]]
  /\ UNCHANGED <<today, budgets, spending, scores, formula, editing, writes, outdated>>

\* ... and the stored totals, which answer for the months that are not provisional.
ListScalars(r) ==
  /\ reader[r].pc = "scalars"
  /\ LET left == {m \in reader[r].todo : IsProvisional(m) \/ ~ IsCurrent(scores[m])}
     IN reader' = [reader EXCEPT ![r] =
          IF left = {} THEN Idle
          ELSE [reader[r] EXCEPT !.pc = "next", !.todo = left, !.periods = Kept(reader[r].periods, left)]]
  /\ UNCHANGED <<today, budgets, spending, scores, formula, editing, writes, outdated>>

\* The other months are resolved one after the other.
NextMonth(r) ==
  /\ reader[r].pc = "next"
  /\ \E m \in reader[r].todo :
       /\ \A k \in reader[r].todo : m <= k
       /\ reader' = [reader EXCEPT ![r].pc = "resolve", ![r].month = m, ![r].todo = @ \ {m}]
  /\ UNCHANGED <<today, budgets, spending, scores, formula, editing, writes, outdated>>

\* A card's request ends here, a trend's goes on with its next month.
Answered(r) ==
  [reader EXCEPT ![r] =
     IF @.todo = {} THEN Idle
     ELSE [Idle EXCEPT !.pc = "next", !.periods = Kept(reader[r].periods, reader[r].todo),
                       !.todo = reader[r].todo, !.overtaken = reader[r].overtaken]]

\* resolveHealthScore: a provisional month's score is computed and not stored; one
\* of a month that the server has not reached is.
Resolve(r) ==
  /\ reader[r].pc = "resolve"
  /\ reader' = IF IsProvisional(reader[r].month) THEN Answered(r)
               ELSE [reader EXCEPT ![r].pc = "look up", ![r].overtaken = @ \/ reader[r].month > today]
  /\ UNCHANGED <<today, budgets, spending, scores, formula, editing, writes, outdated>>

LookUp(r) ==
  /\ reader[r].pc = "look up"
  /\ reader' = IF IsCurrent(scores[reader[r].month]) THEN Answered(r) ELSE [reader EXCEPT ![r].pc = "expenses"]
  /\ UNCHANGED <<today, budgets, spending, scores, formula, editing, writes, outdated>>

\* computeHealthScore
ReadExpenses(r) ==
  /\ reader[r].pc = "expenses"
  /\ reader' = [reader EXCEPT ![r].pc = "periods", ![r].spent = spending[reader[r].month]]
  /\ UNCHANGED <<today, budgets, spending, scores, formula, editing, writes, outdated>>

\* The most recent months up to m that are not provisional.
Window(m) ==
  LET eligible == {k \in 1..m : budgets[k] # NoPeriod /\ ~ IsProvisional(k)}
  IN {k \in eligible : Cardinality({l \in eligible : l > k}) < WindowMonths}

ListPeriods(r) ==
  /\ reader[r].pc = "periods"
  /\ reader' = [reader EXCEPT ![r].pc = "window", ![r].unread = Window(reader[r].month)]
  /\ UNCHANGED <<today, budgets, spending, scores, formula, editing, writes, outdated>>

\* The months of the window are read next to each other.
ReadWindow(r, m) ==
  /\ reader[r].pc = "window" /\ m \in reader[r].unread
  /\ reader' = [reader EXCEPT ![r].unread = @ \ {m}, ![r].window = @ \cup {<<m, spending[m]>>}]
  /\ UNCHANGED <<today, budgets, spending, scores, formula, editing, writes, outdated>>

Upsert(r) ==
  /\ reader[r].pc = "window" /\ reader[r].unread = {}
  /\ LET m == reader[r].month
     IN /\ scores' = [scores EXCEPT ![m] =
              [version |-> formula, budget |-> reader[r].periods[m], spent |-> reader[r].spent,
               window |-> reader[r].window]]
        /\ outdated' = IF reader[r].overtaken THEN outdated \cup {m} ELSE outdated \ {m}
  /\ reader' = Answered(r)
  /\ UNCHANGED <<today, budgets, spending, formula, editing, writes>>

\* The write fails, and the score is returned all the same.
UpsertFails(r) ==
  /\ reader[r].pc = "window" /\ reader[r].unread = {}
  /\ reader' = Answered(r)
  /\ UNCHANGED <<today, budgets, spending, scores, formula, editing, writes, outdated>>
-----------------------------------------------------------------------------
(* What the score is computed from changes.                                *)

Closed(m) == m < today

\* A write to a month that is over, and the requests under way, are too late for
\* the rows of that month and of the later ones.
Overtake(m) ==
  /\ outdated' = outdated \cup {k \in Months : m <= k /\ Closed(m)}
  /\ reader' = [r \in Readers |-> IF reader[r] = Idle THEN Idle ELSE [reader[r] EXCEPT !.overtaken = TRUE]]

Write(m) ==
  /\ writes < MaxWrites /\ writes' = writes + 1
  /\ Overtake(m)

\* CreateExpense, CorrectExpense or DeleteExpense, in a month that has a period:
\* the expense service does not ask whether the month is over.
WriteExpense(m) ==
  /\ budgets[m] # NoPeriod
  /\ spending' = [spending EXCEPT ![m] = @ + 1]
  /\ Write(m)
  /\ UNCHANGED <<today, budgets, scores, formula, editing>>

\* UpdatePeriod: the clock is read ...
LetThrough(m) ==
  /\ editing = 0 /\ m = today /\ budgets[m] # NoPeriod
  /\ editing' = m
  /\ UNCHANGED <<today, budgets, spending, scores, formula, reader, writes, outdated>>

\* ... and the row is updated.
UpdatePeriod ==
  /\ editing # 0
  /\ budgets' = [budgets EXCEPT ![editing] = IF @ = 0 THEN 1 ELSE @ + 1]
  /\ Write(editing)
  /\ editing' = 0
  /\ UNCHANGED <<today, spending, scores, formula>>

\* CreatePeriodWithProRata for the client's month; budget 0 is one not configured.
CreatePeriod(m, budget) ==
  /\ m \in Months /\ budgets[m] = NoPeriod
  /\ m <= today + Ahead /\ \A k \in 1..(m - 1) : budgets[k] # NoPeriod
  /\ budgets' = [budgets EXCEPT ![m] = budget]
  /\ Overtake(m)
  /\ UNCHANGED <<today, spending, scores, formula, editing, writes>>

NextMonthBegins ==
  /\ today < LastMonth + 1 /\ today' = today + 1
  /\ UNCHANGED <<budgets, spending, scores, formula, reader, editing, writes, outdated>>

\* A new version is deployed: the requests under way are gone.
Deploy ==
  /\ formula < MaxVersion /\ formula' = formula + 1
  /\ reader' = [r \in Readers |-> Idle] /\ editing' = 0
  /\ UNCHANGED <<today, budgets, spending, scores, writes, outdated>>

Next ==
  \/ \E r \in Readers :
       \/ \E m \in Months : AskForCard(r, m) \/ AskForTrend(r, m) \/ ReadWindow(r, m)
       \/ ListScalars(r) \/ NextMonth(r) \/ Resolve(r) \/ LookUp(r) \/ ReadExpenses(r) \/ ListPeriods(r)
       \/ Upsert(r) \/ UpsertFails(r)
  \/ \E m \in Months : WriteExpense(m) \/ LetThrough(m) \/ CreatePeriod(m, 0) \/ CreatePeriod(m, 1)
  \/ UpdatePeriod \/ NextMonthBegins \/ Deploy

Spec == Init /\ [][Next]_scoreVars
-----------------------------------------------------------------------------
(* Properties.                                                             *)

\* resolveHealthScore: a stored row of the deployed version is what would be
\* computed now, so that a card and a trend may take it without looking at the
\* expenses, unless something was written to a month after it was over, or while
\* the request that stored the row was under way, or the row was stored before the
\* server's calendar had reached its month.
StoredScoreIsFinal ==
  \A m \in Months : IsCurrent(scores[m]) /\ m \notin outdated =>
    /\ scores[m].budget = budgets[m] /\ scores[m].spent = spending[m]
    /\ scores[m].window = {<<k, spending[k]>> : k \in Window(m)}
=============================================================================
