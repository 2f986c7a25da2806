------------------------------ MODULE Services ------------------------------
(***************************************************************************)
(* The parts of the services that do not share state, side by side: each   *)
(* behaviour is one of one part.  Export, ImmudbSession, RateCache and     *)
(* StoredScores are state machines; of the calculations (Conversion,       *)
(* HealthScore, Dashboard, ExpenseReads, Gateway) a behaviour chooses one  *)
(* input, and the property evaluates the calculation.                      *)
(*                                                                         *)
(* The constants are those of the parts, under the same names.             *)
(***************************************************************************)
EXTENDS Integers, Sequences, FiniteSets

CONSTANTS Parts,
          RowIds, Seconds, Tags, OldTags, GoneTags, Mappers, PageSize, MaxInserts, MaxErrors,
          MaxRows,  \* bound: the expenses that a user has when an export begins
          Statements, MaxSessions, MaxLosses, MaxFailures,
          Currencies, MinorUnits, MaxAmount,
          Requests, Inputs, Offers, MaxAge, RetryCount, TicksPerSecond, LastTick,
          Readers, LastMonth, WindowMonths, Ahead, MaxWrites, MaxVersion,
          DefaultPageSize, MaxPageSize, RequestedPageSize,
          ConversionInputs, ScoreInputs, FigureInputs, ListingInputs, RequestInputs

\* Ids are finitely many naturals, seconds are naturals, a page is not empty, no tag
\* is deleted and still there, and "expenses" is the provider that is no mapper.
ASSUME ExportAssumption ==
  /\ RowIds \subseteq Nat /\ IsFiniteSet(RowIds) /\ Seconds \subseteq Nat \ {0}
  /\ OldTags \subseteq Tags /\ GoneTags \subseteq Tags /\ OldTags \cap GoneTags = {}
  /\ "expenses" \notin Mappers /\ "none" \notin Mappers
  /\ PageSize \in Nat \ {0} /\ MaxInserts \in Nat /\ MaxErrors \in Nat

\* A holder of the mutex is 0, a session or a statement.
ASSUME ImmudbAssumption == MaxSessions \in Nat /\ Statements \cap (0..MaxSessions) = {}

\* The inputs hold supported currencies, positive amounts and positive rates: what
\* validateConversion and convertFromRates let through.
ASSUME FxAssumption ==
  /\ MaxAge \in Nat /\ RetryCount \in Nat /\ TicksPerSecond \in Nat \ {0} /\ LastTick \in Nat
  /\ Offers \in Seq([Currencies -> Nat])
  /\ MinorUnits \in [Currencies -> Nat \ {0}] /\ MaxAmount \in Nat
  /\ ConversionInputs \subseteq
       [amount : 1..MaxAmount, source : Currencies, target : Currencies,
        rates : [Currencies -> Nat \ {0}]]

\* Months are numbered from 1.
ASSUME ScoresAssumption == LastMonth \in Nat

\* A user's expenses are finitely many, under ids of their own.
AreExpenses(held) ==
  /\ IsFiniteSet(held)
  /\ \A r \in held : /\ r.id \in Nat /\ r.name \in Nat /\ r.at \in Int /\ r.index \in Int /\ r.amount \in Nat
                      /\ r.active \in BOOLEAN /\ r.date \in Nat \X (1..12) \X (1..31)
  /\ \A r, s \in held : r.id = s.id => r = s

ASSUME ReadsAssumption ==
  /\ DefaultPageSize \in Nat \ {0} /\ MaxPageSize \in Nat
  /\ \A x \in ListingInputs : AreExpenses(x.held) /\ x.today \in Int /\ x.size \in Int

VARIABLES part,
          sample,    \* the input of a calculation
          table, tags, names, job, collected, first, late, producer, rows, errc, consumer, wire, archive,
          owed, broken,
          alive, closed, opened, client, generation, holder, beat, pc, seen, losses, failures, hasty,
          time, cached, rpc, input, looked, attempt, fetched, result,
          today, budgets, spending, scores, formula, reader, editing, writes, outdated

exportVars == <<table, tags, names, job, collected, first, late, producer, rows, errc, consumer, wire, archive,
                owed, broken>>
immudbVars == <<alive, closed, opened, client, generation, holder, beat, pc, seen, losses, failures, hasty>>
fxVars == <<time, cached, rpc, input, looked, attempt, fetched, result>>
scoreVars == <<today, budgets, spending, scores, formula, reader, editing, writes, outdated>>

vars == <<part, sample, exportVars, immudbVars, fxVars, scoreVars>>
-----------------------------------------------------------------------------
(* The instances.                                                          *)

E == INSTANCE Export
I == INSTANCE ImmudbSession
R == INSTANCE RateCache
C == INSTANCE Conversion
S == INSTANCE StoredScores
H == INSTANCE HealthScore
D == INSTANCE Dashboard
G == INSTANCE Gateway

\* A path is a sequence of segments, a cookie is there or not, a session is valid or
\* not, and what can be reached is a set of services.
ASSUME RequestsAssumption ==
  \A x \in RequestInputs :
    /\ x.request.path \in Seq(STRING) /\ x.request.cookie \in BOOLEAN
    /\ x.validated.ok \in BOOLEAN /\ x.up \subseteq G!Services

\* A month is scored by amounts that are not negative: its budget and percentages are
\* validated, its spending and that of the recent months are sums of positive amounts.
ASSUME MonthsAssumption ==
  \A x \in ScoreInputs :
    /\ x.period.budget \in Nat /\ x.period.percent \in [H!Types -> Nat]
    /\ x.spent \in [H!Types -> Nat] /\ x.window \in Seq(Nat)

\* A period's budget and percentages are not negative, an expense has a type and the
\* date of a day: what the handlers of both services validate.
ASSUME FiguresAssumption ==
  \A x \in FigureInputs :
    /\ AreExpenses(x.held)
    /\ \A r \in x.held : r.type \in D!ExpenseTypes /\ r.date[3] <= D!DaysInMonth(r.date[1], r.date[2])
    /\ x.of \in DOMAIN x.periods /\ x.of \in Nat
    /\ x.periods[x.of].year \in Nat /\ x.periods[x.of].month \in 1..12
    /\ x.periods[x.of].budget \in Nat /\ x.periods[x.of].percent \in [D!ExpenseTypes -> Nat]
    /\ x.now \in Nat \X (1..12) \X (1..31) /\ x.months \in Int
-----------------------------------------------------------------------------
NoSample == << >>

Init ==
  /\ part \in Parts /\ sample = NoSample
  /\ E!Init /\ Cardinality(table) <= (IF part = "export" THEN MaxRows ELSE 0)
  /\ I!Init /\ R!Init /\ S!Init

ExportStep ==
  /\ part = "export" /\ E!Next
  /\ UNCHANGED <<part, sample, immudbVars, fxVars, scoreVars>>

ImmudbStep ==
  /\ part = "immudb" /\ I!Next
  /\ UNCHANGED <<part, sample, exportVars, fxVars, scoreVars>>

FxStep ==
  /\ part = "fx" /\ R!Next
  /\ UNCHANGED <<part, sample, exportVars, immudbVars, scoreVars>>

StoredScoreStep ==
  /\ part = "stored scores" /\ S!Next
  /\ UNCHANGED <<part, sample, exportVars, immudbVars, fxVars>>

Choose(calculation, inputs) ==
  /\ part = calculation /\ sample = NoSample
  /\ sample' \in inputs
  /\ UNCHANGED <<part, exportVars, immudbVars, fxVars, scoreVars>>

Next ==
  \/ ExportStep \/ ImmudbStep \/ FxStep \/ StoredScoreStep
  \/ Choose("conversion", ConversionInputs) \/ Choose("score", ScoreInputs)
  \/ Choose("figures", FigureInputs) \/ Choose("listing", ListingInputs)
  \/ Choose("request", RequestInputs)

\* The goroutines of an export run.
Spec == Init /\ [][Next]_vars /\ (part = "export" => E!Fairness)

Chosen(calculation) == part = calculation /\ sample # NoSample
-----------------------------------------------------------------------------
(* Properties: those of the modules.                                       *)

\* StreamAllUserExpenses, resolveTagName: an archive that was sent has every expense
\* of the user once and in order, whatever was written meanwhile, under the name of
\* a tag that was kept and as "Unknown" if its tag was deleted before.
ArchiveIsComplete == E!ArchiveIsComplete

\* runExport: a failed job blames a provider that failed by itself.
FailuresAreNamed == E!FailuresAreNamed

\* runExport, produceExpensePages: a job and the goroutines of its stream end.
ExportEnds == part = "export" => E!ExportEnds

\* SQLExec, SQLQuery: one lost session fails no statement that finds it, and none that
\* begins after another has reopened it.
FoundLossFailsNoStatement == I!FoundLossFailsNoStatement

\* GetFresh, providerSnapshot: answers hold no rates that are too old.
RatesAreFresh == R!RatesAreFresh

\* resolveHealthScore: a stored score is what would be computed now.
StoredScoreIsFinal == S!StoredScoreIsFinal

\* convertFromRates: an amount converts to the nearest one, and larger amounts to
\* no smaller ones.
ConversionIsNearest ==
  Chosen("conversion") => C!IsNearest(sample.amount, sample.source, sample.target, sample.rates)

\* ComputeHealthScore: the plan has full marks, leaving it never pays, and the
\* insight says where to go.
ScoresAreFair ==
  Chosen("score") => H!ScoresAreFair(sample.period, sample.spent, sample.window)

\* ComputePeriodSummary and the other cards agree on a month's figures.
FiguresAgree ==
  Chosen("figures") =>
    D!FiguresAgree(sample.held, sample.periods, sample.of, sample.tags, sample.now, sample.months)

\* dashboard.go, getTotalSpentForPeriod: a month's total counts all its expenses.
CountsEveryExpense == Chosen("figures") => D!CountsEveryExpense(sample.held, sample.periods[sample.of])

\* GetActiveExpensesForPeriod, GetExpenseSuggestions: following the pages shows
\* every row once.
ListingsArePaged == Chosen("listing") =>
    D!ListingsArePaged(sample.held, sample.year, sample.month, sample.today, sample.size)

\* AccessControl, Resolve: a request reaches only a handler its caller may use.
RoutesAreGuarded == Chosen("request") => G!RoutesAreGuarded(sample.request, sample.validated, sample.up)
=============================================================================
