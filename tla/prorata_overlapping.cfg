SPECIFICATION Spec
CONSTANTS
  Workers = {w1, w2}
  Currencies = {usd, eur}
  Groups = {g1}
  Months <- TurnOfTheYear
  Totals <- UnevenAndSmall
  MaxSpread = 3
  NoPeriod = NoPeriod
SYMMETRY Symmetric
INVARIANTS TypeOK CreatedPlansAreWhole MissedMonthsAreCreated
INVARIANTS OneExpensePerInstallment SettledAgreesWithLedger
PROPERTY SettledStaysSettled
