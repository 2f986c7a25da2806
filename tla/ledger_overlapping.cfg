SPECIFICATION Spec
CONSTANTS
  Users = {u1}
  Keys = {k1}
  Workers = {w1, w2}
  NoKey = NoKey
  Deleted = Deleted
  Converted <- Rounded
  MaxRows = 3
  MaxMonth = 2
SYMMETRY WorkerSymmetry
INVARIANT TypeOK
INVARIANT SupersededIsRetired
INVARIANT CorrectionInItsPeriod
PROPERTY RowsOnlyRetire
