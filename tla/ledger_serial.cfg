SPECIFICATION SerialSpec
CONSTANTS
  Users = {u1, u2}
  Keys = {k1}
  Workers = {w1, w2}
  NoKey = NoKey
  Deleted = Deleted
  Converted <- RoundedToZero
  MaxRows = 3
  MaxMonth = 1
INVARIANT OneRowPerKey
INVARIANT AtMostOneActivePerChain
INVARIANT HistoryFromFirstEntry
PROPERTY ImplementsAtomicLedger
