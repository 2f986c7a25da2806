SPECIFICATION Spec
CONSTANTS
  Parts = {"figures"}
  RowIds = {1, 2}
  Seconds = {1, 2}
  Tags = {"old", "gone"}
  OldTags = {"old"}
  GoneTags = {"gone"}
  Mappers = {"profile"}
  PageSize = 1
  MaxInserts = 1
  MaxErrors = 1
  MaxRows = 2
  Statements = {11, 12, 13}
  MaxSessions = 4
  MaxLosses = 2
  MaxFailures = 1
  Currencies <- MCCurrencies
  MinorUnits <- MCMinorUnits
  MaxAmount = 99
  Requests = {"r1", "r2"}
  Inputs <- MCInputs
  Offers <- MCOffers
  MaxAge = 3
  RetryCount = 1
  TicksPerSecond = 2
  LastTick = 4
  Readers = {1}
  LastMonth = 2
  WindowMonths = 2
  Ahead = 1
  MaxWrites = 1
  MaxVersion = 1
  DefaultPageSize = 3
  MaxPageSize = 5
  RequestedPageSize = 10
  ConversionInputs <- MCConversionInputs
  ScoreInputs <- MCScoreInputs
  FigureInputs <- MCFigureInputs
  ListingInputs <- MCListingInputs
  RequestInputs <- MCRequestInputs
INVARIANT CountsEveryExpense
CHECK_DEADLOCK FALSE
