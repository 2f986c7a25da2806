SPECIFICATION SteadySpec
CONSTANTS
  Users = {u1}
  Handlers = {h1}
  MaxConcurrent = 1
  MaxJobs = 2
  MaxCrashes = 1
  NoUser = NoUser
PROPERTY JobsEnd
