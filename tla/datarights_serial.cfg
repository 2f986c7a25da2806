SPECIFICATION SerialSpec
CONSTANTS
  Users = {u1}
  Handlers = {h1}
  MaxConcurrent = 1
  MaxJobs = 3
  MaxCrashes = 1
  NoUser = NoUser
SYMMETRY Symmetric
INVARIANTS OneInProgressPerUser OneExportPerWindow
