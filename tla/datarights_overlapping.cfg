SPECIFICATION Spec
CONSTANTS
  Users = {u1}
  Handlers = {h1, h2}
  MaxConcurrent = 1
  MaxJobs = 2
  MaxCrashes = 1
  NoUser = NoUser
SYMMETRY Symmetric
INVARIANTS OneRunnerPerJob AccountIsErasedLast
PROPERTY ImplementsLifecycle
