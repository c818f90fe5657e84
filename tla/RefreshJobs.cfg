SPECIFICATION Spec
CONSTANTS
  a1 = a1
  a2 = a2
  w1 = w1
  w2 = w2
  Account = {a1, a2}
  WorkerId = {w1, w2}
  NoOne = NoOne
  Input = {}
  NoInput = NoInput
  Marketplace = {"buyee", "ebay"}
  Reported <- McReported
  Tallies <- McTallies
  MaxJobs = 2
  LeaseTime = 2
  MaxAttempts = 2
  MaxCancels = 1
SYMMETRY Symmetric
CHECK_DEADLOCK FALSE
INVARIANTS
  OneActivePerAccount
  EventsTellJob
PROPERTIES
  KeepsPromise
