SPECIFICATION WorkerSpec
CONSTANTS
  w1 = w1
  w2 = w2
  p1 = p1
  p2 = p2
  h = h
  Account = {a1}
  WorkerId = {w1, w2}
  NoOne = NoOne
  Input = {}
  NoInput = NoInput
  Marketplace = {"buyee"}
  Reported = {"done", "failed", "skipped"}
  Tallies = {{}}
  MaxJobs = 1
  LeaseTime = 2
  MaxAttempts = 3
  MaxCancels = 1
  Process = {p1, p2}
  NoProcess = NoProcess
  Host = {h}
  HostOf <- McHostOf
  IdOf <- McIdOf
  MaxFaults = 2
INVARIANTS
  OwnerIsClaimant
  NoStrayChild
PROPERTIES
  CompletedByRunner
  JobSettles
  StopIsHonoured
