SPECIFICATION TxnSpec
CONSTANTS
  Session = {s1, s2}
  Worker = {w1, w2}
  Nobody = Nobody
  Job = {j1, j2}
  Account = {a1, a2}
  LeaseTime = 1
  MaxAge = 1
SYMMETRY Alike
CHECK_DEADLOCK FALSE
INVARIANTS
  CompletedRowsHold
  CreatesNeverCollide
  CirclesNeedAnEnd
PROPERTIES
  LeasesMeetAcrossABeat
  RecoveryNeedsExpiry
  ReportsAreTheOwners
  EachJobIsPromised
