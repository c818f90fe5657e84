SPECIFICATION ExecutionSpec
CONSTANT MaxReports = 0
INVARIANT StrictRunHasBuyee
