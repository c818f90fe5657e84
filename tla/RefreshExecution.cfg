SPECIFICATION ExecutionSpec
CONSTANT MaxReports = 2
INVARIANTS
  RowsAgree
  FailureShowsWhere
PROPERTY ProgressIsMonotone
