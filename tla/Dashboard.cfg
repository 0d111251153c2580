SPECIFICATION Spec
CONSTANTS
  Ips = {1, 2}
  Grades = {0, 1, 2}
  Healthy = 2
  Filters <- MCFilters
  Top = 2
  Visible = 1
  HistoryCap = 2
  Sessions <- MCSessions
  RevisionSpan = 2
INVARIANTS
  TableTrue
  ComparisonKept
