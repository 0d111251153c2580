SPECIFICATION Spec
CONSTANTS
  h1 = h1
  h2 = h2
  Cidrs = {c1}
  Hosts = {h1, h2}
  Runs <- MCRuns
  DiscoverPer = 1
  FocusPer = 2
  FocusLimit = 1
  Scores = {1}
  Cap = 1
INVARIANTS
  TableSettles
  CountsHonest
PROPERTIES
  WorkingStays
