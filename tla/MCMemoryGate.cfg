\* Two modules, four runs of which the names of the first two fit, both stores.
SPECIFICATION Spec
CONSTANTS
  Modules = {1, 2}
  CodeVersions = {"parse", "index"}
  SchemaVersions = {"metres", "feet"}
  Summary <- Contracts
  Thresholds = {1501, 4501, 5501}
  Base = 3
  Widest = 2
  MaxRuns = 4
  MaxEdits = 2
  MaxFaults = 1
  Absent = Absent
  Torn = Torn
INVARIANTS BaselineIsNewest CachedMeansPassed BlockNeedsChange
PROPERTIES NeverOverwrites
CHECK_DEADLOCK FALSE
