\* Two sessions over two repositories, two conductors that go away.
SPECIFICATION Spec
CONSTANTS
  here = here
  there = there
  RepoOrder <- TwoRepos
  Modules = {"m"}
  MaxSessions = 2
  MaxFaults = 2
INVARIANTS GateNeverStale PointersInOrder GoneMeansQueued RepeatsNeedCrashes HistoryMovesForward
CHECK_DEADLOCK FALSE
