\* One worker, as "a single worker per repo drains the queue" intends, in a
\* worktree that somebody else uses too.
SPECIFICATION Spec
CONSTANTS
  r1 = r1
  w1 = w1
  w2 = w2
  f1 = f1
  f2 = f2
  Repos = {r1}
  Files = {f1, f2}
  Workers = {w1}
  WorkerRepo <- SameRepo
  Shared = {r1}
  MaxEntries = 2
  MaxFaults = 2
  MaxOutside = 1
INVARIANTS TokenProvesSerial CommitOwnsItsFiles LossesNeedFaults
PROPERTIES ImplementsSerial
CONSTRAINT OneFileEdited
CHECK_DEADLOCK FALSE
