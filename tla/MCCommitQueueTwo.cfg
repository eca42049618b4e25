\* Two workers for one repository: start_all.sh starts one without looking, and
\* _worker_running() answers False when pgrep is missing.
SPECIFICATION FairSpec
CONSTANTS
  r1 = r1
  w1 = w1
  w2 = w2
  f1 = f1
  f2 = f2
  Repos = {r1}
  Files = {f1}
  Workers = {w1, w2}
  WorkerRepo <- SameRepo
  MaxEntries = 2
  MaxFaults = 1
  MaxOutside = 0
  Shared = {}
CHECK_DEADLOCK FALSE
INVARIANTS ClaimExclusive CommittedOnce
PROPERTIES VerdictFinal EverySettles
