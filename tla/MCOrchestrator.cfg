\* Two requests at once, one fault.
SPECIFICATION FairSpec
CONSTANTS
  q1 = q1
  q2 = q2
  q3 = q3
  t1 = t1
  t2 = t2
  Requests = {q1, q2, q3}
  Trusted = {q1, q2}
  Parallel <- ChainParallel
  Sequential <- ChainSequential
  Trees = {t1, t2}
  Clean <- MixedTrees
  MaxFaults = 1
INVARIANTS TokenNeedsWholeChain AuditIsPrefixOfChain
PROPERTIES EveryRequestAnswered
CHECK_DEADLOCK FALSE
