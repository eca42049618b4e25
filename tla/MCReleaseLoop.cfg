\* Three agents, two of them with dependencies, two faults.
SPECIFICATION FairSpec
CONSTANTS
  a1 = a1
  a2 = a2
  a3 = a3
  Agents = {a1, a2, a3}
  Order <- ThreeAgents
  Deps <- Backwards
  MaxFaults = 2
INVARIANTS WindowsNeedFaults ResumeLosesNothing NeverStalls
PROPERTIES ImplementsLaunch LaunchReturns
CHECK_DEADLOCK FALSE
