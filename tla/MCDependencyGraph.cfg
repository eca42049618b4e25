\* All graphs over four agents, in up to two repositories.
SPECIFICATION Spec
CONSTANTS
  here = here
  there = there
  Agents = {1, 2, 3, 4}
  Foreign = {5}
  Repos = {here, there}
INVARIANTS CycleVerdict OrderIsLeast FirstAgentsAreServed
CHECK_DEADLOCK FALSE
