\* Two conductors on one staging base, two agents, two repositories.
SPECIFICATION RoutingSpec
CONSTANTS
  Conductors = {c1, c2}
  c1 = c1
  c2 = c2
  Team = {1, 2}
  Paths = {"main", "lib"}
  Names = {"default", "main", "lib"}
  NameOf <- Called
  Roots = {"main"}
  MaxSessions = 2
  MaxNamed = 2
  MaxKills = 1
SYMMETRY Symmetry
INVARIANTS RoutedAsTyped CopiedWhereQueued
CHECK_DEADLOCK FALSE
