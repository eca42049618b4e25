\* Two agents, no crash: a module that was given up stays in live/.
SPECIFICATION Spec
CONSTANTS
  x = x
  y = y
  s1 = s1
  s2 = s2
  heap = heap
  NoSig = NoSig
  N = 2
  Key <- TwoKeys
  Versions <- TwoVersions
  Template <- TwoTemplates
  Soft = {}
  MaxCrashes = 0
INVARIANTS ProvedIsConsistent
CHECK_DEADLOCK FALSE
