\* Four agents, one dropped and one that stages nothing, one crash.
SPECIFICATION FairSpec
CONSTANTS
  x = x
  y = y
  s1 = s1
  s2 = s2
  heap = heap
  NoSig = NoSig
  N = 4
  Key <- FourKeys
  Versions <- FourVersions
  Template <- FourTemplates
  Soft = {2}
  MaxCrashes = 1
INVARIANTS ReadsFinishedWork PeersAgreeWhenProved
PROPERTIES WaitEnds
CHECK_DEADLOCK FALSE
