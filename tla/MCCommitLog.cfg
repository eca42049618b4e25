\* A developer behind either hook, a queue worker and two devlog writers; chains
\* of two gates save five rows and tokens.
SPECIFICATION Spec
CONSTANTS
  Developers = {"dev"}
  Workers = {"worker"}
  Writers = {w1, w2}
  w1 = w1
  w2 = w2
  Gates = 2
  MaxCommits = 2
  MaxSaves = 5
  MaxFaults = 1
SYMMETRY Symmetry
CONSTRAINT Apart
INVARIANTS ConsumedIsNarrated LostOnlyInRaces NarratedOnce RecordsOwnRunOrLater
CHECK_DEADLOCK FALSE
