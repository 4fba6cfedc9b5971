SPECIFICATION FairSpec
CONSTANTS
  Input = 4
  ShortTail = TRUE
  Capacity = 1
  MaxOutput = 2
  Interrupts = TRUE
INVARIANTS
  TypeOK
  OutputComplete
  StatusTrue
  InputComplete
PROPERTIES
  Returns
