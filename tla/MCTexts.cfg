CONSTANTS
  Alphabet <- MCAlphabet
  Longest <- MCLongest
  NetworksOk <- MCNetworksOk
  DEFAULT_MOUNTP <- MCDefault
SPECIFICATION Spec
\* The inputs end at their bound.
CHECK_DEADLOCK FALSE
INVARIANTS
  NamesMade
  EncodingsKept
  DialogReadBack
  SettingsKept
