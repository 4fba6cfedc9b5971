SPECIFICATION Spec
CONSTANTS
  sda1 = sda1
  label = label
  escaped = escaped
  other = other
  Names <- AllNames
  Device <- Own
  Begins <- Itself
  Esc <- Escapes
  Fstabs <- SomeFstabs
  MaxAccepts = 2
  MaxLines = 4
CHECK_DEADLOCK FALSE
INVARIANTS
  TypeOK
  OthersKept
  OneEntry
  ReportedDone
PROPERTIES
  AskedFirst
