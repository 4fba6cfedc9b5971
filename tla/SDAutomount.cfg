SPECIFICATION Spec
CONSTANTS
  sda1 = sda1
  label = label
  escaped = escaped
  other = other
  Names <- AllNames
  Device <- Own
  Begins <- Itself
  Esc <- Escapes
  Fstabs <- SomeFstabs
  MaxAccepts = 1
  MaxLines = 3
CHECK_DEADLOCK FALSE
INVARIANTS
  AutomountWritten
