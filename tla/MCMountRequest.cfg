CONSTANTS
  Root = Root
  User = User
  NoId = NoId
  Worlds <- AllWorlds
  Starts <- ForAUser
  MaxEdits = 1
  MaxChanges = 2
SPECIFICATION Spec
INVARIANT TypeOK
INVARIANT RootMountsOnlyAllowed
INVARIANT MountpointMade
INVARIANT FormMountsUnit
PROPERTY FormFollows
CHECK_DEADLOCK FALSE
