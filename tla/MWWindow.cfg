SPECIFICATION Spec
CONSTANTS
  Root = Root
  User = User
  NoId = NoId
  Requests <- Pair
  Starts <- ForAUser
  Configs <- Sudo
  Uses <- Window
  MaxDepth = 2
INVARIANTS
  TypeOK
  CommandsRunWhole
  RootRunsOnlyAllowed
  PointersLive
  QuietIsFresh
PROPERTIES
  LexicallyScoped
