SPECIFICATION Spec
CONSTANTS
  Root = Root
  User = User
  NoId = NoId
  MaxDepth = 4
INVARIANTS
  TypeOK
  UserIffArmed
PROPERTIES
  LexicallyScoped
