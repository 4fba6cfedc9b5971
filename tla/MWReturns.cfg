SPECIFICATION FairSpec
CONSTANTS
  Root = Root
  User = User
  NoId = NoId
  Requests <- One
  Starts <- FromUser
  Configs <- Sudo
  Uses <- Plugging
  MaxDepth = 2
PROPERTIES
  HandlersReturn
  ListCatchesUp
