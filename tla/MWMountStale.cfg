SPECIFICATION Spec
CONSTANTS
  Root = Root
  User = User
  NoId = NoId
  Requests <- Some
  Starts <- FromUser
  Configs <- Sudo
  Uses <- Mounting
  MaxDepth = 2
INVARIANTS
  MountUsesLive
