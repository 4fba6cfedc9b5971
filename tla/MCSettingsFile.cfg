SPECIFICATION Spec
CONSTANTS
  vfat = vfat
  ext4 = ext4
  o1 = o1
  o2 = o2
  Keys = {vfat, ext4}
  Opts = {o1}
  Default <- Shipped
  MaxRuns = 2
  MaxOpens = 2
  MaxEntries = 2
  MaxWrites = 2
CHECK_DEADLOCK FALSE
INVARIANTS
  TypeOK
  EditorsWorkKept
  PromisesKept
