CONSTANTS
  u1 = u1  u2 = u2
  Uploads = {u1, u2}
  MaxParts = 3
  Length <- Lengths
  Leftover = Leftover
  NoFile = NoFile
  Nobody = Nobody

SPECIFICATION FairSpec
INVARIANTS
  AloneStoresItsOwn
  AloneFailsOnFaultOnly
  MixesOverlappingOnly
  SuccessLeavesNoFile
PROPERTIES
  EveryUploadEnds
