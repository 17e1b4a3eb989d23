SPECIFICATION Spec
CONSTANTS
  DirEntries = 3
  TableEntries = 4
  WindowDir = 2
  WindowFrame = 1
  Resident <- MCResident
  Mappable <- MCMappable
  TlbSize = 2
INVARIANTS
  KernelReached
  LatestMapping
