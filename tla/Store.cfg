SPECIFICATION Spec
CONSTANTS
  CharIds <- CharIdSet
  CampIds <- CampIdSet
  Owners <- OwnerSet
  a = a
  b = b
  Texts <- TextSet
  MaxMessages = 2
INVARIANTS BackendsHoldTheSame
PROPERTIES MemoryServes
SYMMETRY TextSymmetry
