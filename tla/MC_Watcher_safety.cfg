CONSTANTS
  n1 = n1
  n2 = n2
  Names <- MCNames
  MaxRV = 4
  Provisioner = "hostpath"
SYMMETRY MCSymmetry
SPECIFICATION Spec
INVARIANTS
  TypeOK
  CacheCoversServer
  NoUnsafeState

PROPERTIES
  EventsHandledInOrder
  CacheRefinement
