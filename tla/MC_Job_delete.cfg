CONSTANTS
  MaxPods = 3
  MaxPolls = 3
SPECIFICATION Spec
INVARIANTS
  DeleteReclaimsPods
