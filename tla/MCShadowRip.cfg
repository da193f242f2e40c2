SPECIFICATION Spec
CONSTANTS
  Slots = {s1, s2}
  NoSlot = noslot
  MaxDepth = 2
INVARIANTS TypeOK GsripFollowsControl PointersRestored IntegrityRestored BranchGoesThrough DataThroughGsrip
CHECK_DEADLOCK FALSE
SYMMETRY Symmetry
