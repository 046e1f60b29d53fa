SPECIFICATION Spec
CONSTANTS
  Names = {l1, l2, l3, l4}
  Readers = {r1}
  MaxChanges = 2
  MaxDrops = 1
SYMMETRY Symmetry
INVARIANTS
  TypeOK
  CacheMirrors
  WalksMissNothing
