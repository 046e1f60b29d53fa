SPECIFICATION Spec
CONSTANTS
  Names = {l1, l2}
  Readers = {r1}
  MaxChanges = 2
  MaxDrops = 1
INVARIANTS
  DeleteFuncGetsBinding
