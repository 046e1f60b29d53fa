SPECIFICATION Spec
CONSTANTS
  Users = {u1}
  Roles = {view, edit}
  Namespaces = {nsA}
  Cluster = Cluster
  None = None
  Requests = {r1}
  Groups = {g1, g2}
  Directory <- DirectoryMC
  Names = {l1, l2, l3}
  Content <- ContentMC
  MaxObjectChanges = 1
  MaxDrops = 1
  u1 = u1
  g1 = g1
  g2 = g2
  l1 = l1
  l2 = l2
  l3 = l3
  view = view
  edit = edit
  nsA = nsA
INVARIANTS
  TokensReflectBindings
