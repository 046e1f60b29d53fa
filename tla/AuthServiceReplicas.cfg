SPECIFICATION FairSpec
CONSTANTS
  Users = {u1}
  LgbNames = {l1, l2}
  Roles = {view, edit}
  Namespaces = {nsA}
  Cluster = Cluster
  None = None
  Requests = {r1, r2}
  Replicas = {p1, p2}
  ServedBy <- OneLoginEach
  Groups = {g1, g2}
  LDAPEnabled = TRUE
  Directories <- DirectoriesMC
  BindingSets <- BindingSetsMC
  AdminWrites <- NoWrites
  MaxChanges = 1
  MaxFaults = 1
  MaxDrift = 0
  u1 = u1
  u2 = u2
  g1 = g1
  g2 = g2
  l1 = l1
  l2 = l2
  view = view
  edit = edit
  nsA = nsA
  nsB = nsB
PROPERTIES
  EveryLoginAnswered
  ImplementsAccessPolicy
  OnlyRivalsUnsettle
  Converges
