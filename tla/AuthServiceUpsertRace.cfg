SPECIFICATION Spec
CONSTANTS
  Users = {u1, u2}
  LgbNames = {l1, l2}
  Roles = {view, edit}
  Namespaces = {nsA}
  Cluster = Cluster
  None = None
  Requests = {r1, r2}
  Replicas = {p1}
  ServedBy <- OneReplica
  Groups = {g1, g2}
  LDAPEnabled = FALSE
  Directories <- DirectoriesMC
  BindingSets <- BindingSetsMC
  AdminWrites <- NoWrites
  MaxChanges = 0
  MaxFaults = 0
  MaxDrift = 0
  u1 = u1
  u2 = u2
  g1 = g1
  g2 = g2
  l1 = l1
  l2 = l2
  view = view
  edit = edit
  nsA = nsA
  nsB = nsB
PROPERTIES
  UpsertRetrievesOrCreates
