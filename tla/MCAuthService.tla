--------------------------- MODULE MCAuthService ---------------------------
(* Small instances of AuthService. *)
EXTENDS AuthService

CONSTANTS u1, u2, g1, g2, l1, l2, view, edit, nsA, nsB

OneReplica == [r \in Requests |-> CHOOSE p \in Replicas : TRUE]

(* A slot for a login in each replica. *)
OneLoginEach ==
  CHOOSE f \in [Requests -> Replicas] : \A r, s \in Requests : f[r] = f[s] => r = s

(* Items *)
ClusterItem(role) ==
  [kind |-> "ClusterRole", name |-> role, namespace |-> None, apiGroup |-> RbacGroup]

RoleItem(role, ns, group) ==
  [kind |-> "Role", name |-> role, namespace |-> ns, apiGroup |-> group]

Lgb(name, group, items) == [name |-> name, ldapGroupDN |-> group, bindings |-> items]

(* l1 lists a ClusterRole, a Role whose API group is left empty and a Role *)
(* without a namespace; l2 a Role of the same name as l1's.                *)
FullSet ==
  {Lgb(l1, g1, <<ClusterItem(view), RoleItem(edit, nsA, "")>>),
   Lgb(l2, g2, <<RoleItem(edit, nsA, RbacGroup), RoleItem(view, None, RbacGroup)>>)}

ReducedSet == {Lgb(l1, g1, <<ClusterItem(view)>>)}

BindingSetsMC == {FullSet, ReducedSet}

(* l1's Role moves from one namespace to the other. *)
MovedRole == {{Lgb(l1, g1, <<RoleItem(edit, ns, RbacGroup)>>)} : ns \in {nsA, nsB}}

(* l1 lists one Role twice; l2 has nothing to do with it. *)
RoleListedTwice ==
  {{Lgb(l1, g1, <<RoleItem(edit, nsA, RbacGroup), RoleItem(edit, nsA, RbacGroup)>>),
    Lgb(l2, g2, <<ClusterItem(view)>>)}}

Entry1(gs) == [entries |-> 1, groups |-> gs]

Dir(e1, e2) == [u \in Users |-> IF u = u1 THEN e1 ELSE e2]

DirectoriesMC ==
  {Dir(Entry1({g1, g2}), Entry1({g1})),
   Dir(Entry1({g2}), Entry1({g1}))}

(* u1 leaves a group, or joins it. *)
DirectoriesOneGroup == {Dir(Entry1(gs), Entry1({})) : gs \in {{g1, g2}, {g1}}}

DirectoriesWithoutUser ==
  DirectoriesMC \cup {Dir([entries |-> 0, groups |-> {}], [entries |-> 2, groups |-> {g1}])}

NoWrites == {}

Stored(u, lgb, role, scope) == [scope |-> scope, name |-> [user |-> u, lgb |-> lgb, role |-> role]]

(* u1's bindings from l1, and one nothing asks for. *)
Tampered ==
  {Stored(u1, l1, view, Cluster), Stored(u1, l1, edit, nsA), Stored(u1, l2, view, nsA)}

(* Tampering that logins undo: a deletion, a second subject. *)
HealedWrites ==
  {[key |-> k, binding |-> b] :
     k \in Tampered,
     b \in {None} \cup {[role |-> role, subjects |-> {u1, u2}, managed |-> TRUE] : role \in {view, edit}}}

MendableWrites ==
  {w \in HealedWrites : w.binding = None \/ w.binding.role = w.key.name.role}

=============================================================================
