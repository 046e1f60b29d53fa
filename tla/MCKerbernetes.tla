---------------------------- MODULE MCKerbernetes ----------------------------
(* Small instances of Kerbernetes. *)
EXTENDS Kerbernetes

CONSTANTS u1, g1, g2, l1, l2, l3, view, edit, nsA

(* Auth!RbacGroup, spelled out: TLC cannot profile an instance whose       *)
(* parameters are defined with definitions of its own.                     *)
RbacGroup == "rbac.authorization.k8s.io"

Says(group, items) == [ldapGroupDN |-> group, bindings |-> items]

ClusterItem(role) ==
  [kind |-> "ClusterRole", name |-> role, namespace |-> None, apiGroup |-> RbacGroup]

RoleItem(role, group) ==
  [kind |-> "Role", name |-> role, namespace |-> nsA, apiGroup |-> group]

(* An edit gives l1 another role and l2 another group, the next one takes  *)
(* that back.                                                              *)
ContentMC ==
  [n \in Names |-> [v \in 1 .. MaxObjectChanges + 1 |->
     IF n = l1
     THEN Says(g1, IF v % 2 = 1 THEN <<ClusterItem(view), RoleItem(edit, "")>>
                                ELSE <<ClusterItem(edit)>>)
     ELSE Says(IF v % 2 = 1 THEN g1 ELSE g2, <<RoleItem(view, RbacGroup)>>)]]

DirectoryMC == [u \in Users |-> [entries |-> 1, groups |-> {g1}]]

=============================================================================
