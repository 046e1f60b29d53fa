--------------------------- MODULE ServiceAccounts ---------------------------
(***************************************************************************)
(* The ServiceAccountsService and the two kinds of objects it keeps in the *)
(* Kubernetes API server: the ServiceAccounts of the configured namespace, *)
(* and the ClusterRoleBindings and RoleBindings it manages for them.       *)
(*                                                                         *)
(* The service is stateless: every method is one call (or, for an update,  *)
(* two calls) to the API server.  The operators below say what each call   *)
(* reads, when the API server accepts it and what it changes; AuthService  *)
(* decides when a call is made and what follows from its answer.           *)
(*                                                                         *)
(* Operators announced as "Faulty" are what a slip in the code would have  *)
(* made of the operator after them; no specification uses them.            *)
(***************************************************************************)
EXTENDS Naturals

CONSTANTS
  Users,        \* principals; a user's ServiceAccount has the same name
  LgbNames,     \* metadata.name of LdapGroupBinding objects
  Roles,        \* names of Roles and ClusterRoles
  Namespaces,   \* namespaces a RoleBinding can live in
  Cluster,      \* the scope of a ClusterRoleBinding
  None          \* absence of an object, of a namespace, of a user

VARIABLES
  accounts,     \* users whose ServiceAccount exists
  bindings      \* the binding stored under each key, or None

store == <<accounts, bindings>>

BindingName == [user : Users, lgb : LgbNames, role : Roles]

(* Faulty: a name that leaves the LdapGroupBinding out. *)
GenSharedName(username, roleName, lgbName) ==
  [user |-> username, lgb |-> CHOOSE lgb \in LgbNames : TRUE, role |-> roleName]

(***************************************************************************)
(* The name of a binding keeps the account, the LdapGroupBinding and the   *)
(* role.  Account and LdapGroupBinding names are DNS names, free of ':',   *)
(* so the formatted string determines the three of them.  It says nothing  *)
(* of the namespace.                                                       *)
(***************************************************************************)
GenBindingName(username, roleName, lgbName) ==
  [user |-> username, lgb |-> lgbName, role |-> roleName]

(* The API server keys a ClusterRoleBinding by its name and a RoleBinding  *)
(* by its namespace and name.                                              *)
Scopes == Namespaces \cup {Cluster}

Key == [scope : Scopes, name : BindingName]

(***************************************************************************)
(* A stored binding: the role it refers to, the ServiceAccounts of the     *)
(* configured namespace among its subjects, and whether it carries the     *)
(* label kerbernetes.io/managed=true.  The API group of a stored reference *)
(* is always rbac.authorization.k8s.io.                                    *)
(***************************************************************************)
Binding == [role : Roles, subjects : SUBSET Users, managed : BOOLEAN]

ASSUME ScopeAssumption == Cluster \notin Namespaces /\ None \notin Scopes
ASSUME NoneAssumption  == None \notin Binding /\ None \notin Users

StoreTypeOK ==
  /\ accounts \in SUBSET Users
  /\ bindings \in [Key -> Binding \cup {None}]

StoreInit ==
  /\ accounts = {}
  /\ bindings = [k \in Key |-> None]

-----------------------------------------------------------------------------
(* Calls that read. *)

(* Faulty: the filter on subjects is forgotten. *)
ListedForAnyone(u, scopes) ==
  {k \in Key : k.scope \in scopes /\ bindings[k] # None /\ bindings[k].managed}

(* The managed bindings that name u as a subject, in the given scopes: the *)
(* label selector of the List call, then the filter on subjects.           *)
Listed(u, scopes) ==
  {k \in Key : /\ k.scope \in scopes
               /\ bindings[k] # None
               /\ bindings[k].managed
               /\ u \in bindings[k].subjects}

GetClusterRoleBindings(u) == Listed(u, {Cluster})

GetRoleBindings(u) == Listed(u, Namespaces)

-----------------------------------------------------------------------------
(* Calls that write.  Each is enabled when the API server accepts it.      *)

NewBinding(username, roleName) ==
  [role |-> roleName, subjects |-> {username}, managed |-> TRUE]

PostAccount(u) ==
  /\ u \notin accounts
  /\ accounts' = accounts \cup {u}
  /\ UNCHANGED bindings

PostBinding(k, b) ==
  /\ bindings[k] = None
  /\ bindings' = [bindings EXCEPT ![k] = b]
  /\ UNCHANGED accounts

(* An update carries the version that was read (a newer one in the store   *)
(* is a conflict), and the API server refuses to change a role reference.  *)
PutBinding(k, read, b) ==
  /\ bindings[k] = read
  /\ b.role = read.role
  /\ bindings' = [bindings EXCEPT ![k] = b]
  /\ UNCHANGED accounts

(* A delete names the object only: it takes whatever is stored there.      *)
DeleteBinding(k) ==
  /\ bindings[k] # None
  /\ bindings' = [bindings EXCEPT ![k] = None]
  /\ UNCHANGED accounts

=============================================================================
