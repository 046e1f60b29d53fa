--------------------------- MODULE AuthServicePolicy ---------------------------
(***************************************************************************)
(* AuthService implements AccessPolicy: the mapping.  It needs no variable *)
(* beyond AuthService's: what a login has seen of a binding can be told    *)
(* from its two maps and from the items it has done.                       *)
(***************************************************************************)
EXTENDS AuthService

ListedKeys(r) == {e.key : e \in existing[r]}

DesiredKeys(r) == TaskKeys(user[r], desired[r])

DoneKeys(r) == TaskKeys(user[r], desired[r] \ todo[r])

(* The part of the store a login has listed so far. *)
ScopesSeen(r) == IF pc[r] = "listRoleBindings" THEN {Cluster} ELSE Scopes

(* The wanted bindings a login found or made.  Before both lists are read  *)
(* todo says nothing.                                                      *)
Found(r) == ListedKeys(r) \cup (IF pc[r] = "listRoleBindings" THEN {} ELSE DoneKeys(r))

Settled(r) ==
  {k \in Key :
    /\ LDAPEnabled /\ pc[r] \in Reconciling
    /\ k.name.user = user[r] /\ k.scope \in ScopesSeen(r)
    /\ IF k \in DesiredKeys(r) THEN k \in Found(r) ELSE k \notin ListedKeys(r)}

PhaseOf(r) ==
  IF pc[r] = "idle" THEN "idle"
  ELSE IF pc[r] = "ok" THEN "issued"
  ELSE IF pc[r] \in Resting THEN "refused"
  ELSE IF pc[r] \in Preparing THEN "preparing"
  ELSE "enforcing"

(* What LDAP and the LdapGroupBindings may ask for. *)
MayAsk(u) ==
  {TaskKeys(u, Tasks(lgbs, d[u].groups)) : lgbs \in BindingSets, d \in Directories}

(* The bindings in force: managed, with the account they are named for    *)
(* among the subjects.                                                     *)
Held == {k \in Key : k \in Managed(k.name.user)}

Phases   == [r \in Requests |-> PhaseOf(r)]
Wanteds  == [r \in Requests |-> DesiredKeys(r)]
Settleds == [r \in Requests |-> Settled(r)]

Policy == INSTANCE AccessPolicy WITH
  Grants   <- Key,
  OwnerOf  <- [k \in Key |-> k.name.user],
  Asked    <- [u \in Users |-> MayAsk(u)],
  Enforced <- LDAPEnabled,
  Nobody   <- None,
  held     <- Held,
  phase    <- Phases,
  subject  <- user,
  wanted   <- Wanteds,
  settled  <- Settleds

(***************************************************************************)
(* The service keeps the promise of AccessPolicy, under any overlap of     *)
(* logins and any failure: a token is issued only when the login has found *)
(* each binding of the account present if wanted and absent if not, at     *)
(* some moment since it read the LdapGroupBindings                         *)
(* (reconcileClusterAndRoleBindings, then IssueToken).                     *)
(***************************************************************************)
ImplementsAccessPolicy == Policy!Spec

(***************************************************************************)
(* What AccessPolicy implies: a binding that a login has ensured or found  *)
(* absent becomes otherwise only by an overlapping login of the same       *)
(* account that wants other bindings.                                      *)
(***************************************************************************)
OnlyRivalsUnsettle == Policy!OnlyRivalsUnsettle

=============================================================================
