----------------------------- MODULE AuthService -----------------------------
(***************************************************************************)
(* The AuthService: what a login does between the SPNEGO middleware, which *)
(* hands it a principal, and the answer.  A login upserts the account's    *)
(* ServiceAccount, asks LDAP for the user's groups, reads the cached       *)
(* LdapGroupBindings, brings the account's bindings to what they ask for,  *)
(* and only then has a token issued.  Logins run concurrently, one         *)
(* goroutine each, in one or several replicas of the program, and share    *)
(* nothing but the API server: every call they make to it or to LDAP is a  *)
(* step.  A replica's cache of LdapGroupBindings is its own.               *)
(*                                                                         *)
(* Operators announced as "Faulty" are what a slip in the code would have  *)
(* made of the operator after them; no specification uses them.            *)
(***************************************************************************)
EXTENDS ServiceAccounts, Sequences

CONSTANTS
  Requests,      \* slots for concurrent logins; a slot is reused
  Replicas,      \* processes of the program
  ServedBy,      \* the replica a login runs in
  Groups,        \* distinguished names of LDAP groups
  LDAPEnabled,   \* the LDAP_ENABLED setting
  Directories,   \* the states the LDAP directory goes through
  BindingSets,   \* the sets of LdapGroupBindings the cache goes through
  AdminWrites,   \* what administrators may write to the managed bindings
  MaxChanges,    \* bound on changes of directory and cache
  MaxFaults,     \* bound on failing calls
  MaxDrift       \* bound on interventions of administrators

VARIABLES
  directory,     \* LDAP: the entries found for a user, and its groups
  cache,         \* in each replica, the LdapGroupBindings GetBindings returns
  pc,            \* the call a login makes next, or how it ended
  user,          \* username
  groups,        \* groupsMap
  desired,       \* the items of userBindings, what the reconciliation is for
  todo,          \* the items the reconciliation has yet to ensure
  existing,      \* clusterRoleBindingsMap and roleBindingsMap
  pending,       \* the update under way: its item and the object read
  undisturbed,   \* history: no overlapping login of the account wants other bindings
  changes, faults, drifts

world  == <<directory, cache>>
locals == <<user, groups, desired, todo, existing, pending>>
budget == <<changes, faults, drifts>>
vars   == <<store, world, pc, locals, undisturbed, budget>>

-----------------------------------------------------------------------------
(* LdapGroupBindings and the items they list. *)

RbacGroup == "rbac.authorization.k8s.io"

(* A missing namespace is None, a missing API group the empty string.      *)
Item == [kind : STRING, name : Roles, namespace : Namespaces \cup {None}, apiGroup : STRING]

LdapGroupBinding == [name : LgbNames, ldapGroupDN : Groups, bindings : Seq(Item)]

(* One turn of the loop over the items of one LdapGroupBinding. *)
Task == [lgb : LgbNames, index : Nat, item : Item]

DirectoryEntry == [entries : Nat, groups : SUBSET Groups]

ASSUME ReplicaAssumption == ServedBy \in [Requests -> Replicas]

ASSUME WorldAssumption ==
  /\ LDAPEnabled \in BOOLEAN
  /\ Directories \subseteq [Users -> DirectoryEntry]
  /\ BindingSets \subseteq SUBSET LdapGroupBinding
  /\ \A w \in AdminWrites : w.key \in Key /\ w.binding \in Binding \cup {None}

ASSUME BoundAssumption ==
  MaxChanges \in Nat /\ MaxFaults \in Nat /\ MaxDrift \in Nat

(* Items of another kind and Role items without a namespace are skipped.   *)
Supported(item) ==
  \/ item.kind = "ClusterRole"
  \/ item.kind = "Role" /\ item.namespace # None

(* The turns of the two nested loops, for the LdapGroupBindings of lgbs    *)
(* whose group is in gs.                                                   *)
Tasks(lgbs, gs) ==
  {t \in UNION {{[lgb |-> b.name, index |-> i, item |-> b.bindings[i]] :
                   i \in DOMAIN b.bindings} :
                b \in {lgb \in lgbs : lgb.ldapGroupDN \in gs}} :
     Supported(t.item)}

TaskName(u, t) == GenBindingName(u, t.item.name, t.lgb)

TaskScope(t) == IF t.item.kind = "ClusterRole" THEN Cluster ELSE t.item.namespace

(* Where the API server stores the binding an item asks for. *)
TaskKey(u, t) == [scope |-> TaskScope(t), name |-> TaskName(u, t)]

TaskKeys(u, ts) == {TaskKey(u, t) : t \in ts}

-----------------------------------------------------------------------------
(* The states of a login. *)

Resting == {"idle", "ok", "unauthorized", "failed"}

(* States whose next step is a call to the API server. *)
ApiCalls == {"getAccount", "createAccount", "listClusterRoleBindings",
             "listRoleBindings", "reconcile", "update"}

LdapCalls == {"getUser", "getUserGroups"}

(* Calls made before the bindings to reconcile are known. *)
Preparing == {"getAccount", "createAccount", "getUser", "getUserGroups", "getBindings"}

(* From the first List call to the end of the reconciliation. *)
Reconciling == {"listRoleBindings", "reconcile", "update"}

(* An entry of one of the two maps: the object's key and what was listed.  *)
Entry == [key : Key, binding : Binding]

NoUpdate == [task |-> None, read |-> None]

LoginTypeOK ==
  /\ pc \in [Requests -> Resting \cup ApiCalls \cup LdapCalls \cup {"getBindings"}]
  /\ user \in [Requests -> Users \cup {None}]
  /\ groups \in [Requests -> SUBSET Groups]
  /\ desired \in [Requests -> SUBSET Task]
  /\ todo \in [Requests -> SUBSET Task]
  /\ existing \in [Requests -> SUBSET Entry]
  /\ pending \in [Requests -> [task : Task, read : Binding] \cup {NoUpdate}]
  /\ undisturbed \in [Requests -> BOOLEAN]

TypeOK ==
  /\ StoreTypeOK
  /\ directory \in Directories
  /\ cache \in [Replicas -> BindingSets]
  /\ LoginTypeOK
  /\ changes \in 0 .. MaxChanges /\ faults \in 0 .. MaxFaults /\ drifts \in 0 .. MaxDrift

Init ==
  /\ StoreInit
  /\ directory \in Directories
  /\ cache \in [Replicas -> BindingSets]
  /\ pc = [r \in Requests |-> "idle"]
  /\ user = [r \in Requests |-> None]
  /\ groups = [r \in Requests |-> {}]
  /\ desired = [r \in Requests |-> {}]
  /\ todo = [r \in Requests |-> {}]
  /\ existing = [r \in Requests |-> {}]
  /\ pending = [r \in Requests |-> NoUpdate]
  /\ undisturbed = [r \in Requests |-> TRUE]
  /\ changes = 0 /\ faults = 0 /\ drifts = 0

-----------------------------------------------------------------------------
(* Steps of a login.  GoTo moves on to the next call; Finish answers the   *)
(* request and drops the login's local variables.                          *)

GoTo(r, call) == pc' = [pc EXCEPT ![r] = call]

Finish(r, status) ==
  /\ pc' = [pc EXCEPT ![r] = status]
  /\ user' = [user EXCEPT ![r] = None]
  /\ groups' = [groups EXCEPT ![r] = {}]
  /\ desired' = [desired EXCEPT ![r] = {}]
  /\ todo' = [todo EXCEPT ![r] = {}]
  /\ existing' = [existing EXCEPT ![r] = {}]
  /\ pending' = [pending EXCEPT ![r] = NoUpdate]
  /\ undisturbed' = [undisturbed EXCEPT ![r] = TRUE]

(* A login of u reaches AuthAccount with its SPNEGO token accepted.        *)
Arrive(r, u) ==
  /\ pc[r] \in Resting
  /\ GoTo(r, "getAccount")
  /\ user' = [user EXCEPT ![r] = u]
  /\ UNCHANGED <<store, world, groups, desired, todo, existing, pending, undisturbed, budget>>

(* What follows the upsert: LDAP, or with LDAP disabled the token, which   *)
(* is issued when nothing is left to reconcile.                            *)
AfterUpsert == IF LDAPEnabled THEN "getUser" ELSE "reconcile"

GetAccount(r) ==
  /\ pc[r] = "getAccount"
  /\ GoTo(r, IF user[r] \in accounts THEN AfterUpsert ELSE "createAccount")
  /\ UNCHANGED <<store, world, locals, undisturbed, budget>>

CreateAccount(r) ==
  /\ pc[r] = "createAccount"
  /\ \/ /\ PostAccount(user[r])
        /\ GoTo(r, AfterUpsert)
        /\ UNCHANGED <<locals, undisturbed>>
     \/ /\ user[r] \in accounts
        /\ Finish(r, "failed")
        /\ UNCHANGED store
  /\ UNCHANGED <<world, budget>>

(* No entry and several entries are both errors. *)
GetUser(r) ==
  /\ pc[r] = "getUser"
  /\ \/ /\ directory[user[r]].entries = 1
        /\ GoTo(r, "getUserGroups")
        /\ UNCHANGED <<locals, undisturbed>>
     \/ /\ directory[user[r]].entries # 1
        /\ Finish(r, "unauthorized")
  /\ UNCHANGED <<store, world, budget>>

(* A connection of its own: the directory may differ from GetUser's.       *)
GetUserGroups(r) ==
  /\ pc[r] = "getUserGroups"
  /\ groups' = [groups EXCEPT ![r] = directory[user[r]].groups]
  /\ GoTo(r, "getBindings")
  /\ UNCHANGED <<store, world, user, desired, todo, existing, pending, undisturbed, budget>>

(* Faulty: the groups are not looked at. *)
LearnUnfiltered(r, lgbs) ==
  /\ pc[r] = "getBindings"
  /\ desired' = [desired EXCEPT ![r] = Tasks(lgbs, Groups)]
  /\ GoTo(r, "listClusterRoleBindings")
  /\ UNCHANGED <<store, world, user, groups, todo, existing, pending, undisturbed, budget>>

(* The loop over the LdapGroupBindings of the cache, and its filter.       *)
Learn(r, lgbs) ==
  /\ pc[r] = "getBindings"
  /\ desired' = [desired EXCEPT ![r] = Tasks(lgbs, groups[r])]
  /\ GoTo(r, "listClusterRoleBindings")
  /\ UNCHANGED <<store, world, user, groups, todo, existing, pending, undisturbed, budget>>

GetBindings(r) == Learn(r, cache[ServedBy[r]])

(* Overlapping logins of r's account that reconcile towards other bindings. *)
Rivals(r) ==
  {s \in Requests \ {r} : /\ user[s] = user[r]
                         /\ pc[s] \in Reconciling
                         /\ desired[s] # desired[r]}

Snapshot(keys) == {[key |-> k, binding |-> bindings[k]] : k \in keys}

ListClusterRoleBindings(r) ==
  /\ pc[r] = "listClusterRoleBindings"
  /\ existing' = [existing EXCEPT ![r] = Snapshot(GetClusterRoleBindings(user[r]))]
  /\ undisturbed' = [s \in Requests |->
                       IF s = r THEN Rivals(r) = {} ELSE undisturbed[s] /\ s \notin Rivals(r)]
  /\ GoTo(r, "listRoleBindings")
  /\ UNCHANGED <<store, world, user, groups, desired, todo, pending, budget>>

(* roleBindingsMap is keyed by name alone: of listed RoleBindings with one *)
(* name in several namespaces the last one listed stays.                   *)
LastByName(keys) ==
  {kept \in SUBSET keys : \A k \in keys : \E only \in kept :
     {other \in kept : other.name = k.name} = {only}}

ListRoleBindings(r) ==
  /\ pc[r] = "listRoleBindings"
  /\ \E kept \in LastByName(GetRoleBindings(user[r])) :
       existing' = [existing EXCEPT ![r] = @ \cup Snapshot(kept)]
  /\ todo' = [todo EXCEPT ![r] = desired[r]]
  /\ GoTo(r, "reconcile")
  /\ UNCHANGED <<store, world, user, groups, desired, pending, undisturbed, budget>>

-----------------------------------------------------------------------------
(* Ensuring desired bindings. *)

(* The items whose turn may be next: the items of an LdapGroupBinding come *)
(* in their order and are finished before another LdapGroupBinding's; the  *)
(* order of LdapGroupBindings is that of the cache, which is any order.    *)
NextTasks(r) ==
  {t \in todo[r] : \A other \in todo[r] :
     IF other.lgb = t.lgb THEN t.index <= other.index
                          ELSE \A done \in desired[r] \ todo[r] : done.lgb # other.lgb}

(* The entry found under the item's name in the map of its kind, if any.   *)
Matching(r, t) ==
  {e \in existing[r] : /\ e.key.name = TaskName(user[r], t)
                       /\ e.key.scope = Cluster <=> TaskScope(t) = Cluster}

(* The comparisons of a listed binding with its item: the subjects and the *)
(* API group count for a RoleBinding only.                                 *)
UpToDate(u, t, b) ==
  /\ b.role = t.item.name
  /\ TaskScope(t) # Cluster => b.subjects = {u} /\ t.item.apiGroup = RbacGroup

(* The API server takes an empty API group for RBAC's and no other.        *)
ValidGroup(t) == TaskScope(t) # Cluster => t.item.apiGroup \in {"", RbacGroup}

(* Faulty: the first item of an LdapGroupBinding ends its loop. *)
EnsuredFirstOnly(r, t) ==
  /\ todo' = [todo EXCEPT ![r] = {other \in @ : other.lgb # t.lgb}]
  /\ existing' = [existing EXCEPT ![r] = @ \ Matching(r, t)]
  /\ GoTo(r, "reconcile")
  /\ UNCHANGED <<user, groups, desired, undisturbed>>

(* Faulty: the name still counts as unused. *)
EnsuredStillUnused(r, t) ==
  /\ todo' = [todo EXCEPT ![r] = @ \ {t}]
  /\ GoTo(r, "reconcile")
  /\ UNCHANGED <<user, groups, desired, existing, undisturbed>>

(* The item is done and its name no longer counts as unused. *)
Ensured(r, t) ==
  /\ todo' = [todo EXCEPT ![r] = @ \ {t}]
  /\ existing' = [existing EXCEPT ![r] = @ \ Matching(r, t)]
  /\ GoTo(r, "reconcile")
  /\ UNCHANGED <<user, groups, desired, undisturbed>>

PostMissing(r, t) ==
  /\ pc[r] = "reconcile" /\ t \in NextTasks(r) /\ Matching(r, t) = {}
  /\ ValidGroup(t)
  /\ PostBinding(TaskKey(user[r], t), NewBinding(user[r], t.item.name))

CreateMissing(r, t) ==
  /\ \/ PostMissing(r, t) /\ Ensured(r, t) /\ UNCHANGED pending
     \/ /\ pc[r] = "reconcile" /\ t \in NextTasks(r) /\ Matching(r, t) = {}
        /\ ~ValidGroup(t) \/ bindings[TaskKey(user[r], t)] # None
        /\ Finish(r, "failed")
        /\ UNCHANGED store
  /\ UNCHANGED <<world, budget>>

KeepExisting(r, t) ==
  /\ pc[r] = "reconcile" /\ t \in NextTasks(r)
  /\ \E e \in Matching(r, t) : UpToDate(user[r], t, e.binding)
  /\ Ensured(r, t)
  /\ UNCHANGED <<store, world, pending, budget>>

(* Faulty: the update goes on with an object that was not found. *)
GetForUpdateUnchecked(r, t) ==
  /\ pc[r] = "reconcile" /\ t \in NextTasks(r)
  /\ \E e \in Matching(r, t) : ~UpToDate(user[r], t, e.binding)
  /\ pending' = [pending EXCEPT ![r] = [task |-> t, read |-> bindings[TaskKey(user[r], t)]]]
  /\ GoTo(r, "update")
  /\ UNCHANGED <<store, world, user, groups, desired, todo, existing, undisturbed, budget>>

(* An update first reads the object where the item says it should be.      *)
GetForUpdate(r, t) ==
  /\ pc[r] = "reconcile" /\ t \in NextTasks(r)
  /\ \E e \in Matching(r, t) : ~UpToDate(user[r], t, e.binding)
  /\ \/ /\ bindings[TaskKey(user[r], t)] # None
        /\ pending' = [pending EXCEPT ![r] =
                          [task |-> t, read |-> bindings[TaskKey(user[r], t)]]]
        /\ GoTo(r, "update")
        /\ UNCHANGED <<user, groups, desired, todo, existing, undisturbed>>
     \/ /\ bindings[TaskKey(user[r], t)] = None
        /\ Finish(r, "failed")
  /\ UNCHANGED <<store, world, budget>>

(* The object as read, with the item's role and, in a RoleBinding, the     *)
(* account as its only subject.                                            *)
Amended(u, t, read) ==
  [read EXCEPT !.role = t.item.name,
               !.subjects = IF TaskScope(t) = Cluster THEN @ ELSE {u}]

AmendedOf(r) == Amended(user[r], pending[r].task, pending[r].read)

PutPending(r) ==
  /\ pc[r] = "update"
  /\ ValidGroup(pending[r].task)
  /\ PutBinding(TaskKey(user[r], pending[r].task), pending[r].read, AmendedOf(r))

UpdateBinding(r) ==
  /\ \/ /\ PutPending(r)
        /\ Ensured(r, pending[r].task)
        /\ pending' = [pending EXCEPT ![r] = NoUpdate]
     \/ /\ pc[r] = "update"
        /\ \/ ~ValidGroup(pending[r].task)
           \/ bindings[TaskKey(user[r], pending[r].task)] # pending[r].read
           \/ AmendedOf(r).role # pending[r].read.role
        /\ Finish(r, "failed")
        /\ UNCHANGED store
  /\ UNCHANGED <<world, budget>>

-----------------------------------------------------------------------------
(* Removing bindings no longer needed, and issuing the token. *)

(* What is left in the maps: ClusterRoleBindings first, each map in any order. *)
Unused(r) ==
  {e \in existing[r] : /\ pc[r] = "reconcile" /\ todo[r] = {}
                       /\ \/ e.key.scope = Cluster
                          \/ \A other \in existing[r] : other.key.scope # Cluster}

(* Faulty: RoleBindings are not removed. *)
RemoveUnusedClusterOnly(r, e) ==
  /\ e \in Unused(r)
  /\ IF e.key.scope = Cluster /\ bindings[e.key] # None
     THEN DeleteBinding(e.key) ELSE UNCHANGED store
  /\ existing' = [existing EXCEPT ![r] = @ \ {e}]
  /\ UNCHANGED <<world, pc, user, groups, desired, todo, pending, undisturbed, budget>>

(* Faulty: a removal is tried until it succeeds. *)
RemoveUnusedRetrying(r, e) ==
  /\ e \in Unused(r)
  /\ \/ /\ DeleteBinding(e.key)
        /\ existing' = [existing EXCEPT ![r] = @ \ {e}]
     \/ bindings[e.key] = None /\ UNCHANGED <<store, existing>>
  /\ UNCHANGED <<world, pc, user, groups, desired, todo, pending, undisturbed, budget>>

RemoveUnused(r, e) ==
  /\ e \in Unused(r)
  /\ \/ /\ DeleteBinding(e.key)
        /\ existing' = [existing EXCEPT ![r] = @ \ {e}]
        /\ UNCHANGED <<pc, user, groups, desired, todo, pending, undisturbed>>
     \/ /\ bindings[e.key] = None
        /\ Finish(r, "failed")
        /\ UNCHANGED store
  /\ UNCHANGED <<world, budget>>

(* Nothing is left to ensure or to remove. *)
Reconciled(r) == pc[r] = "reconcile" /\ todo[r] = {} /\ existing[r] = {}

IssueToken(r) ==
  /\ Reconciled(r)
  /\ Finish(r, IF user[r] \in accounts THEN "ok" ELSE "failed")
  /\ UNCHANGED <<store, world, budget>>

-----------------------------------------------------------------------------
(* Failures: of a call before it had an effect, a deadline or the client's *)
(* disconnection included, and of a call whose effect took place but whose *)
(* answer was lost.                                                        *)

Fault == faults < MaxFaults /\ faults' = faults + 1 /\ UNCHANGED <<changes, drifts>>

ApiFails(r) ==
  /\ pc[r] \in ApiCalls
  /\ Finish(r, "failed")
  /\ Fault
  /\ UNCHANGED <<store, world>>

LdapFails(r) ==
  /\ pc[r] \in LdapCalls
  /\ Finish(r, "unauthorized")
  /\ Fault
  /\ UNCHANGED <<store, world>>

AnswerLost(r) ==
  /\ \/ pc[r] = "createAccount" /\ PostAccount(user[r])
     \/ \E t \in NextTasks(r) : PostMissing(r, t)
     \/ PutPending(r)
     \/ \E e \in Unused(r) : DeleteBinding(e.key)
  /\ Finish(r, "failed")
  /\ Fault
  /\ UNCHANGED world

-----------------------------------------------------------------------------
(* The world around the logins. *)

Change == changes < MaxChanges /\ changes' = changes + 1 /\ UNCHANGED <<faults, drifts>>

DirectoryChanges ==
  /\ directory' \in Directories \ {directory}
  /\ Change
  /\ UNCHANGED <<store, cache, pc, locals, undisturbed>>

(* The informer of a replica hands an event to the service's handlers. *)
CacheChanges(p) ==
  /\ \E lgbs \in BindingSets \ {cache[p]} : cache' = [cache EXCEPT ![p] = lgbs]
  /\ Change
  /\ UNCHANGED <<store, directory, pc, locals, undisturbed>>

Drift == drifts < MaxDrift /\ drifts' = drifts + 1 /\ UNCHANGED <<changes, faults>>

(* An administrator creates, deletes or edits a binding (but no role       *)
(* reference: the API server refuses that).                                *)
AdminWritesBinding ==
  /\ \E w \in AdminWrites :
       /\ bindings[w.key] # None /\ w.binding # None => bindings[w.key].role = w.binding.role
       /\ bindings' = [bindings EXCEPT ![w.key] = w.binding]
  /\ Drift
  /\ UNCHANGED <<accounts, world, pc, locals, undisturbed>>

AdminDeletesAccount(u) ==
  /\ u \in accounts
  /\ accounts' = accounts \ {u}
  /\ Drift
  /\ UNCHANGED <<bindings, world, pc, locals, undisturbed>>

-----------------------------------------------------------------------------
LoginStep(r) ==
  \/ GetAccount(r) \/ CreateAccount(r)
  \/ GetUser(r) \/ GetUserGroups(r) \/ GetBindings(r)
  \/ ListClusterRoleBindings(r) \/ ListRoleBindings(r)
  \/ \E t \in todo[r] : CreateMissing(r, t) \/ KeepExisting(r, t) \/ GetForUpdate(r, t)
  \/ UpdateBinding(r)
  \/ \E e \in existing[r] : RemoveUnused(r, e)
  \/ IssueToken(r)

LoginFails(r) == ApiFails(r) \/ LdapFails(r) \/ AnswerLost(r)

Environment ==
  \/ DirectoryChanges \/ AdminWritesBinding
  \/ \E p \in Replicas : CacheChanges(p)
  \/ \E u \in Users : AdminDeletesAccount(u)

Next ==
  \/ \E r \in Requests, u \in Users : Arrive(r, u)
  \/ \E r \in Requests : LoginStep(r) \/ LoginFails(r)
  \/ Environment

Spec == Init /\ [][Next]_vars

(***************************************************************************)
(* A goroutine that can run does run, and the API server and LDAP answer   *)
(* or fail; a user whose token expires comes back for another one.         *)
(***************************************************************************)
Fairness ==
  /\ \A r \in Requests : WF_vars(LoginStep(r))
  /\ \A u \in Users : SF_vars(\E r \in Requests : Arrive(r, u))

FairSpec == Spec /\ Fairness

-----------------------------------------------------------------------------
(* Properties. *)

(* The bindings that count as u's: managed, with u among the subjects.     *)
Managed(u) == Listed(u, Scopes)

(***************************************************************************)
(* Names tell RoleBindings apart as long as no LdapGroupBinding lists a    *)
(* Role in different namespaces, be it at different times.                 *)
(***************************************************************************)
OneNamespacePerRole ==
  \A lgbs1, lgbs2 \in BindingSets :
    \A t1 \in Tasks(lgbs1, Groups), t2 \in Tasks(lgbs2, Groups) :
      t1.lgb = t2.lgb /\ t1.item.name = t2.item.name /\ TaskScope(t1) # Cluster /\ TaskScope(t2) # Cluster
        => TaskScope(t1) = TaskScope(t2)

(***************************************************************************)
(* When a login has reconciled and is about to issue its token, the        *)
(* account has exactly the bindings the login found it should have,        *)
(* whatever logins of other accounts, failed logins and overlapping logins *)
(* of the same account that agree with it did meanwhile                    *)
(* (reconcileClusterAndRoleBindings).                                      *)
(***************************************************************************)
ExactBindings ==
  \A r \in Requests :
    LDAPEnabled /\ Reconciled(r) /\ undisturbed[r] =>
      Managed(user[r]) = TaskKeys(user[r], desired[r])

(***************************************************************************)
(* An account's bindings change only while a login of that account         *)
(* reconciles: no login touches what another account was given.            *)
(***************************************************************************)
OnlyOwnLogins ==
  [][\A k \in Key : bindings'[k] # bindings[k] =>
       \E r \in Requests : user[r] = k.name.user /\ pc[r] \in {"reconcile", "update"}]_vars

(* The login takes the binding off its list, having removed it.            *)
Removes(r, k) ==
  pc[r] = "reconcile" /\ \E e \in existing[r] \ existing'[r] : e.key = k

(***************************************************************************)
(* A login removes a binding only if none of the items it reconciles       *)
(* towards asks for it, however stale its listing is                       *)
(* (removeUnusedClusterRoleBindings, removeUnusedRoleBindings).            *)
(***************************************************************************)
WantedBindingsStay ==
  [][\A k \in Key : bindings[k] # None /\ bindings'[k] = None =>
       \/ drifts' # drifts
       \/ \E r \in Requests : Removes(r, k) /\ k \notin TaskKeys(user[r], desired[r])]_vars

(***************************************************************************)
(* No login gives an account a role that none of the groups LDAP answered  *)
(* for it asks for, whatever administrators do to the bindings meanwhile   *)
(* and however many logins overlap (AuthAccount: a role is granted on the  *)
(* word of an LdapGroupBinding of one of the user's groups).               *)
(***************************************************************************)
Holds(u, k) == bindings[k] # None /\ u \in bindings[k].subjects

GrantsAreEntitled ==
  [][\A k \in Key, u \in Users : ~Holds(u, k) /\ Holds(u, k)' =>
       \/ drifts' # drifts
       \/ \E r \in Requests, lgbs \in BindingSets :
            /\ user[r] = u
            /\ k \in TaskKeys(u, Tasks(lgbs, groups[r]))]_vars

(***************************************************************************)
(* With one login at a time a login fails only because a call failed or an *)
(* administrator intervened: what earlier logins left behind, cut short    *)
(* between any two calls, is never refused a second time by the API server.*)
(***************************************************************************)
SerialLoginsSucceed ==
  [][\A r \in Requests :
       pc[r] \notin Resting /\ pc'[r] = "failed" => faults' # faults \/ drifts # 0]_vars

(***************************************************************************)
(* Every login is answered: the loops over items and bindings end.         *)
(***************************************************************************)
EveryLoginAnswered ==
  \A r \in Requests : pc[r] \notin Resting ~> pc[r] \in Resting

(***************************************************************************)
(* Once LDAP, the LdapGroupBindings, the administrators and the network    *)
(* leave a user alone and the replicas' caches agree, repeated logins at   *)
(* any of them bring the account to the bindings it is entitled to, each   *)
(* with the account as its only subject, and keep it there.                *)
(***************************************************************************)
Entitled(u, lgbs) == TaskKeys(u, Tasks(lgbs, directory[u].groups))

Converged(u) ==
  \A lgbs \in BindingSets :
    directory[u].entries = 1 /\ (\A p \in Replicas : cache[p] = lgbs) =>
      /\ Managed(u) = Entitled(u, lgbs)
      /\ \A k \in Entitled(u, lgbs) : bindings[k].subjects = {u}

Converges == \A u \in Users : <>[]Converged(u)

-----------------------------------------------------------------------------
(* What the comments of the code claim, and the code does not always do. *)

(***************************************************************************)
(* "2. Ensure desired bindings exist": after the loop over the items, each *)
(* of them has its binding.                                                *)
(***************************************************************************)
DesiredBindingsExist ==
  \A r \in Requests :
    LDAPEnabled /\ Reconciled(r) /\ undisturbed[r] =>
      TaskKeys(user[r], desired[r]) \subseteq Managed(user[r])

(***************************************************************************)
(* "Automatic reconciliation of Kubernetes RoleBindings and                *)
(* ClusterRoleBindings": once LDAP and the LdapGroupBindings stay as they  *)
(* are, a user who keeps logging in keeps no binding that none of them     *)
(* asks for any more.                                                      *)
(***************************************************************************)
Revoked(u) ==
  \A lgbs \in BindingSets :
    directory[u].entries = 1 /\ (\A p \in Replicas : cache[p] = lgbs) =>
      Managed(u) \subseteq Entitled(u, lgbs)

RevocationsHappen == \A u \in Users : <>[]Revoked(u)

(***************************************************************************)
(* "UpsertServiceAccount retrieves or creates a service account": it fails *)
(* only with a call to the API server that fails, not because the account  *)
(* exists by the time it is created.                                       *)
(***************************************************************************)
UpsertRetrievesOrCreates ==
  [][\A r \in Requests :
       pc[r] = "createAccount" /\ pc'[r] = "failed" => faults' # faults]_vars

=============================================================================
