------------------------ MODULE AuthServiceSerialProofs ------------------------
(***************************************************************************)
(* Proof that a login fails for no reason of its own (SerialLoginsSucceed) *)
(* as long as the logins of its account come one after the other.          *)
(***************************************************************************)
EXTENDS AuthServiceExactness

(***************************************************************************)
(* What the LdapGroupBindings have to keep to: a role is listed once for   *)
(* one place, and by an API group that the API server takes.  Otherwise a  *)
(* login fails however alone it is: the second creation is refused, or the *)
(* first.                                                                  *)
(***************************************************************************)
ItemsOnce ==
  \A lgbs \in BindingSets : \A t1, t2 \in Tasks(lgbs, Groups) :
    t1.lgb = t2.lgb /\ t1.item.name = t2.item.name /\ TaskScope(t1) = TaskScope(t2) => t1 = t2

GroupsValid == \A lgbs \in BindingSets : \A t \in Tasks(lgbs, Groups) : ValidGroup(t)

(* Logins of different accounts may overlap. *)
OneLoginPerAccount ==
  \A r, s \in Requests : r # s /\ pc[r] \notin Resting /\ pc[s] \notin Resting => user[r] # user[s]

-----------------------------------------------------------------------------
(* The inductive invariant: what a login has read of its account is what   *)
(* the API server has.                                                     *)

AccountThere(r) ==
  /\ pc[r] = "createAccount" => user[r] \notin accounts
  /\ pc[r] \notin Resting \cup {"getAccount", "createAccount"} => user[r] \in accounts

(* The two maps hold bindings as they are stored. *)
MapsTrue(r) == \A e \in existing[r] : bindings[e.key] = e.binding

(* And so does an update under way. *)
ReadTrue(r) ==
  pc[r] = "update" => bindings[TaskKey(user[r], pending[r].task)] = pending[r].read

(* What an item yet to be ensured asks for is in the maps, if it exists.   *)
MapsFull(r) ==
  /\ pc[r] = "listRoleBindings" => Listed(user[r], {Cluster}) \subseteq ListedKeys(r)
  /\ pc[r] \in {"reconcile", "update"} =>
       \A t \in todo[r] :
         bindings[TaskKey(user[r], t)] # None => TaskKey(user[r], t) \in ListedKeys(r)

UpToDateLogin(r) == AccountThere(r) /\ MapsTrue(r) /\ ReadTrue(r) /\ MapsFull(r)

SerialInv == drifts = 0 => \A r \in Requests : UpToDateLogin(r)

-----------------------------------------------------------------------------
(* Steps in general. *)

LEMMA NextMoves ==
  ASSUME IInv, [Next]_vars, drifts' = drifts
  PROVE  \/ \E r \in Requests : (\E u \in Users : Arrive(r, u)) \/ LoginStep(r) \/ LoginFails(r)
         \/ UNCHANGED <<pc, locals, store>>
<1>1. ~AdminWritesBinding /\ \A u \in Users : ~AdminDeletesAccount(u)
  BY DEF IInv, TypeOK, AdminWritesBinding, AdminDeletesAccount, Drift
<1>2. Environment => UNCHANGED <<pc, locals, store>>
  BY <1>1 DEF Environment, DirectoryChanges, CacheChanges
<1> QED BY <1>2 DEF Next, vars

(* A login writes an account only if it creates its own.                   *)
LEMMA AccountWrites ==
  ASSUME NEW r \in Requests, LoginStep(r) \/ LoginFails(r), accounts' # accounts
  PROVE  pc[r] = "createAccount" /\ accounts' = accounts \cup {user[r]}
<1>1. CASE LoginStep(r)
  <2>1. CreateAccount(r)
    BY <1>1 DEF LoginStep, GetAccount, GetUser, GetUserGroups, GetBindings, Learn,
                ListClusterRoleBindings, ListRoleBindings, CreateMissing, PostMissing, PostBinding,
                KeepExisting, GetForUpdate, UpdateBinding, PutPending, PutBinding, RemoveUnused,
                DeleteBinding, IssueToken, store
  <2> QED BY <2>1 DEF CreateAccount, PostAccount, store
<1>2. CASE LoginFails(r)
  BY <1>2 DEF LoginFails, ApiFails, LdapFails, AnswerLost, PostAccount, PostMissing, PostBinding,
              PutPending, PutBinding, DeleteBinding, store
<1> QED BY <1>1, <1>2

(* A login that does not move is not touched by one of another account.    *)
LEMMA OthersUpToDate ==
  ASSUME IInv, OwnInv, OwnInv', drifts = 0, drifts' = 0, OneLoginPerAccount,
         NEW r \in Requests, LoginStep(r) \/ LoginFails(r) \/ (\E u \in Users : Arrive(r, u)),
         NEW s \in Requests \ {r}, UpToDateLogin(s), NEW v, v = user[s]
  PROVE  UpToDateLogin(s)'
<1>1. LocalsOf(s)' = LocalsOf(s)
  BY OtherLogins DEF MoveOf
<1>2. CASE pc[s] \in Resting
  <2>1. existing'[s] = {} /\ pc'[s] = pc[s]
    BY <1>1, <1>2 DEF IInv, LoginInv, Sourced, LocalsOf
  <2> QED
    BY <1>2, <2>1 DEF UpToDateLogin, AccountThere, MapsTrue, ReadTrue, MapsFull, Resting
<1>3. CASE pc[s] \notin Resting
  <2>1. pc[r] \notin Resting => user[r] # user[s]
    BY <1>3 DEF OneLoginPerAccount
  <2>2. user[s] \in accounts' <=> user[s] \in accounts
    <3>1. CASE \E u \in Users : Arrive(r, u)
      BY <3>1 DEF Arrive, store
    <3>2. CASE LoginStep(r) \/ LoginFails(r)
      BY <2>1, <3>2, AccountWrites DEF Resting
    <3> QED BY <3>1, <3>2
  <2>3. ASSUME NEW k \in Key, k.name.user = user[s] PROVE bindings'[k] = bindings[k]
    <3>1. CASE \E u \in Users : Arrive(r, u)
      BY <3>1 DEF Arrive, store
    <3>2. CASE LoginStep(r) \/ LoginFails(r)
      BY <2>1, <2>3, <3>2, LoginWrites, WritesOwn DEF Resting
    <3> QED BY <3>1, <3>2
  <2>4. user[s] \in Users /\ ListsOwn(s) /\ LoginInv(s)
    BY <1>3 DEF IInv, LoginInv, Asked, OwnInv
  <2>5. AccountThere(s)'
    BY <1>1, <2>2 DEF UpToDateLogin, AccountThere, LocalsOf
  <2>6. MapsTrue(s)'
    <3>1. \A e \in existing[s] : e.key \in Key /\ e.key.name.user = user[s]
      BY <2>4 DEF IInv, TypeOK, LoginTypeOK, Entry, ListsOwn
    <3> QED
      BY <1>1, <2>3, <3>1 DEF UpToDateLogin, MapsTrue, LocalsOf
  <2>7. ASSUME NEW t \in todo[s]
        PROVE  TaskKey(user[s], t) \in Key /\ TaskKey(user[s], t).name.user = user[s]
    BY <2>4, DesiredType, TaskKeyType, DesiredKnown DEF LoginInv, Sourced
  <2>8. ReadTrue(s)'
    <3>1. pc[s] = "update" => pending[s].task \in todo[s]
      BY <2>4 DEF LoginInv, Updating
    <3> QED
      BY <1>1, <2>3, <2>7, <3>1 DEF UpToDateLogin, ReadTrue, LocalsOf
  <2>9. ListedKeys(s)' = ListedKeys(s)
    BY <1>1 DEF ListedKeys, LocalsOf
  <2>10. MapsFull(s)'
    <3>1. Listed(user[s], {Cluster})' \subseteq Listed(user[s], {Cluster})
      <4>1. Listed(user[s], {Cluster})' = Listed(v, {Cluster})'
        BY <1>1 DEF Listed, LocalsOf
      <4>2. \A k \in Key : k.name.user = v => bindings'[k] = bindings[k]
        BY <2>3
      <4> QED
        BY <4>1, <4>2, OwnListed
    <3> QED
      BY <1>1, <2>3, <2>7, <2>9, <3>1 DEF UpToDateLogin, MapsFull, LocalsOf
  <2> QED BY <2>5, <2>6, <2>8, <2>10 DEF UpToDateLogin
<1> QED BY <1>2, <1>3

-----------------------------------------------------------------------------
(* A login that moves. *)

(* One that ends, or still prepares, has read nothing. *)
LEMMA NothingRead ==
  ASSUME IInv', NEW r \in Requests, pc'[r] \in Resting \cup Preparing
  PROVE  MapsTrue(r)' /\ ReadTrue(r)' /\ MapsFull(r)'
<1>1. existing'[r] = {}
  BY DEF IInv, LoginInv, Sourced
<1> QED
  BY <1>1 DEF MapsTrue, ReadTrue, MapsFull, Resting, Preparing

LEMMA EndedUpToDate ==
  ASSUME IInv', NEW r \in Requests, pc'[r] \in Resting
  PROVE  UpToDateLogin(r)'
<1>1. AccountThere(r)'
  BY DEF AccountThere, Resting
<1> QED
  BY <1>1, NothingRead DEF UpToDateLogin

(* The steps up to the first List call. *)
LEMMA PreparingUpToDate ==
  ASSUME IInv, IInv', NEW r \in Requests, UpToDateLogin(r),
         \/ \E u \in Users : Arrive(r, u)
         \/ GetAccount(r) \/ CreateAccount(r) \/ GetUser(r) \/ GetUserGroups(r) \/ GetBindings(r)
  PROVE  UpToDateLogin(r)'
<1> USE DEF GoTo
<1>0. TypeOK /\ LoginTypeOK /\ LoginInv(r)
  BY DEF IInv, TypeOK
<1>1. ASSUME NEW status \in Resting, Finish(r, status) PROVE UpToDateLogin(r)'
  <2>1. pc'[r] \in Resting
    BY <1>0, <1>1 DEF Finish, LoginTypeOK
  <2> QED BY <2>1, EndedUpToDate
<1>2. AfterUpsert \in {"getUser", "reconcile"}
  BY DEF AfterUpsert
<1>3. ASSUME pc[r] \in Preparing, existing' = existing, todo' = todo,
             pc'[r] \in {"getAccount", "createAccount", "getUser", "getUserGroups", "getBindings",
                         "listClusterRoleBindings", "reconcile"}
      PROVE  MapsTrue(r)' /\ ReadTrue(r)' /\ MapsFull(r)'
  <2>1. existing'[r] = {} /\ todo'[r] = {}
    BY <1>0, <1>3 DEF LoginInv, Sourced
  <2> QED
    BY <1>3, <2>1 DEF MapsTrue, ReadTrue, MapsFull
<1>4. CASE \E u \in Users : Arrive(r, u)
  <2>1. pc'[r] = "getAccount"
    BY <1>0, <1>4 DEF Arrive, LoginTypeOK
  <2> QED
    BY <2>1, NothingRead DEF UpToDateLogin, AccountThere, Preparing
<1>5. CASE GetAccount(r)
  <2>1. /\ pc[r] = "getAccount" /\ UNCHANGED <<accounts, user, existing, todo>>
        /\ pc'[r] = IF user[r] \in accounts THEN AfterUpsert ELSE "createAccount"
    BY <1>0, <1>5 DEF GetAccount, LoginTypeOK, store, locals
  <2>2. AccountThere(r)'
    BY <1>2, <2>1 DEF AccountThere
  <2> QED
    BY <1>2, <1>3, <2>1, <2>2 DEF UpToDateLogin, Preparing
<1>6. CASE CreateAccount(r) /\ GoTo(r, AfterUpsert) /\ UNCHANGED <<locals, undisturbed>> /\ PostAccount(user[r])
  <2>1. /\ pc[r] = "createAccount" /\ UNCHANGED <<user, existing, todo>>
        /\ pc'[r] = AfterUpsert /\ accounts' = accounts \cup {user[r]}
    BY <1>0, <1>6 DEF CreateAccount, PostAccount, LoginTypeOK, locals
  <2>2. AccountThere(r)'
    BY <1>2, <2>1 DEF AccountThere
  <2> QED
    BY <1>2, <1>3, <2>1, <2>2 DEF UpToDateLogin, Preparing
<1>7. CASE \/ GetUser(r) /\ GoTo(r, "getUserGroups") /\ UNCHANGED locals
           \/ GetUserGroups(r) \/ GetBindings(r)
  <2>1. /\ pc[r] \in {"getUser", "getUserGroups", "getBindings"}
        /\ UNCHANGED <<accounts, user, existing, todo>>
        /\ pc'[r] \in {"getUserGroups", "getBindings", "listClusterRoleBindings"}
    BY <1>0, <1>7 DEF GetUser, GetUserGroups, GetBindings, Learn, LoginTypeOK, store, locals
  <2>2. AccountThere(r)'
    BY <2>1 DEF UpToDateLogin, AccountThere, Resting
  <2> QED
    BY <1>3, <2>1, <2>2 DEF UpToDateLogin, Preparing
<1> QED
  BY <1>1, <1>4, <1>5, <1>6, <1>7 DEF CreateAccount, GetUser, Resting

(* The List calls. *)
LEMMA ListsUpToDate ==
  ASSUME IInv, OwnInv, drifts = 0, OneNamespacePerRole, NEW r \in Requests, UpToDateLogin(r),
         ListClusterRoleBindings(r) \/ ListRoleBindings(r)
  PROVE  UpToDateLogin(r)'
<1>0. TypeOK /\ LoginTypeOK /\ LoginInv(r)
  BY DEF IInv, TypeOK
<1>1. /\ UNCHANGED <<accounts, bindings, user, desired>>
      /\ pc[r] \in {"listClusterRoleBindings", "listRoleBindings"}
      /\ pc'[r] \in {"listRoleBindings", "reconcile"}
  BY <1>0 DEF ListClusterRoleBindings, ListRoleBindings, GoTo, LoginTypeOK, store
<1>2. AccountThere(r)' /\ ReadTrue(r)'
  BY <1>1 DEF UpToDateLogin, AccountThere, ReadTrue, Resting
<1>3. ASSUME NEW keys, NEW e \in Snapshot(keys) PROVE bindings[e.key] = e.binding
  BY DEF Snapshot
<1>4. CASE ListClusterRoleBindings(r)
  <2>1. /\ pc'[r] = "listRoleBindings"
        /\ existing'[r] = Snapshot(Listed(user[r], {Cluster}))
    BY <1>0, <1>4 DEF ListClusterRoleBindings, GetClusterRoleBindings, GoTo, LoginTypeOK
  <2>2. MapsTrue(r)'
    BY <1>1, <1>3, <2>1 DEF MapsTrue
  <2>3. ListedKeys(r)' = Listed(user[r], {Cluster})
    BY <2>1, SnapshotKeys DEF ListedKeys
  <2>4. Listed(user[r], {Cluster})' = Listed(user[r], {Cluster})
    BY <1>1 DEF Listed
  <2>5. MapsFull(r)'
    BY <2>1, <2>3, <2>4 DEF MapsFull
  <2> QED BY <1>2, <2>2, <2>5 DEF UpToDateLogin
<1>5. CASE ListRoleBindings(r)
  <2>1. PICK kept \in LastByName(GetRoleBindings(user[r])) :
          existing' = [existing EXCEPT ![r] = @ \cup Snapshot(kept)]
    BY <1>5 DEF ListRoleBindings
  <2>2. kept = Listed(user[r], Namespaces)
    BY AllByName DEF OwnInv, GetRoleBindings
  <2>3. /\ pc[r] = "listRoleBindings" /\ pc'[r] = "reconcile" /\ todo'[r] = desired[r]
        /\ existing'[r] = existing[r] \cup Snapshot(Listed(user[r], Namespaces))
    BY <1>0, <1>5, <2>1, <2>2 DEF ListRoleBindings, GoTo, LoginTypeOK
  <2>4. MapsTrue(r)'
    BY <1>1, <1>3, <2>3 DEF UpToDateLogin, MapsTrue
  <2>5. ListedKeys(r)' = ListedKeys(r) \cup Listed(user[r], Namespaces)
    <3>1. {e.key : e \in Snapshot(Listed(user[r], Namespaces))} = Listed(user[r], Namespaces)
      BY SnapshotKeys
    <3> QED BY <2>3, <3>1 DEF ListedKeys
  <2>6. ASSUME NEW t \in desired[r], bindings[TaskKey(user[r], t)] # None
        PROVE  TaskKey(user[r], t) \in ListedKeys(r)'
    <3>1. user[r] \in Users
      BY <1>0, <2>3 DEF LoginInv, Asked, Resting
    <3>2. TaskKey(user[r], t) \in Key /\ TaskKey(user[r], t).name.user = user[r]
      BY <3>1, DesiredType, TaskKeyType, DesiredKnown
    <3>3. TaskKey(user[r], t) \in Listed(user[r], {Cluster}) \cup Listed(user[r], Namespaces)
      <4>1. TaskKey(user[r], t).scope \in Namespaces \cup {Cluster}
        BY <3>2 DEF Key, Scopes
      <4> QED BY <2>6, <3>2, <4>1, OwnListed
    <3> QED BY <2>3, <2>5, <3>3 DEF UpToDateLogin, MapsFull
  <2>7. MapsFull(r)'
    BY <1>1, <2>3, <2>6 DEF MapsFull
  <2> QED BY <1>2, <2>4, <2>7 DEF UpToDateLogin
<1> QED BY <1>4, <1>5

(* Different items ask for different bindings. *)
LEMMA ItemKeys ==
  ASSUME IInv, ItemsOnce, NEW r \in Requests, NEW t1 \in desired[r], NEW t2 \in desired[r],
         TaskKey(user[r], t1) = TaskKey(user[r], t2)
  PROVE  t1 = t2
<1>1. PICK lgbs \in BindingSets : desired[r] = Tasks(lgbs, groups[r])
  BY DEF IInv, LoginInv, Sourced
<1>2. groups[r] \subseteq Groups
  BY DEF IInv, TypeOK, LoginTypeOK
<1>3. t1 \in Tasks(lgbs, Groups) /\ t2 \in Tasks(lgbs, Groups)
  BY <1>1, <1>2 DEF Tasks
<1>4. t1.lgb = t2.lgb /\ t1.item.name = t2.item.name /\ TaskScope(t1) = TaskScope(t2)
  BY DEF TaskKey, TaskName, GenBindingName
<1> QED BY <1>3, <1>4 DEF ItemsOnce

(* An item is ensured, and nothing is written but its binding. *)
LEMMA EnsuredUpToDate ==
  ASSUME IInv, OwnInv, drifts = 0, OneNamespacePerRole, ItemsOnce, NEW r \in Requests,
         UpToDateLogin(r), pc[r] \in {"reconcile", "update"}, NEW t \in todo[r], Ensured(r, t),
         accounts' = accounts,
         \A k \in Key : k # TaskKey(user[r], t) => bindings'[k] = bindings[k]
  PROVE  UpToDateLogin(r)'
<1>0. TypeOK /\ LoginTypeOK /\ LoginInv(r) /\ ListsOwn(r)
  BY DEF IInv, TypeOK, OwnInv
<1>1. /\ pc'[r] = "reconcile" /\ user'[r] = user[r] /\ todo'[r] = todo[r] \ {t}
      /\ existing'[r] = existing[r] \ Matching(r, t)
  BY <1>0 DEF Ensured, GoTo, LoginTypeOK
<1>2. user[r] \in Users /\ t \in desired[r]
  BY <1>0 DEF LoginInv, Asked, Sourced, Resting
<1>3. AccountThere(r)' /\ ReadTrue(r)'
  BY <1>1 DEF UpToDateLogin, AccountThere, ReadTrue, Resting
<1>4. MapsTrue(r)'
  <2>1. ASSUME NEW e \in existing'[r] PROVE e.key \in Key /\ e.key # TaskKey(user[r], t)
    BY <1>0, <1>1 DEF LoginTypeOK, Entry, Matching, TaskKey
  <2> QED
    BY <1>1, <2>1 DEF UpToDateLogin, MapsTrue
<1>5. MapsFull(r)'
  <2>1. ASSUME NEW d \in todo'[r], bindings'[TaskKey(user[r], d)] # None
        PROVE  TaskKey(user[r], d) \in ListedKeys(r)'
    <3>1. d \in todo[r] /\ d \in desired[r] /\ d # t
      BY <1>0, <1>1 DEF LoginInv, Sourced
    <3>2. TaskKey(user[r], d) # TaskKey(user[r], t)
      BY <1>2, <3>1, ItemKeys
    <3>3. TaskKey(user[r], d) \in Key
      BY <1>2, <3>1, DesiredType, TaskKeyType
    <3>4. TaskKey(user[r], d) \in ListedKeys(r)
      BY <2>1, <3>1, <3>2, <3>3 DEF UpToDateLogin, MapsFull
    <3>5. PICK e \in existing[r] : e.key = TaskKey(user[r], d)
      BY <3>4 DEF ListedKeys
    <3>6. e \notin Matching(r, t)
      BY <1>0, <1>2, <3>2, <3>5, MatchingKey
    <3> QED
      BY <1>1, <3>5, <3>6 DEF ListedKeys
  <2> QED
    BY <1>1, <2>1 DEF MapsFull
<1> QED BY <1>3, <1>4, <1>5 DEF UpToDateLogin

(* The steps of the reconciliation. *)
LEMMA ReconcilingUpToDate ==
  ASSUME IInv, IInv', OwnInv, drifts = 0, OneNamespacePerRole, ItemsOnce, NEW r \in Requests,
         UpToDateLogin(r),
         \/ \E t \in todo[r] : CreateMissing(r, t) \/ KeepExisting(r, t) \/ GetForUpdate(r, t)
         \/ UpdateBinding(r)
         \/ \E e \in existing[r] : RemoveUnused(r, e)
         \/ IssueToken(r)
  PROVE  UpToDateLogin(r)'
<1> USE DEF GoTo
<1>0. TypeOK /\ LoginTypeOK /\ StoreTypeOK /\ LoginInv(r) /\ ListsOwn(r)
  BY DEF IInv, TypeOK, OwnInv
<1>1. ASSUME NEW status \in Resting, Finish(r, status) PROVE UpToDateLogin(r)'
  <2>1. pc'[r] \in Resting
    BY <1>0, <1>1 DEF Finish, LoginTypeOK
  <2> QED BY <2>1, EndedUpToDate
<1>2. ASSUME NEW t \in todo[r], PostMissing(r, t), Ensured(r, t) PROVE UpToDateLogin(r)'
  <2>1. /\ pc[r] = "reconcile" /\ accounts' = accounts
        /\ \A k \in Key : k # TaskKey(user[r], t) => bindings'[k] = bindings[k]
    BY <1>0, <1>2 DEF PostMissing, PostBinding, StoreTypeOK
  <2> QED BY <1>2, <2>1, EnsuredUpToDate
<1>3. ASSUME NEW t \in todo[r], KeepExisting(r, t) PROVE UpToDateLogin(r)'
  <2>1. pc[r] = "reconcile" /\ accounts' = accounts /\ bindings' = bindings /\ Ensured(r, t)
    BY <1>3 DEF KeepExisting, store
  <2> QED BY <2>1, EnsuredUpToDate
<1>4. ASSUME PutPending(r), Ensured(r, pending[r].task) PROVE UpToDateLogin(r)'
  <2>1. pc[r] = "update" /\ pending[r].task \in todo[r]
    BY <1>0, <1>4 DEF PutPending, LoginInv, Updating
  <2>2. /\ accounts' = accounts
        /\ \A k \in Key : k # TaskKey(user[r], pending[r].task) => bindings'[k] = bindings[k]
    BY <1>0, <1>4 DEF PutPending, PutBinding, StoreTypeOK
  <2> QED BY <1>4, <2>1, <2>2, EnsuredUpToDate
<1>5. ASSUME NEW t \in todo[r], GetForUpdate(r, t), pc'[r] \notin Resting PROVE UpToDateLogin(r)'
  <2>1. /\ pending' = [pending EXCEPT ![r] = [task |-> t, read |-> bindings[TaskKey(user[r], t)]]]
        /\ pc' = [pc EXCEPT ![r] = "update"]
        /\ UNCHANGED <<accounts, bindings, user, todo, existing>>
    BY <1>0, <1>5 DEF GetForUpdate, Finish, LoginTypeOK, Resting, store
  <2>2. /\ pc'[r] = "update" /\ pc[r] = "reconcile"
        /\ pending'[r].task = t /\ pending'[r].read = bindings[TaskKey(user[r], t)]
    BY <1>0, <1>5, <2>1 DEF GetForUpdate, LoginTypeOK
  <2>3. AccountThere(r)' /\ ReadTrue(r)' /\ MapsTrue(r)'
    BY <2>1, <2>2 DEF UpToDateLogin, AccountThere, ReadTrue, MapsTrue, Resting
  <2>4. MapsFull(r)'
    BY <2>1, <2>2 DEF UpToDateLogin, MapsFull, ListedKeys
  <2> QED BY <2>3, <2>4 DEF UpToDateLogin
<1>6. ASSUME NEW e \in existing[r], RemoveUnused(r, e), DeleteBinding(e.key),
             existing' = [existing EXCEPT ![r] = @ \ {e}],
             UNCHANGED <<pc, user, groups, desired, todo, pending, undisturbed>>
      PROVE  UpToDateLogin(r)'
  <2>1. pc[r] = "reconcile" /\ todo[r] = {} /\ existing'[r] = existing[r] \ {e} /\ accounts' = accounts
    BY <1>0, <1>6 DEF RemoveUnused, Unused, LoginTypeOK, DeleteBinding
  <2>2. AccountThere(r)' /\ ReadTrue(r)' /\ MapsFull(r)'
    BY <1>6, <2>1 DEF UpToDateLogin, AccountThere, ReadTrue, MapsFull
  <2>3. ASSUME NEW d \in existing'[r] PROVE bindings'[d.key] = d.binding
    <3>1. d \in existing[r] /\ d # e /\ d \in Entry /\ e \in Entry
      BY <1>0, <2>1 DEF LoginTypeOK
    <3>2. bindings[d.key] = d.binding /\ bindings[e.key] = e.binding
      BY <3>1 DEF UpToDateLogin, MapsTrue
    <3>3. d.key # e.key
      BY <3>1, <3>2 DEF Entry
    <3>4. d.key \in Key
      BY <3>1 DEF Entry
    <3> QED
      BY <1>0, <1>6, <3>2, <3>3, <3>4 DEF DeleteBinding, StoreTypeOK
  <2>4. MapsTrue(r)'
    BY <2>3 DEF MapsTrue
  <2> QED BY <2>2, <2>4 DEF UpToDateLogin
<1>7. CASE pc'[r] \in Resting
  BY <1>7, EndedUpToDate
<1>8. CASE pc'[r] \notin Resting
  <2>1. ASSUME NEW status \in Resting, Finish(r, status) PROVE FALSE
    BY <1>0, <1>8, <2>1 DEF Finish, LoginTypeOK
  <2>2. ~Finish(r, "failed") /\ ~IssueToken(r)
    BY <2>1 DEF IssueToken, Resting
  <2> QED
    BY <1>2, <1>3, <1>4, <1>5, <1>6, <1>8, <2>2 DEF CreateMissing, UpdateBinding, RemoveUnused
<1> QED BY <1>7, <1>8

(* A step of the login itself. *)
LEMMA OwnUpToDate ==
  ASSUME IInv, IInv', OwnInv, drifts = 0, OneNamespacePerRole, ItemsOnce, NEW r \in Requests,
         UpToDateLogin(r), LoginStep(r) \/ LoginFails(r) \/ (\E u \in Users : Arrive(r, u))
  PROVE  UpToDateLogin(r)'
<1>1. CASE LoginFails(r)
  <2>1. pc'[r] \in Resting
    BY <1>1 DEF LoginFails, ApiFails, LdapFails, AnswerLost, Finish, Resting, IInv, TypeOK, LoginTypeOK
  <2> QED BY <2>1, EndedUpToDate
<1>2. CASE LoginStep(r)
  BY <1>2, PreparingUpToDate, ListsUpToDate, ReconcilingUpToDate DEF LoginStep
<1>3. CASE \E u \in Users : Arrive(r, u)
  BY <1>3, PreparingUpToDate
<1> QED BY <1>1, <1>2, <1>3

LEMMA InitSerialInv == Init => SerialInv
BY DEF Init, SerialInv, UpToDateLogin, AccountThere, MapsTrue, ReadTrue, MapsFull, Resting

LEMMA NextSerialInv ==
  ASSUME OneNamespacePerRole, ItemsOnce
  PROVE  IInv /\ OwnInv /\ SerialInv /\ OneLoginPerAccount /\ [Next]_vars => SerialInv'
<1> SUFFICES ASSUME IInv, OwnInv, SerialInv, OneLoginPerAccount, [Next]_vars, drifts' = 0,
                    NEW s \in Requests
             PROVE  UpToDateLogin(s)'
  BY DEF SerialInv
<1>1. [OpenNext]_vars
  BY NextIsOpen
<1>2. IInv' /\ OwnInv'
  BY <1>1, NextIInv, NextOwnInv
<1>3. drifts = 0
  BY <1>1, DriftsGrow DEF IInv, TypeOK
<1>4. UpToDateLogin(s)
  BY <1>3 DEF SerialInv
<1>5. CASE UNCHANGED <<pc, locals, store>>
  BY <1>4, <1>5 DEF UpToDateLogin, AccountThere, MapsTrue, ReadTrue, MapsFull, Listed, ListedKeys, locals, store
<1>6. ASSUME NEW r \in Requests, LoginStep(r) \/ LoginFails(r) \/ (\E u \in Users : Arrive(r, u))
      PROVE  UpToDateLogin(s)'
  <2>1. CASE s = r
    BY <1>2, <1>3, <1>4, <1>6, <2>1, OwnUpToDate
  <2>2. CASE s # r
    <3> DEFINE v == user[s]
    <3>1. v = user[s]
      OBVIOUS
    <3> HIDE DEF v
    <3> QED BY <1>2, <1>3, <1>4, <1>6, <2>2, <3>1, OthersUpToDate
  <2> QED BY <2>1, <2>2
<1> QED BY <1>3, <1>5, <1>6, NextMoves

-----------------------------------------------------------------------------
(* No login fails. *)

(* No call of an up-to-date login is refused. *)
LEMMA NoRefusal ==
  ASSUME IInv, OwnInv, drifts = 0, OneNamespacePerRole, GroupsValid, NEW r \in Requests,
         UpToDateLogin(r), pc[r] \notin Resting, LoginStep(r)
  PROVE  pc'[r] # "failed"
<1> USE DEF GoTo
<1>0. TypeOK /\ LoginTypeOK /\ StoreTypeOK /\ LoginInv(r) /\ ListsOwn(r)
  BY DEF IInv, TypeOK, OwnInv
<1>1. user[r] \in Users
  BY <1>0 DEF LoginInv, Asked
<1>2. ASSUME NEW t \in todo[r]
      PROVE  t \in desired[r] /\ ValidGroup(t) /\ TaskKey(user[r], t) \in Key
             /\ TaskKey(user[r], t).name.role = t.item.name
  <2>1. t \in desired[r]
    BY <1>0 DEF LoginInv, Sourced
  <2>2. PICK lgbs \in BindingSets : desired[r] = Tasks(lgbs, groups[r])
    BY <1>0, <2>1 DEF LoginInv, Sourced
  <2>3. t \in Tasks(lgbs, Groups)
    BY <1>0, <2>1, <2>2 DEF LoginTypeOK, Tasks
  <2> QED
    BY <1>1, <2>1, <2>3, DesiredType, TaskKeyType, DesiredKnown DEF GroupsValid
<1>3. CASE GetAccount(r) \/ GetUser(r) \/ GetUserGroups(r) \/ GetBindings(r)
           \/ ListClusterRoleBindings(r) \/ ListRoleBindings(r)
  BY <1>0, <1>3 DEF GetAccount, AfterUpsert, GetUser, Finish, GetUserGroups, GetBindings, Learn,
                    ListClusterRoleBindings, ListRoleBindings, LoginTypeOK
<1>4. CASE CreateAccount(r)
  <2>1. pc[r] = "createAccount" /\ user[r] \notin accounts
    BY <1>4 DEF CreateAccount, UpToDateLogin, AccountThere
  <2> QED
    BY <1>0, <1>4, <2>1 DEF CreateAccount, AfterUpsert, LoginTypeOK
<1>5. ASSUME NEW t \in todo[r], CreateMissing(r, t) PROVE pc'[r] = "reconcile"
  <2>1. pc[r] = "reconcile" /\ Matching(r, t) = {}
    BY <1>5 DEF CreateMissing, PostMissing
  <2>2. \A e \in existing[r] : e.key # TaskKey(user[r], t)
    BY <2>1 DEF Matching, TaskKey
  <2>3. bindings[TaskKey(user[r], t)] = None
    BY <2>1, <2>2 DEF UpToDateLogin, MapsFull, ListedKeys
  <2> QED
    BY <1>0, <1>2, <1>5, <2>3 DEF CreateMissing, Ensured, LoginTypeOK
<1>6. ASSUME NEW t \in todo[r], KeepExisting(r, t) PROVE pc'[r] = "reconcile"
  BY <1>0, <1>6 DEF KeepExisting, Ensured, LoginTypeOK
<1>7. ASSUME NEW t \in todo[r], GetForUpdate(r, t) PROVE pc'[r] = "update"
  <2>1. PICK e \in Matching(r, t) : ~UpToDate(user[r], t, e.binding)
    BY <1>7 DEF GetForUpdate
  <2>2. e \in existing[r] /\ e.binding \in Binding /\ e.key = TaskKey(user[r], t)
    <3>1. e \in Entry /\ e \in existing[r]
      BY <1>0 DEF LoginTypeOK, Matching
    <3> QED BY <1>0, <1>1, <1>2, <2>1, <3>1, MatchingKey DEF Entry
  <2>3. bindings[TaskKey(user[r], t)] # None
    BY <2>2, NoneAssumption DEF UpToDateLogin, MapsTrue
  <2> QED
    BY <1>0, <1>7, <2>3 DEF GetForUpdate, LoginTypeOK
<1>8. CASE UpdateBinding(r)
  <2> DEFINE t == pending[r].task
             read == pending[r].read
  <2>1. pc[r] = "update" /\ t \in todo[r] /\ read \in Binding
    BY <1>0, <1>8 DEF UpdateBinding, PutPending, LoginInv, Updating
  <2>2. bindings[TaskKey(user[r], t)] = read
    BY <2>1 DEF UpToDateLogin, ReadTrue
  <2>3. read = NewBinding(TaskKey(user[r], t).name.user, TaskKey(user[r], t).name.role)
    BY <1>2, <2>1, <2>2, NoneAssumption DEF OwnInv, MadeHere
  <2>4. read.role = t.item.name
    <3> HIDE DEF t, read
    <3> QED BY <1>2, <2>1, <2>3 DEF NewBinding
  <2>5. AmendedOf(r).role = read.role
    BY <2>1, <2>4 DEF AmendedOf, Amended, Binding
  <2>6. Ensured(r, t)
    BY <1>2, <1>8, <2>1, <2>2, <2>5 DEF UpdateBinding
  <2> QED
    BY <1>0, <2>6 DEF Ensured, LoginTypeOK
<1>9. ASSUME NEW e \in existing[r], RemoveUnused(r, e) PROVE pc'[r] = "reconcile"
  <2>1. e \in Entry
    BY <1>0 DEF LoginTypeOK
  <2>2. bindings[e.key] # None
    BY <2>1, NoneAssumption DEF UpToDateLogin, MapsTrue, Entry
  <2> QED
    BY <1>9, <2>2 DEF RemoveUnused, Unused
<1>10. CASE IssueToken(r)
  <2>1. user[r] \in accounts
    BY <1>10 DEF IssueToken, Reconciled, UpToDateLogin, AccountThere, Resting
  <2> QED
    BY <1>0, <1>10, <2>1 DEF IssueToken, Finish, LoginTypeOK
<1> QED BY <1>3, <1>4, <1>5, <1>6, <1>7, <1>8, <1>9, <1>10 DEF LoginStep

LEMMA FailuresAreFaults ==
  ASSUME IInv, OwnInv, SerialInv, drifts = 0, OneNamespacePerRole, GroupsValid, [Next]_vars,
         NEW s \in Requests, pc[s] \notin Resting, pc'[s] = "failed"
  PROVE  faults' # faults
<1>1. UpToDateLogin(s)
  BY DEF SerialInv
<1>2. pc'[s] # pc[s]
  BY DEF Resting
<1>3. PICK r \in Requests : (\E u \in Users : Arrive(r, u)) \/ LoginStep(r) \/ LoginFails(r)
  BY <1>2 DEF Next, vars, Environment, DirectoryChanges, CacheChanges, AdminWritesBinding,
              AdminDeletesAccount
<1>4. s = r
  <2>1. s # r => LocalsOf(s)' = LocalsOf(s)
    BY <1>3, OtherLogins DEF MoveOf
  <2> QED BY <1>2, <2>1 DEF LocalsOf
<1>5. LoginFails(s)
  BY <1>1, <1>3, <1>4, NoRefusal DEF Arrive
<1>6. faults \in Nat /\ faults' = faults + 1
  BY <1>5 DEF LoginFails, ApiFails, LdapFails, AnswerLost, Fault, IInv, TypeOK
<1> QED BY <1>6

(***************************************************************************)
(* As long as the logins of an account come one after the other, a login   *)
(* fails only because a call failed or an administrator intervened, if a   *)
(* role is listed once for one place and by an API group that exists:      *)
(* whatever earlier logins left behind, cut short between any two calls,   *)
(* and whatever logins of other accounts do meanwhile, in however many     *)
(* replicas with whatever caches, no call is refused.                      *)
(***************************************************************************)
THEOREM SuccessInTurn ==
  ASSUME OneNamespacePerRole, ItemsOnce, GroupsValid
  PROVE  Spec /\ []OneLoginPerAccount => SerialLoginsSucceed
<1>1. Spec => [](IInv /\ OwnInv)
  BY InitIInv, InitOwnInv, NextIInv, NextOwnInv, NextIsOpen, PTL DEF Spec
<1>2. Spec /\ []OneLoginPerAccount => []SerialInv
  BY <1>1, InitSerialInv, NextSerialInv, PTL DEF Spec
<1>3. IInv /\ OwnInv /\ SerialInv /\ [Next]_vars =>
        [\A r \in Requests :
           pc[r] \notin Resting /\ pc'[r] = "failed" => faults' # faults \/ drifts # 0]_vars
  BY FailuresAreFaults
<1> QED BY <1>1, <1>2, <1>3, PTL DEF Spec, SerialLoginsSucceed

(***************************************************************************)
(* With one login at a time, then, it fails for no reason of its own.      *)
(***************************************************************************)
THEOREM SerialSuccess ==
  ASSUME OneNamespacePerRole, ItemsOnce, GroupsValid, \A r, s \in Requests : r = s
  PROVE  Spec => SerialLoginsSucceed
<1>1. OneLoginPerAccount
  BY DEF OneLoginPerAccount
<1> QED BY <1>1, SuccessInTurn, PTL

=============================================================================
