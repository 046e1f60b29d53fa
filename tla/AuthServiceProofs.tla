--------------------------- MODULE AuthServiceProofs ---------------------------
(***************************************************************************)
(* Proofs about AuthService, for every value of its constants.             *)
(***************************************************************************)
EXTENDS AuthService, TLAPS

-----------------------------------------------------------------------------
(* The operators on items. *)

(* The turns of the loops over LdapGroupBindings of the right type are of  *)
(* the right type, and of a supported kind.                                *)
LEMMA TasksType ==
  ASSUME NEW lgbs \in BindingSets, NEW gs
  PROVE  \A t \in Tasks(lgbs, gs) : t \in Task /\ Supported(t.item)
<1>1. lgbs \subseteq LdapGroupBinding
  BY WorldAssumption
<1>2. ASSUME NEW b \in lgbs, NEW i \in DOMAIN b.bindings
      PROVE  [lgb |-> b.name, index |-> i, item |-> b.bindings[i]] \in Task
  <2>1. b.name \in LgbNames /\ b.bindings \in Seq(Item)
    BY <1>1 DEF LdapGroupBinding
  <2>2. i \in Nat /\ b.bindings[i] \in Item
    BY <2>1
  <2> QED BY <2>1, <2>2 DEF Task
<1> QED BY <1>2 DEF Tasks

(* The binding an item asks for has its place in the store. *)
LEMMA TaskKeyType ==
  ASSUME NEW u \in Users, NEW t \in Task, Supported(t.item)
  PROVE  TaskKey(u, t) \in Key
<1>1. t.lgb \in LgbNames /\ t.item \in Item
  BY DEF Task
<1>2. TaskName(u, t) \in BindingName
  BY <1>1 DEF TaskName, GenBindingName, BindingName, Item
<1>3. TaskScope(t) \in Scopes
  BY <1>1 DEF TaskScope, Scopes, Supported, Item
<1> QED BY <1>2, <1>3 DEF TaskKey, Key

-----------------------------------------------------------------------------
(* The inductive invariant: what a login knows at each call it makes. *)

Asked(r) == pc[r] \notin Resting => user[r] \in Users

(* What a login reconciles towards comes from its groups and one cache.    *)
Sourced(r) ==
  /\ todo[r] \subseteq desired[r]
  /\ pc[r] \in Resting \cup Preparing => desired[r] = {} /\ existing[r] = {}
  /\ desired[r] # {} => \E lgbs \in BindingSets : desired[r] = Tasks(lgbs, groups[r])

(* An update is for an item whose turn it is. *)
Updating(r) == pc[r] = "update" => pending[r] \in [task : todo[r], read : Binding]

(* An item that has had its turn is out of the two maps. *)
DoneItemsKept(r) ==
  pc[r] \in {"reconcile", "update"} =>
    \A e \in existing[r], t \in desired[r] \ todo[r] : e.key # TaskKey(user[r], t)

LoginInv(r) == Asked(r) /\ Sourced(r) /\ Updating(r) /\ DoneItemsKept(r)

IInv == TypeOK /\ \A r \in Requests : LoginInv(r)

(* The local state of one login. *)
LocalsOf(r) ==
  <<pc[r], user[r], groups[r], desired[r], todo[r], existing[r], pending[r]>>

(***************************************************************************)
(* AuthService as a part of a program.  Another component may keep the     *)
(* caches: they change without a step of AuthService, and what a login     *)
(* learns is one of the sets of LdapGroupBindings, not always the one      *)
(* cached at the end of its walk.  And a process that ends takes its       *)
(* logins with it.  The invariants hold of this wider next-state relation, *)
(* so that they hold of every program that has AuthService as a part.      *)
(***************************************************************************)
LearnFrom(r) == \E lgbs \in BindingSets : Learn(r, lgbs)

CacheTurns ==
  /\ cache' \in [Replicas -> BindingSets]
  /\ UNCHANGED <<store, directory, pc, locals, undisturbed, budget>>

LoginsLost ==
  /\ pc' = [r \in Requests |-> IF pc[r] \in Resting THEN pc[r] ELSE "failed"]
  /\ user' = [r \in Requests |-> None]
  /\ groups' = [r \in Requests |-> {}]
  /\ desired' = [r \in Requests |-> {}]
  /\ todo' = [r \in Requests |-> {}]
  /\ existing' = [r \in Requests |-> {}]
  /\ pending' = [r \in Requests |-> NoUpdate]
  /\ undisturbed' = [r \in Requests |-> TRUE]
  /\ cache' \in [Replicas -> BindingSets]
  /\ UNCHANGED <<store, directory, budget>>

OpenNext == Next \/ (\E r \in Requests : LearnFrom(r)) \/ CacheTurns \/ LoginsLost

(* A login another one does not touch knows what it knew. *)
LEMMA Untouched ==
  ASSUME NEW r \in Requests, LoginInv(r), LocalsOf(r)' = LocalsOf(r)
  PROVE  LoginInv(r)'
BY DEF LoginInv, Asked, Sourced, Updating, DoneItemsKept, LocalsOf

(* The items a login holds are of the right type and kind. *)
LEMMA DesiredType ==
  ASSUME IInv, NEW r \in Requests, NEW t \in desired[r]
  PROVE  t \in Task /\ Supported(t.item)
<1>1. PICK lgbs \in BindingSets : desired[r] = Tasks(lgbs, groups[r])
  BY DEF IInv, LoginInv, Sourced
<1> QED BY <1>1, TasksType

LEMMA NextIsOpen == [Next]_vars => [OpenNext]_vars
BY DEF OpenNext

LEMMA InitIInv == Init => IInv
<1> SUFFICES ASSUME Init PROVE IInv
  OBVIOUS
<1>1. TypeOK
  BY BoundAssumption DEF Init, TypeOK, LoginTypeOK, StoreInit, StoreTypeOK, Resting
<1>2. ASSUME NEW r \in Requests PROVE LoginInv(r)
  BY DEF Init, LoginInv, Asked, Sourced, Updating, DoneItemsKept, Resting
<1> QED BY <1>1, <1>2 DEF IInv

-----------------------------------------------------------------------------
(* Finish leaves a login that knows nothing, and the other logins alone.   *)
LEMMA FinishLogins ==
  ASSUME IInv, NEW r \in Requests, NEW status \in Resting, Finish(r, status)
  PROVE  /\ \A s \in Requests : LoginInv(s)'
         /\ LoginTypeOK'
<1>1. TypeOK
  BY DEF IInv
<1>2. ASSUME NEW s \in Requests, s # r PROVE LoginInv(s)'
  <2>1. LocalsOf(s)' = LocalsOf(s)
    BY <1>1, <1>2 DEF Finish, LocalsOf, TypeOK, LoginTypeOK
  <2> QED BY <2>1, Untouched DEF IInv
<1>3. LoginInv(r)'
  BY <1>1 DEF Finish, TypeOK, LoginTypeOK, LoginInv, Asked, Sourced, Updating, DoneItemsKept, Resting
<1> QED BY <1>1, <1>2, <1>3 DEF Finish, TypeOK, LoginTypeOK

-----------------------------------------------------------------------------
(* The store: what each write leaves is of the right type. *)

LEMMA WritesType ==
  ASSUME StoreTypeOK,
         \/ \E u \in Users : PostAccount(u)
         \/ \E k \in Key, b \in Binding : PostBinding(k, b)
         \/ \E k \in Key, read, b \in Binding : PutBinding(k, read, b)
         \/ \E k \in Key : DeleteBinding(k)
  PROVE  StoreTypeOK'
<1>1. CASE \E u \in Users : PostAccount(u)
  BY <1>1 DEF StoreTypeOK, PostAccount
<1>2. CASE \E k \in Key, b \in Binding : PostBinding(k, b)
  BY <1>2 DEF StoreTypeOK, PostBinding
<1>3. CASE \E k \in Key, read, b \in Binding : PutBinding(k, read, b)
  BY <1>3 DEF StoreTypeOK, PutBinding
<1>4. CASE \E k \in Key : DeleteBinding(k)
  BY <1>4 DEF StoreTypeOK, DeleteBinding
<1> QED BY <1>1, <1>2, <1>3, <1>4

-----------------------------------------------------------------------------
(* Each step keeps the invariant. *)

LEMMA OneLogin ==
  ASSUME IInv, NEW r \in Requests, LoginInv(r)',
         \A s \in Requests \ {r} : LocalsOf(s)' = LocalsOf(s)
  PROVE  \A s \in Requests : LoginInv(s)'
BY Untouched DEF IInv

(* Steps that move a login on without a change to the store or the world.  *)
LEMMA QuietSteps ==
  ASSUME IInv, NEW r \in Requests,
         \/ \E u \in Users : Arrive(r, u)
         \/ GetAccount(r)
         \/ GetUserGroups(r)
         \/ GetBindings(r) \/ LearnFrom(r)
         \/ ListClusterRoleBindings(r)
         \/ ListRoleBindings(r)
  PROVE  IInv'
<1> USE DEF GoTo, Resting, ApiCalls, LdapCalls, Preparing
<1>0. TypeOK /\ LoginInv(r)
  BY DEF IInv
<1> USE <1>0
<1>a. ASSUME NEW u \in Users, Arrive(r, u) PROVE LoginTypeOK' /\ LoginInv(r)'
  BY <1>a DEF Arrive, TypeOK, LoginTypeOK, LoginInv, Asked, Sourced, Updating, DoneItemsKept
<1>b. ASSUME GetAccount(r) PROVE LoginTypeOK' /\ LoginInv(r)'
  <2>1. AfterUpsert \in {"getUser", "reconcile"}
    BY DEF AfterUpsert
  <2> QED
    BY <1>b, <2>1 DEF GetAccount, locals, TypeOK, LoginTypeOK,
                      LoginInv, Asked, Sourced, Updating, DoneItemsKept
<1>c. ASSUME GetUserGroups(r) PROVE LoginTypeOK' /\ LoginInv(r)'
  <2>1. directory[user[r]].groups \in SUBSET Groups
    BY <1>c, WorldAssumption DEF GetUserGroups, TypeOK, LoginInv, Asked, DirectoryEntry
  <2> QED
    BY <1>c, <2>1 DEF GetUserGroups, TypeOK, LoginTypeOK,
                      LoginInv, Asked, Sourced, Updating, DoneItemsKept
<1>h. GetBindings(r) => LearnFrom(r)
  <2>1. cache[ServedBy[r]] \in BindingSets
    BY ReplicaAssumption DEF TypeOK
  <2> QED
    BY <2>1 DEF GetBindings, LearnFrom
<1>d. ASSUME LearnFrom(r) PROVE LoginTypeOK' /\ LoginInv(r)'
  <2>1. PICK lgbs \in BindingSets : Learn(r, lgbs)
    BY <1>d DEF LearnFrom
  <2>2. Tasks(lgbs, groups[r]) \in SUBSET Task
    BY TasksType
  <2>3. Learn(r, lgbs)
    BY <2>1
  <2> QED
    BY <2>1, <2>2, <2>3 DEF Learn, TypeOK, LoginTypeOK,
                      LoginInv, Asked, Sourced, Updating, DoneItemsKept
<1>e. ASSUME NEW u, NEW scopes, NEW keys \in SUBSET Listed(u, scopes)
      PROVE  Snapshot(keys) \in SUBSET Entry
  <2>1. \A k \in keys : k \in Key /\ bindings[k] \in Binding
    BY DEF Listed, TypeOK, StoreTypeOK
  <2> QED BY <2>1 DEF Snapshot, Entry
<1>f. ASSUME ListClusterRoleBindings(r) PROVE LoginTypeOK' /\ LoginInv(r)'
  <2>1. Snapshot(GetClusterRoleBindings(user[r])) \in SUBSET Entry
    BY <1>e DEF GetClusterRoleBindings
  <2>2. \A s \in Requests : (Rivals(r) = {}) \in BOOLEAN /\ (undisturbed[s] /\ s \notin Rivals(r)) \in BOOLEAN
    BY DEF TypeOK, LoginTypeOK
  <2> QED
    BY <1>f, <2>1, <2>2 DEF ListClusterRoleBindings, TypeOK, LoginTypeOK,
                            LoginInv, Asked, Sourced, Updating, DoneItemsKept
<1>g. ASSUME ListRoleBindings(r) PROVE LoginTypeOK' /\ LoginInv(r)'
  <2>1. PICK kept \in LastByName(GetRoleBindings(user[r])) :
          existing' = [existing EXCEPT ![r] = @ \cup Snapshot(kept)]
    BY <1>g DEF ListRoleBindings
  <2>2. Snapshot(kept) \in SUBSET Entry
    BY <1>e DEF LastByName, GetRoleBindings
  <2> QED
    BY <1>g, <2>1, <2>2 DEF ListRoleBindings, TypeOK, LoginTypeOK,
                            LoginInv, Asked, Sourced, Updating, DoneItemsKept
<1>1. LoginTypeOK' /\ LoginInv(r)'
  BY <1>a, <1>b, <1>c, <1>d, <1>f, <1>g, <1>h
<1>2. \A s \in Requests \ {r} : LocalsOf(s)' = LocalsOf(s)
  BY <1>h DEF Arrive, GetAccount, GetUserGroups, LearnFrom, Learn, ListClusterRoleBindings,
         ListRoleBindings, LocalsOf, locals, TypeOK, LoginTypeOK
<1>3. UNCHANGED <<store, world, budget>>
  BY <1>h DEF Arrive, GetAccount, GetUserGroups, LearnFrom, Learn, ListClusterRoleBindings,
              ListRoleBindings
<1>4. TypeOK'
  BY <1>1, <1>3 DEF TypeOK, StoreTypeOK, store, world, budget
<1> QED BY <1>1, <1>2, <1>4, OneLogin DEF IInv

(* A call, its effect on the store aside, that answers the request. *)
LEMMA Answered ==
  ASSUME IInv, NEW r \in Requests, NEW status \in Resting, Finish(r, status),
         StoreTypeOK', UNCHANGED world, UNCHANGED budget \/ Fault
  PROVE  IInv'
<1>1. (\A s \in Requests : LoginInv(s)') /\ LoginTypeOK'
  BY FinishLogins
<1>2. changes' \in 0 .. MaxChanges /\ faults' \in 0 .. MaxFaults /\ drifts' \in 0 .. MaxDrift
  BY BoundAssumption DEF IInv, TypeOK, Fault, budget
<1> QED BY <1>1, <1>2 DEF IInv, TypeOK, world

(* An item is done: it leaves todo, and its name the maps. *)
LEMMA EnsuredLogin ==
  ASSUME IInv, NEW r \in Requests, NEW t \in todo[r],
         pc[r] \in {"reconcile", "update"}, Ensured(r, t),
         pending' = pending \/ pending' = [pending EXCEPT ![r] = NoUpdate],
         StoreTypeOK', UNCHANGED <<world, budget>>
  PROVE  IInv'
<1>0. TypeOK /\ LoginTypeOK /\ LoginInv(r)
  BY DEF IInv, TypeOK
<1>1. user[r] \in Users
  BY <1>0 DEF LoginInv, Asked, Resting
<1>2. LoginTypeOK'
  BY <1>0 DEF Ensured, GoTo, LoginTypeOK, ApiCalls
<1>3. Asked(r)' /\ Sourced(r)' /\ Updating(r)'
  BY <1>0, <1>1 DEF Ensured, GoTo, LoginTypeOK, LoginInv, Asked, Sourced, Updating, Resting, Preparing
<1>4. DoneItemsKept(r)'
  <2> SUFFICES ASSUME NEW e \in existing'[r], NEW d \in desired'[r] \ todo'[r]
               PROVE  e.key # TaskKey(user'[r], d)
    BY DEF DoneItemsKept
  <2>1. /\ e \in existing[r] \ Matching(r, t)
        /\ d \in desired[r] \ (todo[r] \ {t})
        /\ user' = user
    BY <1>0 DEF Ensured, LoginTypeOK
  <2>2. CASE d = t
    <3>1. e.key = TaskKey(user[r], t) => e \in Matching(r, t)
      BY <2>1 DEF Matching, TaskKey
    <3> QED BY <2>1, <2>2, <3>1
  <2>3. CASE d # t
    BY <1>0, <2>1, <2>3 DEF LoginInv, DoneItemsKept
  <2> QED BY <2>2, <2>3
<1>5. \A s \in Requests \ {r} : LocalsOf(s)' = LocalsOf(s)
  BY <1>0 DEF Ensured, GoTo, LocalsOf, LoginTypeOK
<1>6. \A s \in Requests : LoginInv(s)'
  BY <1>3, <1>4, <1>5, OneLogin DEF LoginInv
<1>7. TypeOK'
  BY <1>0, <1>2 DEF TypeOK, world, budget
<1> QED BY <1>6, <1>7 DEF IInv

LEMMA AccountSteps ==
  ASSUME IInv, NEW r \in Requests,
         CreateAccount(r) \/ GetUser(r) \/ IssueToken(r)
  PROVE  IInv'
<1> USE DEF Resting, ApiCalls, LdapCalls, Preparing
<1>0. TypeOK /\ LoginTypeOK /\ StoreTypeOK /\ LoginInv(r)
  BY DEF IInv, TypeOK
<1>1. CASE CreateAccount(r)
  <2>1. user[r] \in Users
    BY <1>0, <1>1 DEF CreateAccount, LoginInv, Asked
  <2>2. StoreTypeOK'
    <3>1. CASE PostAccount(user[r])
      BY <1>0, <2>1, <3>1, WritesType
    <3>2. CASE UNCHANGED store
      BY <1>0, <3>2 DEF StoreTypeOK, store
    <3> QED BY <1>1, <3>1, <3>2 DEF CreateAccount
  <2>3. CASE Finish(r, "failed")
    BY <1>1, <2>2, <2>3, Answered DEF CreateAccount
  <2>4. CASE GoTo(r, AfterUpsert) /\ UNCHANGED <<locals, undisturbed>>
    <3>1. AfterUpsert \in {"getUser", "reconcile"}
      BY DEF AfterUpsert
    <3>2. LoginTypeOK' /\ LoginInv(r)'
      BY <1>0, <1>1, <2>1, <2>4, <3>1
         DEF CreateAccount, GoTo, locals, LoginTypeOK, LoginInv, Asked, Sourced, Updating, DoneItemsKept
    <3>3. \A s \in Requests \ {r} : LocalsOf(s)' = LocalsOf(s)
      BY <1>0, <2>4 DEF GoTo, locals, LocalsOf, LoginTypeOK
    <3>4. TypeOK'
      BY <1>0, <1>1, <2>2, <3>2 DEF CreateAccount, TypeOK, world, budget
    <3> QED BY <3>2, <3>3, <3>4, OneLogin DEF IInv
  <2> QED BY <1>1, <2>3, <2>4 DEF CreateAccount
<1>2. CASE GetUser(r)
  <2>1. StoreTypeOK'
    BY <1>0, <1>2 DEF GetUser, StoreTypeOK, store
  <2>2. CASE Finish(r, "unauthorized")
    BY <1>2, <2>1, <2>2, Answered DEF GetUser
  <2>3. CASE GoTo(r, "getUserGroups") /\ UNCHANGED <<locals, undisturbed>>
    <3>1. LoginTypeOK' /\ LoginInv(r)'
      BY <1>0, <1>2, <2>3
         DEF GetUser, GoTo, locals, LoginTypeOK, LoginInv, Asked, Sourced, Updating, DoneItemsKept
    <3>2. \A s \in Requests \ {r} : LocalsOf(s)' = LocalsOf(s)
      BY <1>0, <2>3 DEF GoTo, locals, LocalsOf, LoginTypeOK
    <3>3. TypeOK'
      BY <1>0, <1>2, <2>1, <3>1 DEF GetUser, TypeOK, world, budget
    <3> QED BY <3>1, <3>2, <3>3, OneLogin DEF IInv
  <2> QED BY <1>2, <2>2, <2>3 DEF GetUser
<1>3. CASE IssueToken(r)
  <2>1. StoreTypeOK'
    BY <1>0, <1>3 DEF IssueToken, StoreTypeOK, store
  <2>2. \E status \in Resting : Finish(r, status)
    BY <1>3 DEF IssueToken
  <2> QED BY <1>3, <2>1, <2>2, Answered DEF IssueToken
<1> QED BY <1>1, <1>2, <1>3

(* An update is of one of the login's items, and writes a binding. *)
LEMMA PendingType ==
  ASSUME IInv, NEW r \in Requests, PutPending(r)
  PROVE  /\ user[r] \in Users
         /\ pending[r].task \in todo[r] /\ pending[r].task \in desired[r]
         /\ pending[r].read \in Binding
         /\ AmendedOf(r) \in Binding
<1>0. LoginInv(r)
  BY DEF IInv
<1>1. /\ user[r] \in Users
      /\ pending[r].task \in todo[r] /\ pending[r].task \in desired[r]
      /\ pending[r].read \in Binding
  BY <1>0 DEF PutPending, LoginInv, Asked, Sourced, Updating, Resting
<1>2. pending[r].task.item.name \in Roles
  BY <1>1, DesiredType DEF Task, Item
<1> QED BY <1>1, <1>2 DEF AmendedOf, Amended, Binding

(* What the reconciliation writes is a binding, at a place in the store.   *)
LEMMA ReconcileWrites ==
  ASSUME IInv, NEW r \in Requests
  PROVE  /\ \A t \in todo[r] : PostMissing(r, t) => StoreTypeOK'
         /\ PutPending(r) => StoreTypeOK'
         /\ \A e \in existing[r] : DeleteBinding(e.key) => StoreTypeOK'
<1>0. TypeOK /\ LoginTypeOK /\ StoreTypeOK /\ LoginInv(r)
  BY DEF IInv, TypeOK
<1>1. \A t \in todo[r] : t \in Task /\ Supported(t.item) /\ t.item.name \in Roles
  BY <1>0, DesiredType DEF LoginInv, Sourced, Task, Item
<1>2. ASSUME NEW t \in todo[r], PostMissing(r, t) PROVE StoreTypeOK'
  <2>1. user[r] \in Users
    BY <1>0, <1>2 DEF PostMissing, LoginInv, Asked, Resting
  <2>2. TaskKey(user[r], t) \in Key
    BY <1>1, <2>1, TaskKeyType
  <2>3. NewBinding(user[r], t.item.name) \in Binding
    BY <1>1, <2>1 DEF NewBinding, Binding
  <2> QED BY <1>0, <1>2, <2>2, <2>3, WritesType DEF PostMissing
<1>3. ASSUME PutPending(r) PROVE StoreTypeOK'
  <2>1. TaskKey(user[r], pending[r].task) \in Key
    BY <1>1, <1>3, PendingType, TaskKeyType
  <2> QED BY <1>0, <1>3, <2>1, PendingType, WritesType DEF PutPending
<1>4. ASSUME NEW e \in existing[r], DeleteBinding(e.key) PROVE StoreTypeOK'
  <2>1. e.key \in Key
    BY <1>0 DEF LoginTypeOK, Entry
  <2> QED BY <1>0, <1>4, <2>1, WritesType
<1> QED BY <1>2, <1>3, <1>4

LEMMA EnsureSteps ==
  ASSUME IInv, NEW r \in Requests,
         \/ \E t \in todo[r] : CreateMissing(r, t) \/ KeepExisting(r, t) \/ GetForUpdate(r, t)
         \/ UpdateBinding(r)
  PROVE  IInv'
<1> USE DEF Resting, ApiCalls, LdapCalls, Preparing
<1>0. TypeOK /\ LoginTypeOK /\ StoreTypeOK /\ LoginInv(r)
  BY DEF IInv, TypeOK
<1>1. ASSUME UNCHANGED store PROVE StoreTypeOK'
  BY <1>0, <1>1 DEF StoreTypeOK, store
<1>2. ASSUME NEW t \in todo[r], CreateMissing(r, t) PROVE IInv'
  <2>1. CASE PostMissing(r, t) /\ Ensured(r, t) /\ UNCHANGED pending
    <3>1. StoreTypeOK' /\ pc[r] = "reconcile"
      BY <2>1, ReconcileWrites DEF PostMissing
    <3> QED BY <1>2, <2>1, <3>1, EnsuredLogin DEF CreateMissing
  <2>2. CASE Finish(r, "failed") /\ UNCHANGED store
    BY <1>1, <1>2, <2>2, Answered DEF CreateMissing
  <2> QED BY <1>2, <2>1, <2>2 DEF CreateMissing
<1>3. ASSUME NEW t \in todo[r], KeepExisting(r, t) PROVE IInv'
  BY <1>1, <1>3, EnsuredLogin DEF KeepExisting
<1>4. ASSUME NEW t \in todo[r], GetForUpdate(r, t) PROVE IInv'
  <2>1. StoreTypeOK'
    BY <1>1, <1>4 DEF GetForUpdate
  <2>2. CASE Finish(r, "failed")
    BY <1>4, <2>1, <2>2, Answered DEF GetForUpdate
  <2>3. CASE ~Finish(r, "failed")
    <3>1. /\ bindings[TaskKey(user[r], t)] # None
          /\ pending' = [pending EXCEPT ![r] =
                            [task |-> t, read |-> bindings[TaskKey(user[r], t)]]]
          /\ GoTo(r, "update")
          /\ UNCHANGED <<user, groups, desired, todo, existing, undisturbed>>
      BY <1>4, <2>3 DEF GetForUpdate
    <3>2. t \in Task /\ Supported(t.item) /\ user[r] \in Users /\ pc[r] = "reconcile"
      BY <1>0, <1>4, DesiredType DEF GetForUpdate, LoginInv, Asked, Sourced
    <3>3. bindings[TaskKey(user[r], t)] \in Binding
      BY <1>0, <3>1, <3>2, TaskKeyType DEF StoreTypeOK
    <3>4. LoginTypeOK'
      BY <1>0, <3>1, <3>2, <3>3 DEF GoTo, LoginTypeOK
    <3>5. LoginInv(r)'
      BY <1>0, <3>1, <3>2, <3>3
         DEF GoTo, LoginTypeOK, LoginInv, Asked, Sourced, Updating, DoneItemsKept
    <3>6. \A s \in Requests \ {r} : LocalsOf(s)' = LocalsOf(s)
      BY <1>0, <3>1 DEF GoTo, LocalsOf, LoginTypeOK
    <3>7. TypeOK'
      BY <1>0, <1>4, <2>1, <3>4 DEF GetForUpdate, TypeOK, world, budget
    <3> QED BY <3>5, <3>6, <3>7, OneLogin DEF IInv
  <2> QED BY <2>2, <2>3
<1>5. ASSUME UpdateBinding(r) PROVE IInv'
  <2>1. CASE PutPending(r) /\ Ensured(r, pending[r].task)
             /\ pending' = [pending EXCEPT ![r] = NoUpdate]
    <3>1. StoreTypeOK' /\ pc[r] = "update"
      BY <2>1, ReconcileWrites DEF PutPending
    <3>2. pending[r].task \in todo[r]
      BY <1>0, <3>1 DEF LoginInv, Updating
    <3> QED BY <1>5, <2>1, <3>1, <3>2, EnsuredLogin DEF UpdateBinding
  <2>2. CASE Finish(r, "failed") /\ UNCHANGED store
    BY <1>1, <1>5, <2>2, Answered DEF UpdateBinding
  <2> QED BY <1>5, <2>1, <2>2 DEF UpdateBinding
<1> QED BY <1>2, <1>3, <1>4, <1>5

LEMMA RemoveSteps ==
  ASSUME IInv, NEW r \in Requests, NEW e \in existing[r], RemoveUnused(r, e)
  PROVE  IInv'
<1>0. TypeOK /\ LoginTypeOK /\ StoreTypeOK /\ LoginInv(r)
  BY DEF IInv, TypeOK
<1>1. StoreTypeOK'
  <2>1. CASE UNCHANGED store
    BY <1>0, <2>1 DEF StoreTypeOK, store
  <2> QED BY <2>1, ReconcileWrites DEF RemoveUnused
<1>2. CASE Finish(r, "failed")
  BY <1>1, <1>2, Answered DEF RemoveUnused, Resting
<1>3. CASE /\ existing' = [existing EXCEPT ![r] = @ \ {e}]
           /\ UNCHANGED <<pc, user, groups, desired, todo, pending, undisturbed>>
  <2>1. LoginTypeOK'
    BY <1>0, <1>3 DEF LoginTypeOK
  <2>2. LoginInv(r)'
    BY <1>0, <1>3 DEF LoginTypeOK, LoginInv, Asked, Sourced, Updating, DoneItemsKept
  <2>3. \A s \in Requests \ {r} : LocalsOf(s)' = LocalsOf(s)
    BY <1>0, <1>3 DEF LocalsOf, LoginTypeOK
  <2>4. TypeOK'
    BY <1>0, <1>1, <2>1 DEF RemoveUnused, TypeOK, world, budget
  <2> QED BY <2>2, <2>3, <2>4, OneLogin DEF IInv
<1> QED BY <1>2, <1>3 DEF RemoveUnused

LEMMA FailureSteps ==
  ASSUME IInv, NEW r \in Requests, LoginFails(r)
  PROVE  IInv'
<1>0. TypeOK /\ LoginTypeOK /\ StoreTypeOK /\ LoginInv(r)
  BY DEF IInv, TypeOK
<1>1. CASE ApiFails(r) \/ LdapFails(r)
  <2>1. StoreTypeOK'
    BY <1>0, <1>1 DEF ApiFails, LdapFails, StoreTypeOK, store
  <2> QED BY <1>1, <2>1, Answered DEF ApiFails, LdapFails, Resting
<1>2. CASE AnswerLost(r)
  <2>1. StoreTypeOK'
    <3>1. CASE pc[r] = "createAccount" /\ PostAccount(user[r])
      BY <1>0, <3>1, WritesType DEF LoginInv, Asked, Resting
    <3>2. CASE \E t \in NextTasks(r) : PostMissing(r, t)
      BY <3>2, ReconcileWrites DEF NextTasks
    <3>3. CASE \E e \in Unused(r) : DeleteBinding(e.key)
      BY <3>3, ReconcileWrites DEF Unused
    <3> QED BY <1>2, <3>1, <3>2, <3>3, ReconcileWrites DEF AnswerLost
  <2> QED BY <1>2, <2>1, Answered DEF AnswerLost, Resting
<1> QED BY <1>1, <1>2 DEF LoginFails

LEMMA EnvironmentSteps ==
  ASSUME IInv, Environment
  PROVE  IInv'
<1>0. TypeOK /\ LoginTypeOK /\ StoreTypeOK
  BY DEF IInv, TypeOK
<1>1. UNCHANGED <<pc, locals, undisturbed>>
  BY DEF Environment, DirectoryChanges, CacheChanges, AdminWritesBinding, AdminDeletesAccount
<1>2. LoginTypeOK'
  BY <1>0, <1>1 DEF LoginTypeOK, locals
<1>3. \A r \in Requests : LoginInv(r)'
  BY <1>1, Untouched DEF IInv, LocalsOf, locals
<1>4. StoreTypeOK'
  <2>1. CASE AdminWritesBinding
    BY <1>0, <2>1, WorldAssumption DEF AdminWritesBinding, StoreTypeOK
  <2>2. CASE UNCHANGED store
    BY <1>0, <2>2 DEF StoreTypeOK, store
  <2>3. CASE \E u \in Users : AdminDeletesAccount(u)
    BY <1>0, <2>3 DEF AdminDeletesAccount, StoreTypeOK
  <2> QED BY <2>1, <2>2, <2>3 DEF Environment, DirectoryChanges, CacheChanges
<1>5. /\ directory' \in Directories /\ cache' \in [Replicas -> BindingSets]
      /\ changes' \in 0 .. MaxChanges /\ faults' \in 0 .. MaxFaults /\ drifts' \in 0 .. MaxDrift
  BY <1>0, BoundAssumption
     DEF Environment, DirectoryChanges, CacheChanges, AdminWritesBinding, AdminDeletesAccount,
         Change, Drift, TypeOK, world
<1> QED BY <1>2, <1>3, <1>4, <1>5 DEF IInv, TypeOK

(* Steps of the program around it. *)
LEMMA ProgramSteps ==
  ASSUME IInv, CacheTurns \/ LoginsLost
  PROVE  IInv'
<1>0. TypeOK /\ LoginTypeOK /\ StoreTypeOK
  BY DEF IInv, TypeOK
<1>1. /\ StoreTypeOK' /\ directory' \in Directories /\ cache' \in [Replicas -> BindingSets]
      /\ changes' \in 0 .. MaxChanges /\ faults' \in 0 .. MaxFaults /\ drifts' \in 0 .. MaxDrift
  BY <1>0 DEF CacheTurns, LoginsLost, TypeOK, StoreTypeOK, store, budget
<1>2. CASE CacheTurns
  <2>1. LoginTypeOK'
    BY <1>0, <1>2 DEF CacheTurns, LoginTypeOK, locals
  <2>2. \A r \in Requests : LoginInv(r)'
    BY <1>2, Untouched DEF IInv, CacheTurns, LocalsOf, locals
  <2> QED BY <1>1, <2>1, <2>2 DEF IInv, TypeOK
<1>3. CASE LoginsLost
  <2>1. LoginTypeOK'
    BY <1>0, <1>3 DEF LoginsLost, LoginTypeOK, Resting
  <2>2. \A r \in Requests : LoginInv(r)'
    BY <1>0, <1>3 DEF LoginsLost, LoginInv, Asked, Sourced, Updating, DoneItemsKept, Resting
  <2> QED BY <1>1, <2>1, <2>2 DEF IInv, TypeOK
<1> QED BY <1>2, <1>3

LEMMA NextIInv == IInv /\ [OpenNext]_vars => IInv'
<1> SUFFICES ASSUME IInv, [OpenNext]_vars PROVE IInv'
  OBVIOUS
<1>1. CASE UNCHANGED vars
  BY <1>1 DEF IInv, TypeOK, StoreTypeOK, LoginTypeOK, LoginInv, Asked, Sourced, Updating,
              DoneItemsKept, vars, store, world, locals, budget
<1>2. CASE \E r \in Requests, u \in Users : Arrive(r, u)
  BY <1>2, QuietSteps
<1>3. ASSUME NEW r \in Requests, LoginStep(r) PROVE IInv'
  BY <1>3, QuietSteps, AccountSteps, EnsureSteps, RemoveSteps DEF LoginStep
<1>4. CASE \E r \in Requests : LoginFails(r)
  BY <1>4, FailureSteps
<1>5. CASE Environment
  BY <1>5, EnvironmentSteps
<1>6. CASE \E r \in Requests : LearnFrom(r)
  BY <1>6, QuietSteps
<1>7. CASE CacheTurns \/ LoginsLost
  BY <1>7, ProgramSteps
<1> QED BY <1>1, <1>2, <1>3, <1>4, <1>5, <1>6, <1>7 DEF OpenNext, Next

(***************************************************************************)
(* The invariant holds of every behaviour, and with it the types.          *)
(***************************************************************************)
THEOREM Invariance == Spec => []IInv
BY InitIInv, NextIInv, NextIsOpen, PTL DEF Spec

(***************************************************************************)
(* Type correctness: in particular an update never goes on with an object  *)
(* that was not found, and no login without a user makes a call.           *)
(***************************************************************************)
THEOREM TypeCorrect == Spec => []TypeOK
<1>1. IInv => TypeOK
  BY DEF IInv
<1> QED BY <1>1, Invariance, PTL

-----------------------------------------------------------------------------
(* What changes a stored binding. *)

(* A login changes a binding only by a creation, an update or a removal.   *)
LEMMA LoginWrites ==
  ASSUME NEW r \in Requests, LoginStep(r) \/ LoginFails(r), bindings' # bindings
  PROVE  \/ \E t \in todo[r] : PostMissing(r, t)
         \/ PutPending(r)
         \/ \E e \in Unused(r) : DeleteBinding(e.key)
<1>1. CASE LoginStep(r)
  <2>1. \/ \E t \in todo[r] : CreateMissing(r, t)
        \/ UpdateBinding(r)
        \/ \E e \in existing[r] : RemoveUnused(r, e)
    BY <1>1 DEF LoginStep, GetAccount, CreateAccount, PostAccount, GetUser, GetUserGroups,
                GetBindings, Learn, ListClusterRoleBindings, ListRoleBindings, KeepExisting,
                GetForUpdate, IssueToken, store
  <2> QED BY <2>1 DEF CreateMissing, UpdateBinding, RemoveUnused, store
<1>2. CASE LoginFails(r)
  BY <1>2 DEF LoginFails, ApiFails, LdapFails, AnswerLost, PostAccount, NextTasks, store
<1> QED BY <1>1, <1>2

(* A login that neither creates nor updates a binding removes one that it  *)
(* listed, and is done with that.                                          *)
LEMMA LoginRemoves ==
  ASSUME LoginTypeOK, NEW r \in Requests, LoginStep(r) \/ LoginFails(r), bindings' # bindings,
         ~PutPending(r), \A t \in todo[r] : ~PostMissing(r, t)
  PROVE  \E e \in Unused(r) : DeleteBinding(e.key) /\ e \notin existing'[r]
<1>1. CASE LoginStep(r)
  <2>1. PICK e \in existing[r] : RemoveUnused(r, e)
    BY <1>1 DEF LoginStep, GetAccount, CreateAccount, PostAccount, GetUser, GetUserGroups,
                GetBindings, Learn, ListClusterRoleBindings, ListRoleBindings, KeepExisting,
                CreateMissing, GetForUpdate, UpdateBinding, IssueToken, store
  <2> QED BY <2>1 DEF RemoveUnused, LoginTypeOK, store
<1>2. CASE LoginFails(r)
  <2>1. AnswerLost(r)
    BY <1>2 DEF LoginFails, ApiFails, LdapFails, store
  <2>2. PICK e \in Unused(r) : DeleteBinding(e.key)
    BY <2>1 DEF AnswerLost, PostAccount, NextTasks, store
  <2>3. existing'[r] = {}
    BY <2>1 DEF AnswerLost, Finish, LoginTypeOK
  <2> QED BY <2>2, <2>3
<1> QED BY <1>1, <1>2

(* Administrators aside, nothing else changes one.                         *)
LEMMA WhoMoves ==
  ASSUME IInv, [OpenNext]_vars, bindings' # bindings, drifts' = drifts
  PROVE  \E r \in Requests : LoginStep(r) \/ LoginFails(r)
<1>1. ~AdminWritesBinding /\ \A u \in Users : ~AdminDeletesAccount(u)
  BY DEF IInv, TypeOK, AdminWritesBinding, AdminDeletesAccount, Drift
<1>2. ~Environment
  BY <1>1 DEF Environment, DirectoryChanges, CacheChanges, store
<1> QED BY <1>2 DEF OpenNext, Next, Arrive, LearnFrom, Learn, CacheTurns, LoginsLost, vars, store

(* So that only the three writes of a login do.                            *)
LEMMA WhoWrites ==
  ASSUME IInv, [OpenNext]_vars, bindings' # bindings, drifts' = drifts
  PROVE  \E r \in Requests :
           \/ \E t \in todo[r] : PostMissing(r, t)
           \/ PutPending(r)
           \/ \E e \in Unused(r) : DeleteBinding(e.key)
BY WhoMoves, LoginWrites

(***************************************************************************)
(* A login removes no binding that an item it reconciles towards asks for, *)
(* however many logins overlap, calls fail and administrators interfere.   *)
(***************************************************************************)
THEOREM WantedStay == Spec => WantedBindingsStay
<1>1. ASSUME IInv, [Next]_vars, NEW k \in Key, bindings[k] # None, bindings'[k] = None,
             drifts' = drifts
      PROVE  \E r \in Requests : Removes(r, k) /\ k \notin TaskKeys(user[r], desired[r])
  <2>0. TypeOK /\ LoginTypeOK /\ StoreTypeOK
    BY <1>1 DEF IInv, TypeOK
  <2>1. PICK r \in Requests : LoginStep(r) \/ LoginFails(r)
    BY <1>1, NextIsOpen, WhoMoves
  <2>2. LoginInv(r)
    BY <1>1 DEF IInv
  <2>3. ASSUME NEW t \in todo[r], PostMissing(r, t) PROVE FALSE
    BY <1>1, <2>0, <2>3 DEF PostMissing, PostBinding, StoreTypeOK
  <2>4. ASSUME PutPending(r) PROVE FALSE
    BY <1>1, <2>0, <2>4, PendingType, NoneAssumption DEF PutPending, PutBinding, StoreTypeOK
  <2>5. PICK e \in Unused(r) : DeleteBinding(e.key) /\ e \notin existing'[r]
    BY <1>1, <2>0, <2>1, <2>3, <2>4, LoginRemoves
  <2>6. k = e.key
    BY <1>1, <2>0, <2>5 DEF DeleteBinding, StoreTypeOK
  <2>7. e \in existing[r] /\ pc[r] = "reconcile" /\ todo[r] = {}
    BY DEF Unused
  <2>8. k \notin TaskKeys(user[r], desired[r])
    BY <2>2, <2>6, <2>7 DEF LoginInv, DoneItemsKept, TaskKeys
  <2>9. Removes(r, k)
    BY <2>5, <2>6, <2>7 DEF Removes
  <2> QED BY <2>8, <2>9
<1>2. IInv /\ [Next]_vars =>
        [\A k \in Key : bindings[k] # None /\ bindings'[k] = None =>
           \/ drifts' # drifts
           \/ \E r \in Requests :
                Removes(r, k) /\ k \notin TaskKeys(user[r], desired[r])]_vars
  BY <1>1
<1> QED BY <1>2, Invariance, PTL DEF Spec, WantedBindingsStay

(***************************************************************************)
(* No login gives an account a role that none of the groups LDAP answered  *)
(* for it asks for, whatever administrators do meanwhile.                  *)
(***************************************************************************)
THEOREM OnlyEntitledGrants == Spec => GrantsAreEntitled
<1>1. ASSUME IInv, [Next]_vars, NEW k \in Key, NEW u \in Users,
             ~Holds(u, k), Holds(u, k)', drifts' = drifts
      PROVE  \E r \in Requests, lgbs \in BindingSets :
               user[r] = u /\ k \in TaskKeys(u, Tasks(lgbs, groups[r]))
  <2>0. TypeOK /\ LoginTypeOK /\ StoreTypeOK
    BY <1>1 DEF IInv, TypeOK
  <2>1. PICK r \in Requests :
          \/ \E t \in todo[r] : PostMissing(r, t)
          \/ PutPending(r)
          \/ \E e \in Unused(r) : DeleteBinding(e.key)
    <3>1. bindings' # bindings
      BY <1>1 DEF Holds
    <3> QED BY <1>1, <3>1, NextIsOpen, WhoWrites
  <2>2. LoginInv(r)
    BY <1>1 DEF IInv
  <2>3. ASSUME NEW t \in todo[r], TaskKey(user[r], t) = k, user[r] = u
        PROVE  \E lgbs \in BindingSets : k \in TaskKeys(u, Tasks(lgbs, groups[r]))
    BY <2>2, <2>3 DEF LoginInv, Sourced, TaskKeys
  <2>4. ASSUME NEW t \in todo[r], PostMissing(r, t)
        PROVE  TaskKey(user[r], t) = k /\ user[r] = u
    BY <1>1, <2>0, <2>4 DEF PostMissing, PostBinding, NewBinding, Holds, StoreTypeOK
  <2>5. ASSUME PutPending(r)
        PROVE  pending[r].task \in todo[r] /\ TaskKey(user[r], pending[r].task) = k /\ user[r] = u
    <3>1. pending[r].task \in todo[r] /\ pending[r].read \in Binding
      BY <1>1, <2>5, PendingType
    <3>2. TaskKey(user[r], pending[r].task) = k /\ bindings[k] = pending[r].read
      BY <1>1, <2>0, <2>5 DEF PutPending, PutBinding, Holds, StoreTypeOK
    <3>3. u \in AmendedOf(r).subjects
      BY <1>1, <2>0, <2>5, <3>2 DEF PutPending, PutBinding, Holds, StoreTypeOK
    <3>4. AmendedOf(r).subjects = pending[r].read.subjects \/ AmendedOf(r).subjects = {user[r]}
      BY <3>1 DEF AmendedOf, Amended, Binding
    <3> QED BY <1>1, <3>1, <3>2, <3>3, <3>4, NoneAssumption DEF Holds
  <2>6. ~\E e \in Unused(r) : DeleteBinding(e.key)
    BY <1>1, <2>0 DEF DeleteBinding, Holds, StoreTypeOK
  <2> QED BY <2>1, <2>3, <2>4, <2>5, <2>6
<1>2. IInv /\ [Next]_vars =>
        [\A k \in Key, u \in Users : ~Holds(u, k) /\ Holds(u, k)' =>
           \/ drifts' # drifts
           \/ \E r \in Requests, lgbs \in BindingSets :
                /\ user[r] = u
                /\ k \in TaskKeys(u, Tasks(lgbs, groups[r]))]_vars
  BY <1>1
<1> QED BY <1>2, Invariance, PTL DEF Spec, GrantsAreEntitled

=============================================================================
