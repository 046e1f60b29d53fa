-------------------------- MODULE AuthServiceExactness --------------------------
(***************************************************************************)
(* Proof that a login that reconciles leaves its account with exactly the  *)
(* bindings it should have (ExactBindings), and that no login touches what *)
(* another account was given (OnlyOwnLogins), as long as nobody but the    *)
(* service writes the bindings.                                            *)
(***************************************************************************)
EXTENDS AuthServiceProofs, AuthServicePolicy

(* A binding that an item of some LdapGroupBinding asks for. *)
Known(k) ==
  \E lgbs \in BindingSets : \E t \in Tasks(lgbs, Groups) : k = TaskKey(k.name.user, t)

(* Every stored binding is one the service made, for the account and the   *)
(* role its name tells.                                                    *)
MadeHere(k) ==
  bindings[k] # None =>
    bindings[k] = NewBinding(k.name.user, k.name.role) /\ Known(k)

(* A login lists bindings of its own account only. *)
ListsOwn(r) ==
  \A e \in existing[r] : e.key.name.user = user[r] /\ Known(e.key)

OwnInv == drifts = 0 => (\A k \in Key : MadeHere(k)) /\ \A r \in Requests : ListsOwn(r)

(* Logins of one account that overlap want the same bindings. *)
Agreed(r) ==
  \A s \in Requests : user[s] = user[r] /\ pc[s] \in Reconciling => desired[s] = desired[r]

(* What the account has is still listed, or wanted. *)
NothingOverlooked(r) ==
  Listed(user[r], ScopesSeen(r)) \subseteq ListedKeys(r) \cup DesiredKeys(r)

(* What is wanted and was found or made is still there. *)
WantedThere(r) ==
  (ListedKeys(r) \cap DesiredKeys(r)) \cup
    (IF pc[r] = "listRoleBindings" THEN {} ELSE DoneKeys(r)) \subseteq Listed(user[r], Scopes)

ExactInv ==
  drifts = 0 /\ LDAPEnabled =>
    \A r \in Requests : pc[r] \in Reconciling /\ undisturbed[r] =>
      Agreed(r) /\ NothingOverlooked(r) /\ WantedThere(r)

-----------------------------------------------------------------------------
(* Steps in general. *)

(* A step of one login. *)
MoveOf(r) == (\E u \in Users : Arrive(r, u)) \/ LoginStep(r) \/ LoginFails(r) \/ LearnFrom(r)

(* The other steps, administrators' aside, leave the bindings alone, and   *)
(* the logins too, unless they end them all.                               *)
LEMMA OtherMoves ==
  ASSUME IInv, [OpenNext]_vars, drifts' = drifts
  PROVE  \/ \E r \in Requests : MoveOf(r)
         \/ UNCHANGED <<pc, locals, undisturbed, bindings>>
         \/ LoginsLost
<1>1. ~AdminWritesBinding /\ \A u \in Users : ~AdminDeletesAccount(u)
  BY DEF IInv, TypeOK, AdminWritesBinding, AdminDeletesAccount, Drift
<1>2. Environment \/ CacheTurns => UNCHANGED <<pc, locals, undisturbed, bindings>>
  BY <1>1 DEF Environment, DirectoryChanges, CacheChanges, CacheTurns, store
<1> QED BY <1>2 DEF OpenNext, Next, MoveOf, vars, store

LEMMA DriftsGrow ==
  ASSUME IInv, [OpenNext]_vars
  PROVE  drifts' = drifts \/ drifts' = drifts + 1
<1>1. CASE UNCHANGED vars
  BY <1>1 DEF vars, budget
<1>2. CASE \E r \in Requests, u \in Users : Arrive(r, u)
  BY <1>2 DEF Arrive, budget
<1>3. ASSUME NEW r \in Requests, LoginStep(r) PROVE drifts' = drifts
  BY <1>3 DEF LoginStep, GetAccount, CreateAccount, GetUser, GetUserGroups, GetBindings, Learn,
              ListClusterRoleBindings, ListRoleBindings, CreateMissing, KeepExisting,
              GetForUpdate, UpdateBinding, RemoveUnused, IssueToken, budget
<1>4. ASSUME NEW r \in Requests, LoginFails(r) PROVE drifts' = drifts
  BY <1>4 DEF LoginFails, ApiFails, LdapFails, AnswerLost, Fault
<1>5. CASE Environment
  BY <1>5 DEF Environment, DirectoryChanges, CacheChanges, AdminWritesBinding,
              AdminDeletesAccount, Change, Drift
<1>6. CASE CacheTurns \/ LoginsLost \/ \E r \in Requests : LearnFrom(r)
  BY <1>6 DEF CacheTurns, LoginsLost, LearnFrom, Learn, budget
<1> QED BY <1>1, <1>2, <1>3, <1>4, <1>5, <1>6 DEF OpenNext, Next

(* A step of one login leaves what the others know alone. *)
LEMMA OtherLogins ==
  ASSUME IInv, NEW r \in Requests, NEW s \in Requests \ {r},
         MoveOf(r)
  PROVE  LocalsOf(s)' = LocalsOf(s)
<1> USE DEF LocalsOf, GoTo, locals
<1>0. LoginTypeOK
  BY DEF IInv, TypeOK
<1>1. ASSUME NEW status, Finish(r, status) PROVE LocalsOf(s)' = LocalsOf(s)
  BY <1>0, <1>1 DEF Finish, LoginTypeOK
<1>2. ASSUME NEW t, Ensured(r, t),
             pending' = pending \/ pending' = [pending EXCEPT ![r] = NoUpdate]
      PROVE  LocalsOf(s)' = LocalsOf(s)
  BY <1>0, <1>2 DEF Ensured, LoginTypeOK
<1>3. CASE \E u \in Users : Arrive(r, u)
  BY <1>0, <1>3 DEF Arrive, LoginTypeOK
<1>4. CASE LoginFails(r)
  BY <1>1, <1>4 DEF LoginFails, ApiFails, LdapFails, AnswerLost
<1>5. CASE LoginStep(r)
  <2>1. CASE GetAccount(r) \/ CreateAccount(r) \/ GetUser(r) \/ IssueToken(r)
    BY <1>0, <1>1, <2>1 DEF GetAccount, CreateAccount, GetUser, IssueToken, LoginTypeOK
  <2>2. CASE GetUserGroups(r) \/ GetBindings(r) \/ ListClusterRoleBindings(r) \/ ListRoleBindings(r)
    BY <1>0, <2>2 DEF GetUserGroups, GetBindings, Learn, ListClusterRoleBindings, ListRoleBindings, LoginTypeOK
  <2>3. ASSUME NEW t \in todo[r], CreateMissing(r, t) \/ KeepExisting(r, t)
        PROVE  LocalsOf(s)' = LocalsOf(s)
    BY <1>1, <1>2, <2>3 DEF CreateMissing, KeepExisting
  <2>4. ASSUME NEW t \in todo[r], GetForUpdate(r, t) PROVE LocalsOf(s)' = LocalsOf(s)
    BY <1>0, <1>1, <2>4 DEF GetForUpdate, LoginTypeOK
  <2>5. CASE UpdateBinding(r)
    BY <1>1, <1>2, <2>5 DEF UpdateBinding
  <2>6. ASSUME NEW e \in existing[r], RemoveUnused(r, e) PROVE LocalsOf(s)' = LocalsOf(s)
    BY <1>0, <1>1, <2>6 DEF RemoveUnused, LoginTypeOK
  <2> QED BY <1>5, <2>1, <2>2, <2>3, <2>4, <2>5, <2>6 DEF LoginStep
<1>6. CASE LearnFrom(r)
  BY <1>0, <1>6 DEF LearnFrom, Learn, LoginTypeOK
<1> QED BY <1>3, <1>4, <1>5, <1>6 DEF MoveOf

(* A login's maps grow only by what it lists. *)
LEMMA ExistingFrom ==
  ASSUME IInv, NEW r \in Requests,
         MoveOf(r)
  PROVE  \/ existing'[r] = {}
         \/ /\ user'[r] = user[r]
            /\ existing'[r] \subseteq existing[r] \cup Snapshot(Listed(user[r], Scopes))
<1> USE DEF GoTo, locals
<1>0. LoginTypeOK /\ LoginInv(r)
  BY DEF IInv, TypeOK
<1> DEFINE Goal ==
      \/ existing'[r] = {}
      \/ /\ user'[r] = user[r]
         /\ existing'[r] \subseteq existing[r] \cup Snapshot(Listed(user[r], Scopes))
<1>1. ASSUME NEW status, Finish(r, status) PROVE Goal
  BY <1>0, <1>1 DEF Finish, LoginTypeOK
<1>2. ASSUME NEW t, Ensured(r, t) PROVE Goal
  BY <1>0, <1>2 DEF Ensured, LoginTypeOK
<1>3. CASE \E u \in Users : Arrive(r, u)
  BY <1>0, <1>3 DEF Arrive, LoginInv, Sourced
<1>4. CASE LoginFails(r)
  BY <1>1, <1>4 DEF LoginFails, ApiFails, LdapFails, AnswerLost
<1>5. CASE LoginStep(r)
  <2>1. CASE GetAccount(r) \/ CreateAccount(r) \/ GetUser(r) \/ IssueToken(r)
    BY <1>0, <1>1, <2>1 DEF GetAccount, CreateAccount, GetUser, IssueToken
  <2>2. CASE GetUserGroups(r) \/ GetBindings(r)
    BY <2>2 DEF GetUserGroups, GetBindings, Learn
  <2>3. CASE ListClusterRoleBindings(r)
    <3>1. GetClusterRoleBindings(user[r]) \subseteq Listed(user[r], Scopes)
      BY DEF GetClusterRoleBindings, Listed, Scopes
    <3>2. Snapshot(GetClusterRoleBindings(user[r])) \subseteq Snapshot(Listed(user[r], Scopes))
      BY <3>1 DEF Snapshot
    <3> QED BY <1>0, <2>3, <3>2 DEF ListClusterRoleBindings, LoginTypeOK
  <2>4. CASE ListRoleBindings(r)
    <3>1. PICK kept \in LastByName(GetRoleBindings(user[r])) :
            existing' = [existing EXCEPT ![r] = @ \cup Snapshot(kept)]
      BY <2>4 DEF ListRoleBindings
    <3>2. kept \subseteq Listed(user[r], Scopes)
      BY DEF LastByName, GetRoleBindings, Listed, Scopes
    <3>3. Snapshot(kept) \subseteq Snapshot(Listed(user[r], Scopes))
      BY <3>2 DEF Snapshot
    <3> QED BY <1>0, <2>4, <3>1, <3>3 DEF ListRoleBindings, LoginTypeOK
  <2>5. ASSUME NEW t \in todo[r], CreateMissing(r, t) \/ KeepExisting(r, t) PROVE Goal
    BY <1>1, <1>2, <2>5 DEF CreateMissing, KeepExisting
  <2>6. ASSUME NEW t \in todo[r], GetForUpdate(r, t) PROVE Goal
    BY <1>0, <1>1, <2>6 DEF GetForUpdate
  <2>7. CASE UpdateBinding(r)
    BY <1>1, <1>2, <2>7 DEF UpdateBinding
  <2>8. ASSUME NEW e \in existing[r], RemoveUnused(r, e) PROVE Goal
    BY <1>0, <1>1, <2>8 DEF RemoveUnused, LoginTypeOK
  <2> QED BY <1>5, <2>1, <2>2, <2>3, <2>4, <2>5, <2>6, <2>7, <2>8 DEF LoginStep
<1>6. CASE LearnFrom(r)
  BY <1>6 DEF LearnFrom, Learn
<1> QED BY <1>3, <1>4, <1>5, <1>6 DEF MoveOf

-----------------------------------------------------------------------------
(* Bindings are of the service's making. *)

(* What a login asks for is known, and bears the login's account. *)
LEMMA DesiredKnown ==
  ASSUME IInv, NEW r \in Requests, NEW t \in desired[r]
  PROVE  /\ Known(TaskKey(user[r], t))
         /\ TaskKey(user[r], t).name.user = user[r]
         /\ TaskKey(user[r], t).name.role = t.item.name
<1>1. PICK lgbs \in BindingSets : desired[r] = Tasks(lgbs, groups[r])
  BY DEF IInv, LoginInv, Sourced
<1>2. groups[r] \subseteq Groups
  BY DEF IInv, TypeOK, LoginTypeOK
<1>3. t \in Tasks(lgbs, Groups)
  BY <1>1, <1>2 DEF Tasks
<1>4. /\ TaskKey(user[r], t).name.user = user[r]
      /\ TaskKey(user[r], t).name.role = t.item.name
  BY DEF TaskKey, TaskName, GenBindingName
<1> QED BY <1>3, <1>4 DEF Known

LEMMA InitOwnInv == Init => OwnInv
BY DEF Init, StoreInit, OwnInv, MadeHere, ListsOwn

LEMMA NextOwnInv == IInv /\ OwnInv /\ [OpenNext]_vars => OwnInv'
<1> SUFFICES ASSUME IInv, OwnInv, [OpenNext]_vars, drifts' = 0
             PROVE  (\A k \in Key : MadeHere(k)') /\ \A r \in Requests : ListsOwn(r)'
  BY DEF OwnInv
<1>0. TypeOK /\ LoginTypeOK /\ StoreTypeOK
  BY DEF IInv, TypeOK
<1>1. drifts = 0 /\ drifts' = drifts
  BY <1>0, DriftsGrow DEF TypeOK
<1>2. (\A k \in Key : MadeHere(k)) /\ \A r \in Requests : ListsOwn(r)
  BY <1>1 DEF OwnInv
<1>3. ASSUME NEW k \in Key PROVE MadeHere(k)'
  <2>1. CASE bindings'[k] = bindings[k]
    BY <1>2, <2>1 DEF MadeHere
  <2>2. CASE bindings'[k] # bindings[k]
    <3>1. PICK r \in Requests :
            \/ \E t \in todo[r] : PostMissing(r, t)
            \/ PutPending(r)
            \/ \E e \in Unused(r) : DeleteBinding(e.key)
      BY <1>1, <2>2, WhoWrites
    <3>2. LoginInv(r)
      BY DEF IInv
    <3>3. ASSUME NEW t \in todo[r], PostMissing(r, t) PROVE MadeHere(k)'
      <4>1. t \in desired[r]
        BY <3>2 DEF LoginInv, Sourced
      <4>2. k = TaskKey(user[r], t) /\ bindings'[k] = NewBinding(user[r], t.item.name)
        BY <1>0, <2>2, <3>3 DEF PostMissing, PostBinding, StoreTypeOK
      <4> QED BY <4>1, <4>2, DesiredKnown DEF MadeHere
    <3>4. ASSUME PutPending(r) PROVE MadeHere(k)'
      <4> DEFINE t == pending[r].task
                 read == pending[r].read
      <4>1. t \in desired[r] /\ read \in Binding
        BY <3>4, PendingType
      <4>2. k = TaskKey(user[r], t) /\ bindings[k] = read /\ bindings'[k] = Amended(user[r], t, read)
        BY <1>0, <2>2, <3>4 DEF PutPending, PutBinding, AmendedOf, StoreTypeOK
      <4>3. read = NewBinding(user[r], t.item.name)
        BY <1>2, <4>1, <4>2, DesiredKnown, NoneAssumption DEF MadeHere
      <4>4. Amended(user[r], t, read) = NewBinding(user[r], t.item.name)
        <5> HIDE DEF t, read
        <5>1. read.subjects = {user[r]} /\ read.role = t.item.name
          BY <4>3 DEF NewBinding
        <5>2. (IF TaskScope(t) = Cluster THEN read.subjects ELSE {user[r]}) = {user[r]}
          BY <5>1
        <5> QED BY <4>3, <5>1, <5>2 DEF Amended, NewBinding
      <4> QED BY <4>1, <4>2, <4>4, DesiredKnown DEF MadeHere
    <3>5. ASSUME NEW e \in Unused(r), DeleteBinding(e.key) PROVE MadeHere(k)'
      BY <1>0, <2>2, <3>5 DEF DeleteBinding, StoreTypeOK, MadeHere
    <3> QED BY <3>1, <3>3, <3>4, <3>5
  <2> QED BY <2>1, <2>2
<1>4. ASSUME NEW r \in Requests PROVE ListsOwn(r)'
  <2>1. CASE LocalsOf(r)' = LocalsOf(r)
    BY <1>2, <2>1 DEF LocalsOf, ListsOwn
  <2>2. CASE LocalsOf(r)' # LocalsOf(r)
    <3>1. UNCHANGED <<pc, locals>> => LocalsOf(r)' = LocalsOf(r)
      BY DEF LocalsOf, locals
    <3>2. LoginsLost => existing'[r] = {}
      BY DEF LoginsLost
    <3>3. MoveOf(r) \/ existing'[r] = {}
      BY <1>1, <2>2, <3>1, <3>2, OtherLogins, OtherMoves
    <3>4. CASE existing'[r] = {}
      BY <3>4 DEF ListsOwn
    <3>5. CASE /\ user'[r] = user[r]
               /\ existing'[r] \subseteq existing[r] \cup Snapshot(Listed(user[r], Scopes))
      <4>1. ASSUME NEW e \in Snapshot(Listed(user[r], Scopes))
            PROVE  e.key.name.user = user[r] /\ Known(e.key)
        <5>1. e.key \in Key /\ bindings[e.key] # None /\ user[r] \in bindings[e.key].subjects
          BY DEF Snapshot, Listed
        <5>2. bindings[e.key] = NewBinding(e.key.name.user, e.key.name.role) /\ Known(e.key)
          BY <1>2, <5>1 DEF MadeHere
        <5>3. bindings[e.key].subjects = {e.key.name.user}
          BY <5>2 DEF NewBinding
        <5> QED BY <5>1, <5>2, <5>3
      <4> QED BY <1>2, <3>5, <4>1 DEF ListsOwn
    <3> QED BY <3>3, <3>4, <3>5, ExistingFrom
  <2> QED BY <2>1, <2>2
<1> QED BY <1>3, <1>4

(* A login writes bindings of its own account only. *)
LEMMA WritesOwn ==
  ASSUME IInv, OwnInv, drifts = 0, NEW r \in Requests,
         \/ \E t \in todo[r] : PostMissing(r, t)
         \/ PutPending(r)
         \/ \E e \in Unused(r) : DeleteBinding(e.key),
         NEW k \in Key, bindings'[k] # bindings[k]
  PROVE  user[r] = k.name.user /\ pc[r] \in {"reconcile", "update"}
<1>1. TypeOK /\ LoginTypeOK /\ StoreTypeOK /\ LoginInv(r) /\ ListsOwn(r)
  BY DEF IInv, TypeOK, OwnInv
<1>2. ASSUME NEW t \in desired[r], k = TaskKey(user[r], t) PROVE user[r] = k.name.user
  BY <1>2, DesiredKnown
<1>3. ASSUME NEW t \in todo[r], PostMissing(r, t)
      PROVE  user[r] = k.name.user /\ pc[r] = "reconcile"
  BY <1>1, <1>2, <1>3 DEF PostMissing, PostBinding, StoreTypeOK, LoginInv, Sourced
<1>4. ASSUME PutPending(r) PROVE user[r] = k.name.user /\ pc[r] = "update"
  <2>1. pc[r] = "update" /\ pending[r].task \in desired[r]
    BY <1>1, <1>4 DEF PutPending, LoginInv, Sourced, Updating
  <2>2. k = TaskKey(user[r], pending[r].task)
    BY <1>1, <1>4 DEF PutPending, PutBinding, StoreTypeOK
  <2> QED BY <1>2, <2>1, <2>2
<1>5. ASSUME NEW e \in Unused(r), DeleteBinding(e.key)
      PROVE  user[r] = k.name.user /\ pc[r] = "reconcile"
  BY <1>1, <1>5 DEF Unused, DeleteBinding, StoreTypeOK, ListsOwn
<1> QED BY <1>3, <1>4, <1>5

(***************************************************************************)
(* As long as nobody but the service writes bindings, an account's         *)
(* bindings change only while a login of that account reconciles.          *)
(***************************************************************************)
THEOREM OwnLoginsOnly ==
  ASSUME MaxDrift = 0
  PROVE  Spec => OnlyOwnLogins
<1>1. Spec => [](IInv /\ OwnInv)
  BY InitIInv, InitOwnInv, NextIInv, NextOwnInv, NextIsOpen, PTL DEF Spec
<1>2. ASSUME IInv, OwnInv, IInv', [OpenNext]_vars, NEW k \in Key, bindings'[k] # bindings[k]
      PROVE  \E r \in Requests : user[r] = k.name.user /\ pc[r] \in {"reconcile", "update"}
  <2>1. drifts = 0 /\ drifts' = 0
    BY <1>2 DEF IInv, TypeOK
  <2>2. PICK r \in Requests :
          \/ \E t \in todo[r] : PostMissing(r, t)
          \/ PutPending(r)
          \/ \E e \in Unused(r) : DeleteBinding(e.key)
    BY <1>2, <2>1, WhoWrites
  <2> QED BY <1>2, <2>1, <2>2, WritesOwn
<1>3. IInv /\ OwnInv /\ IInv' /\ [Next]_vars =>
        [\A k \in Key : bindings'[k] # bindings[k] =>
           \E r \in Requests : user[r] = k.name.user /\ pc[r] \in {"reconcile", "update"}]_vars
  BY <1>2, NextIsOpen
<1> QED BY <1>1, <1>3, PTL DEF Spec, OnlyOwnLogins

-----------------------------------------------------------------------------
(* Bindings are exact. *)

(* An account's bindings are those with its name. *)
LEMMA OwnListed ==
  ASSUME NEW u, NEW scopes
  PROVE  /\ OwnInv /\ drifts = 0 =>
              Listed(u, scopes) =
                {k \in Key : k.scope \in scopes /\ bindings[k] # None /\ k.name.user = u}
         /\ OwnInv' /\ drifts' = 0 =>
              Listed(u, scopes)' =
                {k \in Key : k.scope \in scopes /\ bindings'[k] # None /\ k.name.user = u}
<1>1. \A username, roleName :
        /\ NewBinding(username, roleName).managed
        /\ NewBinding(username, roleName).subjects = {username}
  BY DEF NewBinding
<1>2. ASSUME OwnInv, drifts = 0, NEW k \in Key, bindings[k] # None
      PROVE  bindings[k].managed /\ bindings[k].subjects = {k.name.user}
  BY <1>1, <1>2 DEF OwnInv, MadeHere
<1>3. ASSUME OwnInv', drifts' = 0, NEW k \in Key, bindings'[k] # None
      PROVE  bindings'[k].managed /\ bindings'[k].subjects = {k.name.user}
  BY <1>1, <1>3 DEF OwnInv, MadeHere
<1> QED BY <1>2, <1>3 DEF Listed

(* What a step does to the bindings of a login's account, while the logins *)
(* of the account that overlap agree: it adds none that is not wanted and  *)
(* takes none that is.                                                     *)
LEMMA AgreedStep ==
  ASSUME IInv, OwnInv, OwnInv', drifts = 0, drifts' = 0, [OpenNext]_vars,
         NEW r \in Requests, Agreed(r), NEW u, u = user[r], NEW scopes
  PROVE  /\ Listed(u, scopes)' \subseteq Listed(u, scopes) \cup DesiredKeys(r)
         /\ Listed(u, scopes) \cap DesiredKeys(r) \subseteq Listed(u, scopes)'
<1>0. TypeOK /\ LoginTypeOK /\ StoreTypeOK
  BY DEF IInv, TypeOK
<1>1. ASSUME NEW k \in Key, k.name.user = u, bindings'[k] # bindings[k]
      PROVE  k \in DesiredKeys(r) <=> bindings'[k] # None
  <2>1. PICK q \in Requests :
          \/ \E t \in todo[q] : PostMissing(q, t)
          \/ PutPending(q)
          \/ \E e \in Unused(q) : DeleteBinding(e.key)
    BY <1>1, WhoWrites
  <2>2. LoginInv(q) /\ ListsOwn(q)
    BY DEF IInv, OwnInv
  <2>3. pc[q] \in Reconciling
    BY <2>1 DEF PostMissing, PutPending, Unused, Reconciling
  <2>4. user[q] = u => DesiredKeys(r) = TaskKeys(u, desired[q])
    BY <2>3 DEF Agreed, DesiredKeys
  <2>5. ASSUME NEW t \in desired[q], k = TaskKey(user[q], t) PROVE k \in DesiredKeys(r)
    BY <1>1, <2>4, <2>5, DesiredKnown DEF TaskKeys
  <2>6. ASSUME NEW t \in todo[q], PostMissing(q, t)
        PROVE  k \in DesiredKeys(r) /\ bindings'[k] # None
    <3>1. t \in desired[q]
      BY <2>2 DEF LoginInv, Sourced
    <3>2. t.item.name \in Roles /\ user[q] \in Users
      BY <2>2, <2>3, <3>1, DesiredType DEF Task, Item, LoginInv, Asked, Reconciling, Resting
    <3>3. NewBinding(user[q], t.item.name) \in Binding
      BY <3>2 DEF NewBinding, Binding
    <3> QED BY NoneAssumption, <1>0, <1>1, <2>5, <2>6, <3>1, <3>3 DEF PostMissing, PostBinding, StoreTypeOK
  <2>7. ASSUME PutPending(q) PROVE k \in DesiredKeys(r) /\ bindings'[k] # None
    BY <1>0, <1>1, <2>5, <2>7, PendingType, NoneAssumption DEF PutPending, PutBinding, StoreTypeOK
  <2>8. ASSUME NEW e \in Unused(q), DeleteBinding(e.key)
        PROVE  k \notin DesiredKeys(r) /\ bindings'[k] = None
    <3>1. k = e.key /\ bindings'[k] = None
      BY <1>0, <1>1, <2>8 DEF DeleteBinding, StoreTypeOK
    <3>2. e \in existing[q] /\ pc[q] = "reconcile" /\ todo[q] = {}
      BY DEF Unused
    <3>3. user[q] = u /\ k \notin TaskKeys(user[q], desired[q])
      BY <1>1, <2>2, <3>1, <3>2 DEF ListsOwn, LoginInv, DoneItemsKept, TaskKeys
    <3> QED BY <2>4, <3>1, <3>3
  <2> QED BY <2>1, <2>6, <2>7, <2>8
<1>2. /\ Listed(u, scopes) =
           {k \in Key : k.scope \in scopes /\ bindings[k] # None /\ k.name.user = u}
      /\ Listed(u, scopes)' =
           {k \in Key : k.scope \in scopes /\ bindings'[k] # None /\ k.name.user = u}
  BY OwnListed
<1> QED BY <1>1, <1>2

(* RoleBindings of one account have names of their own, so that listing    *)
(* them by name loses none of them.                                        *)
LEMMA NamesTellApart ==
  ASSUME OneNamespacePerRole,
         NEW k1 \in Key, NEW k2 \in Key, Known(k1), Known(k2), k1.name = k2.name,
         k1.scope = Cluster <=> k2.scope = Cluster
  PROVE  k1 = k2
<1>1. PICK lgbs1 \in BindingSets : \E t \in Tasks(lgbs1, Groups) : k1 = TaskKey(k1.name.user, t)
  BY DEF Known
<1>2. PICK t1 \in Tasks(lgbs1, Groups) : k1 = TaskKey(k1.name.user, t1)
  BY <1>1
<1>3. PICK lgbs2 \in BindingSets : \E t \in Tasks(lgbs2, Groups) : k2 = TaskKey(k2.name.user, t)
  BY DEF Known
<1>4. PICK t2 \in Tasks(lgbs2, Groups) : k2 = TaskKey(k2.name.user, t2)
  BY <1>3
<1>5. k1.scope = TaskScope(t1) /\ k2.scope = TaskScope(t2)
  BY <1>2, <1>4 DEF TaskKey
<1>6. t1.lgb = t2.lgb /\ t1.item.name = t2.item.name
  BY <1>2, <1>4 DEF TaskKey, TaskName, GenBindingName
<1>7. k1.scope = k2.scope
  BY <1>5, <1>6 DEF OneNamespacePerRole
<1> QED BY <1>7 DEF Key

(* A login that reconciles after its step listed its ClusterRoleBindings   *)
(* in it, or reconciled before it towards the same bindings.               *)
LEMMA ReconcilingSteps ==
  ASSUME IInv, LDAPEnabled, NEW r \in Requests,
         MoveOf(r),
         pc'[r] \in Reconciling
  PROVE  \/ ListClusterRoleBindings(r)
         \/ /\ pc[r] \in Reconciling
            /\ user'[r] = user[r] /\ desired'[r] = desired[r] /\ undisturbed' = undisturbed
            /\ \/ ListRoleBindings(r)
               \/ \E t \in todo[r] :
                    /\ Ensured(r, t)
                    /\ PostMissing(r, t) \/ KeepExisting(r, t)
               \/ PutPending(r) /\ Ensured(r, pending[r].task)
               \/ UNCHANGED <<todo, existing>> /\ pc[r] # "listRoleBindings" /\ pc'[r] # "listRoleBindings"
               \/ \E e \in Unused(r) :
                    /\ DeleteBinding(e.key)
                    /\ existing' = [existing EXCEPT ![r] = @ \ {e}]
                    /\ UNCHANGED <<pc, todo>> /\ pc[r] # "listRoleBindings"
<1> USE DEF GoTo, locals, Reconciling
<1>0. LoginTypeOK
  BY DEF IInv, TypeOK
<1>1. ASSUME NEW status \in Resting, Finish(r, status) PROVE FALSE
  BY <1>0, <1>1 DEF Finish, LoginTypeOK, Resting
<1>2. ~\E u \in Users : Arrive(r, u)
  BY <1>0 DEF Arrive, LoginTypeOK
<1>3. ~LoginFails(r)
  BY <1>1 DEF LoginFails, ApiFails, LdapFails, AnswerLost, Resting
<1>4. ~GetAccount(r) /\ ~CreateAccount(r) /\ ~GetUser(r) /\ ~IssueToken(r)
  BY <1>0, <1>1 DEF GetAccount, CreateAccount, GetUser, IssueToken, AfterUpsert, LoginTypeOK, Resting
<1>5. ~GetUserGroups(r) /\ ~GetBindings(r)
  BY <1>0 DEF GetUserGroups, GetBindings, Learn, LoginTypeOK
<1>6. CASE ListClusterRoleBindings(r)
  BY <1>6
<1>7. CASE ListRoleBindings(r)
  BY <1>7 DEF ListRoleBindings
<1>8. CASE \E t \in todo[r] : CreateMissing(r, t)
  BY <1>1, <1>8 DEF CreateMissing, PostMissing, Ensured, Resting
<1>9. CASE \E t \in todo[r] : KeepExisting(r, t)
  BY <1>9 DEF KeepExisting, Ensured
<1>10. CASE \E t \in todo[r] : GetForUpdate(r, t)
  BY <1>0, <1>1, <1>10 DEF GetForUpdate, LoginTypeOK, Resting
<1>11. CASE UpdateBinding(r)
  BY <1>1, <1>11 DEF UpdateBinding, PutPending, Ensured, Resting
<1>12. CASE \E e \in existing[r] : RemoveUnused(r, e)
  BY <1>1, <1>12 DEF RemoveUnused, Unused, Resting
<1>13. ~LearnFrom(r)
  BY <1>0 DEF LearnFrom, Learn, LoginTypeOK
<1> QED
  BY <1>2, <1>3, <1>4, <1>5, <1>6, <1>7, <1>8, <1>9, <1>10, <1>11, <1>12, <1>13 DEF LoginStep, MoveOf

LEMMA InitExactInv == Init => ExactInv
BY DEF Init, ExactInv, Reconciling

LEMMA SnapshotKeys ==
  ASSUME NEW keys
  PROVE  {e.key : e \in Snapshot(keys)} = keys
<1>1. \A k \in keys : [key |-> k, binding |-> bindings[k]].key = k
  OBVIOUS
<1>2. ASSUME NEW k \in keys PROVE k \in {e.key : e \in Snapshot(keys)}
  <2>1. [key |-> k, binding |-> bindings[k]] \in Snapshot(keys)
    BY DEF Snapshot
  <2> QED BY <1>1, <2>1
<1>3. ASSUME NEW e \in Snapshot(keys) PROVE e.key \in keys
  BY DEF Snapshot
<1> QED BY <1>2, <1>3

(* The map keyed by name holds every RoleBinding listed.                   *)
LEMMA AllByName ==
  ASSUME OneNamespacePerRole, \A k \in Key : MadeHere(k), NEW u,
         NEW kept \in LastByName(GetRoleBindings(u))
  PROVE  kept = GetRoleBindings(u)
<1>1. \A k \in GetRoleBindings(u) : k \in Key /\ k.scope # Cluster /\ Known(k)
  BY ScopeAssumption DEF GetRoleBindings, Listed, MadeHere
<1>2. kept \subseteq GetRoleBindings(u)
  BY DEF LastByName
<1>3. ASSUME NEW k \in GetRoleBindings(u) PROVE k \in kept
  <2>1. PICK only \in kept : {other \in kept : other.name = k.name} = {only}
    BY DEF LastByName
  <2>2. only.name = k.name
    BY <2>1
  <2>3. only = k
    BY <1>1, <1>2, <2>2, NamesTellApart
  <2> QED BY <2>3
<1> QED BY <1>2, <1>3

(* What is found under an item's name is the binding the item asks for.    *)
LEMMA MatchingKey ==
  ASSUME IInv, OneNamespacePerRole, NEW r \in Requests, ListsOwn(r), user[r] \in Users,
         NEW t \in desired[r], NEW e \in Matching(r, t)
  PROVE  e.key = TaskKey(user[r], t)
<1>1. e.key \in Key /\ Known(e.key)
  BY DEF IInv, TypeOK, Matching, LoginTypeOK, Entry, ListsOwn
<1>2. TaskKey(user[r], t) \in Key /\ Known(TaskKey(user[r], t))
  BY DesiredType, DesiredKnown, TaskKeyType
<1>3. e.key.name = TaskKey(user[r], t).name /\ (e.key.scope = Cluster <=> TaskKey(user[r], t).scope = Cluster)
  BY DEF Matching, TaskKey
<1> QED BY <1>1, <1>2, <1>3, NamesTellApart

(* What one login finds after its own step. *)
LEMMA ExactOwnStep ==
  ASSUME IInv, OwnInv, OwnInv', ExactInv, drifts = 0, drifts' = 0, OneNamespacePerRole, LDAPEnabled,
         [OpenNext]_vars, NEW r \in Requests, NEW u, u = user[r],
         MoveOf(r),
         pc'[r] \in Reconciling, undisturbed'[r]
  PROVE  (Agreed(r) /\ NothingOverlooked(r) /\ WantedThere(r))'
<1>0. TypeOK /\ LoginTypeOK /\ StoreTypeOK /\ LoginInv(r) /\ ListsOwn(r)
  BY DEF IInv, TypeOK, OwnInv
<1>1. \A s \in Requests \ {r} : user'[s] = user[s] /\ pc'[s] = pc[s] /\ desired'[s] = desired[s]
  BY OtherLogins DEF LocalsOf
<1>a. ASSUME user'[r] = u, NEW S PROVE Listed(user[r], S)' = Listed(u, S)'
  BY <1>a DEF Listed
<1>2. CASE ListClusterRoleBindings(r)
  <2>1. /\ UNCHANGED <<store, user, desired>> /\ pc'[r] = "listRoleBindings"
        /\ existing'[r] = Snapshot(Listed(u, {Cluster}))
        /\ Rivals(r) = {} /\ user'[r] = u
    BY <1>0, <1>2 DEF ListClusterRoleBindings, GetClusterRoleBindings, GoTo, LoginTypeOK
  <2>2. Agreed(r)'
    BY <1>1, <2>1 DEF Agreed, Rivals
  <2>3. ListedKeys(r)' = Listed(u, {Cluster})
    BY <2>1, SnapshotKeys DEF ListedKeys
  <2>4. /\ Listed(user[r], {Cluster})' = Listed(u, {Cluster})
        /\ Listed(user[r], Scopes)' = Listed(u, Scopes)
    BY <2>1 DEF Listed, store
  <2>5. Listed(u, {Cluster}) \subseteq Listed(u, Scopes)
    BY DEF Listed, Scopes
  <2>6. NothingOverlooked(r)'
    BY <2>1, <2>3, <2>4 DEF NothingOverlooked, ScopesSeen
  <2>7. WantedThere(r)'
    BY <2>1, <2>3, <2>4, <2>5 DEF WantedThere
  <2> QED BY <2>2, <2>6, <2>7
<1>3. CASE /\ pc[r] \in Reconciling
           /\ user'[r] = user[r] /\ desired'[r] = desired[r] /\ undisturbed' = undisturbed
  <2>1. Agreed(r) /\ NothingOverlooked(r) /\ WantedThere(r)
    BY <1>3 DEF ExactInv
  <2>2. Agreed(r)'
    BY <1>1, <1>3, <2>1 DEF Agreed
  <2>3. DesiredKeys(r)' = DesiredKeys(r)
    BY <1>3 DEF DesiredKeys
  <2>4. /\ Listed(u, Scopes)' \subseteq Listed(u, Scopes) \cup DesiredKeys(r)
        /\ Listed(u, Scopes) \cap DesiredKeys(r) \subseteq Listed(u, Scopes)'
    BY <2>1, AgreedStep
  <2>5. Listed(user[r], Scopes)' = Listed(u, Scopes)'
    BY <1>3, <1>a
  <2> SUFFICES NothingOverlooked(r)' /\ WantedThere(r)'
    BY <2>2
  <2>6. CASE ListRoleBindings(r)
    <3>1. PICK kept \in LastByName(GetRoleBindings(u)) :
            existing' = [existing EXCEPT ![r] = @ \cup Snapshot(kept)]
      BY <2>6 DEF ListRoleBindings
    <3>2. /\ pc[r] = "listRoleBindings" /\ pc'[r] = "reconcile"
          /\ todo'[r] = desired[r] /\ UNCHANGED store
      BY <1>0, <2>6 DEF ListRoleBindings, GoTo, LoginTypeOK
    <3>3. kept = GetRoleBindings(u)
      BY AllByName DEF OwnInv
    <3>4. ListedKeys(r)' = ListedKeys(r) \cup Listed(u, Namespaces)
      <4>1. existing'[r] = existing[r] \cup Snapshot(Listed(u, Namespaces))
        BY <1>0, <3>1, <3>3 DEF GetRoleBindings, LoginTypeOK
      <4>2. {e.key : e \in Snapshot(Listed(u, Namespaces))} = Listed(u, Namespaces)
        BY SnapshotKeys
      <4> QED BY <4>1, <4>2 DEF ListedKeys
    <3>5. /\ Listed(u, Scopes) = Listed(u, {Cluster}) \cup Listed(u, Namespaces)
          /\ Listed(user[r], Scopes)' = Listed(u, Scopes)
      BY <1>3, <3>2 DEF Listed, Scopes, store
    <3>6. NothingOverlooked(r)'
      BY <2>1, <2>3, <3>2, <3>4, <3>5 DEF NothingOverlooked, ScopesSeen
    <3>7. DoneKeys(r)' = {}
      BY <1>3, <3>2 DEF DoneKeys, TaskKeys
    <3>8. WantedThere(r)'
      BY <2>1, <2>3, <3>2, <3>4, <3>5, <3>7 DEF WantedThere
    <3> QED BY <3>6, <3>8
  <2>7. ASSUME NEW t \in todo[r], Ensured(r, t),
               PostMissing(r, t) \/ KeepExisting(r, t) \/ (PutPending(r) /\ t = pending[r].task)
        PROVE  NothingOverlooked(r)' /\ WantedThere(r)'
    <3>1. /\ pc[r] # "listRoleBindings" /\ pc'[r] = "reconcile"
          /\ todo'[r] = todo[r] \ {t} /\ existing'[r] = existing[r] \ Matching(r, t)
      BY <1>0, <2>7 DEF Ensured, PostMissing, KeepExisting, PutPending, GoTo, LoginTypeOK
    <3>2. t \in desired[r] /\ t \in Task /\ Supported(t.item) /\ u \in Users
      BY <1>0, <1>3, DesiredType DEF LoginInv, Asked, Sourced, Reconciling, Resting
    <3>3. TaskKey(u, t) \in Key /\ TaskKey(u, t) \in DesiredKeys(r)
      BY <3>2, TaskKeyType DEF DesiredKeys, TaskKeys
    <3>4. \A e \in Matching(r, t) : e.key = TaskKey(u, t)
      BY <1>0, <3>2, MatchingKey
    <3>5. /\ ListedKeys(r)' \subseteq ListedKeys(r)
          /\ ListedKeys(r) \subseteq ListedKeys(r)' \cup {TaskKey(u, t)}
      BY <3>1, <3>4 DEF ListedKeys
    <3>6. DoneKeys(r)' \subseteq DoneKeys(r) \cup {TaskKey(u, t)}
      BY <1>3, <3>1 DEF DoneKeys, TaskKeys
    <3>7. TaskKey(u, t) \in Listed(u, Scopes)'
      <4>1. CASE KeepExisting(r, t)
        <5>1. PICK e \in Matching(r, t) : TRUE
          BY <4>1 DEF KeepExisting
        <5>2. TaskKey(u, t) \in ListedKeys(r)
          BY <3>4, <5>1 DEF ListedKeys, Matching
        <5>3. TaskKey(u, t) \in Listed(u, Scopes)
          BY <2>1, <3>3, <5>2 DEF WantedThere
        <5> QED BY <2>4, <3>3, <5>3
      <4>2. CASE PostMissing(r, t) \/ (PutPending(r) /\ t = pending[r].task)
        <5>1. bindings'[TaskKey(u, t)] # None
          <6>1. CASE PostMissing(r, t)
            <7>1. NewBinding(u, t.item.name) \in Binding
              BY <3>2 DEF NewBinding, Binding, Task, Item
            <7> QED BY <1>0, <3>3, <6>1, <7>1, NoneAssumption DEF PostMissing, PostBinding, StoreTypeOK
          <6>2. CASE PutPending(r) /\ t = pending[r].task
            BY <1>0, <3>3, <6>2, PendingType, NoneAssumption DEF PutPending, PutBinding, StoreTypeOK
          <6> QED BY <4>2, <6>1, <6>2
        <5>2. TaskKey(u, t).name.user = u /\ TaskKey(u, t).scope \in Scopes
          BY <3>2, <3>3, DesiredKnown DEF Key
        <5> QED BY <3>3, <5>1, <5>2, OwnListed
      <4> QED BY <2>7, <4>1, <4>2
    <3>8. NothingOverlooked(r)'
      BY <1>3, <2>1, <2>3, <2>4, <2>5, <3>1, <3>3, <3>5 DEF NothingOverlooked, ScopesSeen
    <3>9. DoneKeys(r) \subseteq Listed(u, Scopes) \cap DesiredKeys(r)
      BY <2>1, <3>1 DEF WantedThere, DoneKeys, DesiredKeys, TaskKeys
    <3>10. WantedThere(r)'
      BY <1>3, <2>1, <2>3, <2>4, <2>5, <3>1, <3>5, <3>6, <3>7, <3>9 DEF WantedThere
    <3> QED BY <3>8, <3>10
  <2>8. CASE /\ UNCHANGED <<todo, existing>>
             /\ pc[r] # "listRoleBindings" /\ pc'[r] # "listRoleBindings"
    <3>1. ListedKeys(r)' = ListedKeys(r) /\ DoneKeys(r)' = DoneKeys(r)
      BY <1>3, <2>8 DEF ListedKeys, DoneKeys
    <3>2. NothingOverlooked(r)'
      BY <1>3, <2>1, <2>3, <2>4, <2>5, <2>8, <3>1 DEF NothingOverlooked, ScopesSeen
    <3>3. DoneKeys(r) \subseteq Listed(u, Scopes) \cap DesiredKeys(r)
      BY <2>1, <2>8 DEF WantedThere, DoneKeys, DesiredKeys, TaskKeys
    <3>4. WantedThere(r)'
      BY <1>3, <2>1, <2>3, <2>4, <2>5, <2>8, <3>1, <3>3 DEF WantedThere
    <3> QED BY <3>2, <3>4
  <2>9. ASSUME NEW e \in Unused(r), DeleteBinding(e.key),
               existing' = [existing EXCEPT ![r] = @ \ {e}],
               UNCHANGED <<pc, todo>>, pc[r] # "listRoleBindings"
        PROVE  NothingOverlooked(r)' /\ WantedThere(r)'
    <3>1. existing'[r] = existing[r] \ {e} /\ e \in existing[r]
      BY <1>0, <2>9 DEF LoginTypeOK, Unused
    <3>2. e.key \notin Listed(u, Scopes)'
      BY <1>0, <2>9 DEF DeleteBinding, Listed, StoreTypeOK
    <3>3. /\ ListedKeys(r)' \subseteq ListedKeys(r)
          /\ ListedKeys(r) \subseteq ListedKeys(r)' \cup {e.key}
      BY <3>1 DEF ListedKeys
    <3>4. DoneKeys(r)' = DoneKeys(r)
      BY <1>3, <2>9 DEF DoneKeys
    <3>5. NothingOverlooked(r)'
      BY <1>3, <2>1, <2>3, <2>4, <2>5, <2>9, <3>2, <3>3 DEF NothingOverlooked, ScopesSeen
    <3>6. DoneKeys(r) \subseteq Listed(u, Scopes) \cap DesiredKeys(r)
      BY <2>1, <2>9 DEF WantedThere, DoneKeys, DesiredKeys, TaskKeys
    <3>7. WantedThere(r)'
      BY <1>3, <2>1, <2>3, <2>4, <2>5, <2>9, <3>3, <3>4, <3>6 DEF WantedThere
    <3> QED BY <3>5, <3>7
  <2>10. PutPending(r) => pending[r].task \in todo[r]
    BY PendingType
  <2>11. ~ListClusterRoleBindings(r)
    BY <1>3 DEF ListClusterRoleBindings, Reconciling
  <2> QED BY <2>6, <2>7, <2>8, <2>9, <2>10, <2>11, ReconcilingSteps
<1> QED BY <1>2, <1>3, ReconcilingSteps

(* What one login finds after another one's step. *)
LEMMA ExactOtherStep ==
  ASSUME IInv, OwnInv, OwnInv', ExactInv, drifts = 0, drifts' = 0, LDAPEnabled,
         [OpenNext]_vars, NEW r \in Requests, NEW s \in Requests \ {r}, NEW u, u = user[r],
         MoveOf(s),
         pc'[r] \in Reconciling, undisturbed'[r]
  PROVE  (Agreed(r) /\ NothingOverlooked(r) /\ WantedThere(r))'
<1>0. TypeOK /\ LoginTypeOK
  BY DEF IInv, TypeOK
<1>1. LocalsOf(r)' = LocalsOf(r)
  BY OtherLogins
<1>2. /\ pc'[r] = pc[r] /\ user'[r] = u /\ desired'[r] = desired[r]
      /\ todo'[r] = todo[r] /\ existing'[r] = existing[r]
  BY <1>1 DEF LocalsOf
<1>3. \A q \in Requests \ {s} : user'[q] = user[q] /\ pc'[q] = pc[q] /\ desired'[q] = desired[q]
  BY OtherLogins DEF LocalsOf
<1>4. undisturbed[r] /\ (ListClusterRoleBindings(s) => r \notin Rivals(s))
  <2>1. CASE ListClusterRoleBindings(s)
    BY <1>0, <2>1 DEF ListClusterRoleBindings, LoginTypeOK
  <2>2. CASE ~ListClusterRoleBindings(s)
    <3>1. undisturbed'[r] = undisturbed[r]
      <4>1. ASSUME NEW status, Finish(s, status) PROVE undisturbed'[r] = undisturbed[r]
        BY <1>0, <4>1 DEF Finish, LoginTypeOK
      <4>2. CASE (\E v \in Users : Arrive(s, v)) \/ LoginFails(s) \/ LearnFrom(s)
        BY <4>1, <4>2 DEF Arrive, LoginFails, ApiFails, LdapFails, AnswerLost, LearnFrom, Learn
      <4>3. CASE LoginStep(s)
        BY <2>2, <4>1, <4>3
           DEF LoginStep, GetAccount, CreateAccount, GetUser, GetUserGroups, GetBindings, Learn,
               ListRoleBindings, CreateMissing, KeepExisting, GetForUpdate, UpdateBinding,
               RemoveUnused, IssueToken, Ensured
      <4> QED BY <4>2, <4>3 DEF MoveOf
    <3> QED BY <2>2, <3>1
  <2> QED BY <2>1, <2>2
<1>5. Agreed(r) /\ NothingOverlooked(r) /\ WantedThere(r)
  BY <1>2, <1>4 DEF ExactInv
<1>6. Agreed(r)'
  <2> SUFFICES ASSUME user'[s] = u, pc'[s] \in Reconciling PROVE desired'[s] = desired[r]
    BY <1>2, <1>3, <1>5 DEF Agreed
  <2>1. CASE ListClusterRoleBindings(s)
    <3>1. desired'[s] = desired[s] /\ user'[s] = user[s]
      BY <2>1 DEF ListClusterRoleBindings
    <3> QED BY <1>2, <1>4, <2>1, <3>1 DEF Rivals
  <2>2. CASE pc[s] \in Reconciling /\ user'[s] = user[s] /\ desired'[s] = desired[s]
    BY <1>5, <2>2 DEF Agreed
  <2> QED BY <2>1, <2>2, ReconcilingSteps
<1>7. /\ \A S : Listed(user[r], S)' = Listed(u, S)'
      /\ ListedKeys(r)' = ListedKeys(r) /\ DesiredKeys(r)' = DesiredKeys(r)
      /\ DoneKeys(r)' = DoneKeys(r) /\ ScopesSeen(r)' = ScopesSeen(r)
  BY <1>2 DEF Listed, ListedKeys, DesiredKeys, DoneKeys, ScopesSeen
<1>8. /\ Listed(u, ScopesSeen(r))' \subseteq Listed(u, ScopesSeen(r)) \cup DesiredKeys(r)
      /\ Listed(u, Scopes)' \subseteq Listed(u, Scopes) \cup DesiredKeys(r)
      /\ Listed(u, Scopes) \cap DesiredKeys(r) \subseteq Listed(u, Scopes)'
  <2>1. /\ Listed(u, {Cluster})' \subseteq Listed(u, {Cluster}) \cup DesiredKeys(r)
        /\ Listed(u, Scopes)' \subseteq Listed(u, Scopes) \cup DesiredKeys(r)
        /\ Listed(u, Scopes) \cap DesiredKeys(r) \subseteq Listed(u, Scopes)'
    BY <1>5, AgreedStep
  <2>2. Listed(u, ScopesSeen(r))' \subseteq Listed(u, ScopesSeen(r)) \cup DesiredKeys(r)
    BY <1>2, <2>1 DEF ScopesSeen
  <2> QED BY <2>1, <2>2
<1>9. NothingOverlooked(r)'
  BY <1>5, <1>7, <1>8 DEF NothingOverlooked
<1>10. DoneKeys(r) \subseteq DesiredKeys(r)
  BY DEF DoneKeys, DesiredKeys, TaskKeys
<1>11. WantedThere(r)'
  BY <1>2, <1>5, <1>7, <1>8, <1>10 DEF WantedThere
<1> QED BY <1>6, <1>9, <1>11

LEMMA NextExactInv ==
  ASSUME OneNamespacePerRole
  PROVE  IInv /\ OwnInv /\ ExactInv /\ OwnInv' /\ [OpenNext]_vars => ExactInv'
<1> SUFFICES ASSUME IInv, OwnInv, ExactInv, OwnInv', [OpenNext]_vars, drifts' = 0, LDAPEnabled,
                    NEW r \in Requests, pc'[r] \in Reconciling, undisturbed'[r]
             PROVE  (Agreed(r) /\ NothingOverlooked(r) /\ WantedThere(r))'
  BY DEF ExactInv
<1>1. drifts = 0
  BY DriftsGrow DEF IInv, TypeOK
<1>2. CASE \E s \in Requests : MoveOf(s)
  <2>1. PICK s \in Requests : MoveOf(s)
    BY <1>2
  <2>2. CASE s = r
    BY <1>1, <2>1, <2>2, ExactOwnStep
  <2>3. CASE s # r
    BY <1>1, <2>1, <2>3, ExactOtherStep
  <2> QED BY <2>2, <2>3
<1>3. CASE UNCHANGED <<pc, locals, undisturbed, bindings>>
  <2>1. Agreed(r) /\ NothingOverlooked(r) /\ WantedThere(r)
    BY <1>1, <1>3 DEF ExactInv
  <2> QED BY <1>3, <2>1 DEF Agreed, NothingOverlooked, WantedThere, ScopesSeen, Listed,
                            ListedKeys, DesiredKeys, DoneKeys, locals
<1>4. ~LoginsLost
  BY DEF IInv, TypeOK, LoginTypeOK, LoginsLost, Reconciling, Resting
<1> QED BY <1>1, <1>2, <1>3, <1>4, OtherMoves

(* The invariants at the moment before the token.                          *)
LEMMA InvExact ==
  ASSUME drifts = 0
  PROVE  IInv /\ ExactInv => ExactBindings
<1> SUFFICES ASSUME IInv, ExactInv, NEW r \in Requests, LDAPEnabled, Reconciled(r), undisturbed[r]
             PROVE  Managed(user[r]) = TaskKeys(user[r], desired[r])
  BY DEF ExactBindings
<1>1. pc[r] = "reconcile" /\ todo[r] = {} /\ existing[r] = {}
  BY DEF Reconciled
<1>2. NothingOverlooked(r) /\ WantedThere(r)
  BY <1>1 DEF ExactInv, Reconciling
<1>3. Listed(user[r], Scopes) \subseteq TaskKeys(user[r], desired[r])
  BY <1>1, <1>2 DEF NothingOverlooked, ScopesSeen, ListedKeys, DesiredKeys
<1>4. TaskKeys(user[r], desired[r]) \subseteq Listed(user[r], Scopes)
  BY <1>1, <1>2 DEF WantedThere, DoneKeys
<1> QED BY <1>3, <1>4 DEF Managed

(***************************************************************************)
(* As long as nobody but the service writes bindings, and no Role is       *)
(* listed in different namespaces, a login that is about to issue its      *)
(* token has left the account with exactly the bindings it found it should *)
(* have, however many logins, of whatever accounts, overlap, and wherever  *)
(* earlier ones were cut short.                                            *)
(***************************************************************************)
THEOREM Exactness ==
  ASSUME MaxDrift = 0, OneNamespacePerRole
  PROVE  Spec => []ExactBindings
<1>1. Spec => [](IInv /\ OwnInv /\ ExactInv)
  <2>1. Init => IInv /\ OwnInv /\ ExactInv
    BY InitIInv, InitOwnInv, InitExactInv
  <2>2. IInv /\ OwnInv /\ ExactInv /\ [OpenNext]_vars => (IInv /\ OwnInv /\ ExactInv)'
    BY NextIInv, NextOwnInv, NextExactInv
  <2> QED BY <2>1, <2>2, NextIsOpen, PTL DEF Spec
<1>2. IInv /\ ExactInv => ExactBindings
  BY InvExact DEF IInv, TypeOK
<1> QED BY <1>1, <1>2, PTL

=============================================================================
