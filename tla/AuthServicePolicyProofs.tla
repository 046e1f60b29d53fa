------------------------ MODULE AuthServicePolicyProofs ------------------------
(***************************************************************************)
(* Proof that AuthService implements AccessPolicy, as long as nobody but   *)
(* the service writes the bindings.  Each step of a login is a step of the *)
(* same login there, or changes nothing that AccessPolicy speaks of.       *)
(***************************************************************************)
EXTENDS AuthServiceExactness

(* What a login was told of its groups, LDAP said of its user at some time. *)
Told(r) == pc[r] = "getBindings" => \E d \in Directories : groups[r] = d[user[r]].groups

(* ClusterRoleBindings are listed first. *)
ClusterFirst(r) == pc[r] = "listRoleBindings" => \A e \in existing[r] : e.key.scope = Cluster

(* Without LDAP a login goes from the account to the token.                *)
Plain(r) ==
  ~LDAPEnabled =>
    /\ pc[r] \in Resting \cup {"getAccount", "createAccount", "reconcile"}
    /\ desired[r] = {} /\ existing[r] = {}

CourseInv == \A r \in Requests : Told(r) /\ ClusterFirst(r) /\ Plain(r)

LEMMA InitCourseInv == Init => CourseInv
BY DEF Init, CourseInv, Told, ClusterFirst, Plain, Resting

(* Where a login's own step leads. *)
LEMMA NextCourseInv == IInv /\ CourseInv /\ [Next]_vars => CourseInv'
<1> SUFFICES ASSUME IInv, CourseInv, [Next]_vars, NEW r \in Requests
             PROVE  Told(r)' /\ ClusterFirst(r)' /\ Plain(r)'
  BY DEF CourseInv
<1>0. TypeOK /\ LoginTypeOK /\ LoginInv(r) /\ Told(r) /\ ClusterFirst(r) /\ Plain(r)
  BY DEF IInv, TypeOK, CourseInv
<1> USE DEF GoTo, locals, Resting
<1>1. CASE LocalsOf(r)' = LocalsOf(r)
  BY <1>0, <1>1 DEF LocalsOf, Told, ClusterFirst, Plain
<1>2. CASE (\E u \in Users : Arrive(r, u)) \/ LoginStep(r) \/ LoginFails(r)
  <2>1. ASSUME NEW status \in Resting, Finish(r, status) PROVE Told(r)' /\ ClusterFirst(r)' /\ Plain(r)'
    BY <1>0, <2>1 DEF Finish, LoginTypeOK, Told, ClusterFirst, Plain
  <2>2. CASE \E u \in Users : Arrive(r, u)
    BY <1>0, <2>2 DEF Arrive, LoginTypeOK, LoginInv, Sourced, Told, ClusterFirst, Plain
  <2>3. CASE LoginFails(r)
    BY <2>1, <2>3 DEF LoginFails, ApiFails, LdapFails, AnswerLost
  <2>4. CASE GetAccount(r)
    BY <1>0, <2>4 DEF GetAccount, AfterUpsert, LoginTypeOK, Told, ClusterFirst, Plain
  <2>5. CASE CreateAccount(r)
    BY <1>0, <2>1, <2>5 DEF CreateAccount, AfterUpsert, LoginTypeOK, Told, ClusterFirst, Plain
  <2>6. CASE GetUser(r)
    BY <1>0, <2>1, <2>6 DEF GetUser, LoginTypeOK, Told, ClusterFirst, Plain
  <2>7. CASE GetUserGroups(r)
    <3>1. groups'[r] = directory[user[r]].groups /\ directory \in Directories /\ user' = user
      BY <1>0, <2>7 DEF GetUserGroups, TypeOK, LoginTypeOK
    <3> QED BY <1>0, <2>7, <3>1 DEF GetUserGroups, LoginTypeOK, Told, ClusterFirst, Plain
  <2>8. CASE GetBindings(r)
    BY <1>0, <2>8 DEF GetBindings, Learn, LoginTypeOK, Told, ClusterFirst, Plain
  <2>9. CASE ListClusterRoleBindings(r) \/ ListRoleBindings(r)
    <3>1. \A e \in Snapshot(GetClusterRoleBindings(user[r])) : e.key.scope = Cluster
      BY DEF Snapshot, GetClusterRoleBindings, Listed
    <3> QED BY <1>0, <2>9, <3>1 DEF ListClusterRoleBindings, ListRoleBindings, LoginTypeOK, Told,
                                    ClusterFirst, Plain
  <2>10. CASE (\E t \in todo[r] : CreateMissing(r, t) \/ KeepExisting(r, t) \/ GetForUpdate(r, t))
              \/ UpdateBinding(r)
    <3>1. LDAPEnabled
      BY <1>0, <2>10 DEF UpdateBinding, PutPending, Plain, LoginInv, Sourced
    <3>2. pc'[r] \notin {"getBindings", "listRoleBindings"}
      BY <1>0, <2>10 DEF CreateMissing, KeepExisting, GetForUpdate, UpdateBinding, Ensured, Finish,
                        LoginTypeOK
    <3> QED BY <3>1, <3>2 DEF Told, ClusterFirst, Plain
  <2>11. CASE \E e \in existing[r] : RemoveUnused(r, e)
    BY <1>0, <2>1, <2>11 DEF RemoveUnused, Unused, LoginTypeOK, Told, ClusterFirst, Plain
  <2>12. CASE IssueToken(r)
    BY <2>1, <2>12 DEF IssueToken
  <2> QED BY <1>2, <2>2, <2>3, <2>4, <2>5, <2>6, <2>7, <2>8, <2>9, <2>10, <2>11, <2>12 DEF LoginStep
<1>3. CASE Environment \/ UNCHANGED vars
  <2>1. UNCHANGED <<pc, locals>>
    BY <1>3 DEF Environment, DirectoryChanges, CacheChanges, AdminWritesBinding,
                AdminDeletesAccount, vars
  <2> QED BY <1>1, <2>1 DEF LocalsOf
<1>4. ASSUME NEW s \in Requests, s # r, (\E u \in Users : Arrive(s, u)) \/ LoginStep(s) \/ LoginFails(s)
      PROVE  Told(r)' /\ ClusterFirst(r)' /\ Plain(r)'
  BY <1>1, <1>4, OtherLogins DEF MoveOf
<1> QED BY <1>2, <1>3, <1>4 DEF Next

-----------------------------------------------------------------------------
(* The mapping. *)

(* What AccessPolicy knows of one login. *)
ViewOf(r) == <<PhaseOf(r), user[r], DesiredKeys(r), Settled(r)>>

LEMMA SameView ==
  ASSUME NEW r \in Requests, LocalsOf(r)' = LocalsOf(r)
  PROVE  ViewOf(r)' = ViewOf(r)
BY DEF LocalsOf, ViewOf, PhaseOf, DesiredKeys, Settled, Found, ListedKeys, DoneKeys, ScopesSeen

(* A step of one login changes one place of each function. *)
LEMMA ViewStep ==
  ASSUME IInv, IInv', NEW r \in Requests, \A s \in Requests \ {r} : ViewOf(s)' = ViewOf(s)
  PROVE  /\ Phases' = [Phases EXCEPT ![r] = PhaseOf(r)']
         /\ user' = [user EXCEPT ![r] = user'[r]]
         /\ Wanteds' = [Wanteds EXCEPT ![r] = DesiredKeys(r)']
         /\ Settleds' = [Settleds EXCEPT ![r] = Settled(r)']
<1>1. /\ user \in [Requests -> Users \cup {None}]
      /\ user' \in [Requests -> Users \cup {None}]
  BY DEF IInv, TypeOK, LoginTypeOK
<1>2. \A s \in Requests \ {r} :
        /\ PhaseOf(s)' = PhaseOf(s) /\ user'[s] = user[s]
        /\ DesiredKeys(s)' = DesiredKeys(s) /\ Settled(s)' = Settled(s)
  BY DEF ViewOf
<1>3. Phases' = [s \in Requests |-> PhaseOf(s)'] /\ Wanteds' = [s \in Requests |-> DesiredKeys(s)']
      /\ Settleds' = [s \in Requests |-> Settled(s)']
  BY DEF Phases, Wanteds, Settleds
<1>4. Phases' = [Phases EXCEPT ![r] = PhaseOf(r)']
  BY <1>2, <1>3 DEF Phases
<1>5. Wanteds' = [Wanteds EXCEPT ![r] = DesiredKeys(r)']
  BY <1>2, <1>3 DEF Wanteds
<1>6. Settleds' = [Settleds EXCEPT ![r] = Settled(r)']
  BY <1>2, <1>3 DEF Settleds
<1>7. user' = [user EXCEPT ![r] = user'[r]]
  BY <1>1, <1>2
<1> QED BY <1>4, <1>5, <1>6, <1>7

LEMMA ViewsStutter ==
  ASSUME IInv, IInv', \A s \in Requests : ViewOf(s)' = ViewOf(s)
  PROVE  UNCHANGED <<Phases, user, Wanteds, Settleds>>
<1>1. \A s \in Requests :
        /\ PhaseOf(s)' = PhaseOf(s) /\ user'[s] = user[s]
        /\ DesiredKeys(s)' = DesiredKeys(s) /\ Settled(s)' = Settled(s)
  BY DEF ViewOf
<1>2. user' = user
  <2>1. user \in [Requests -> Users \cup {None}] /\ user' \in [Requests -> Users \cup {None}]
    BY DEF IInv, TypeOK, LoginTypeOK
  <2> QED BY <1>1, <2>1
<1>3. Phases' = Phases
  BY <1>1 DEF Phases
<1>4. Wanteds' = Wanteds
  BY <1>1 DEF Wanteds
<1>5. Settleds' = Settleds
  BY <1>1 DEF Settleds
<1> QED BY <1>2, <1>3, <1>4, <1>5

LEMMA InitPolicy == Init => Policy!Init
<1> SUFFICES ASSUME Init PROVE Policy!Init
  OBVIOUS
<1>1. Held = {}
  BY DEF Init, StoreInit, Held, Managed, Listed
<1>2. ASSUME NEW r \in Requests
      PROVE  PhaseOf(r) = "idle" /\ DesiredKeys(r) = {} /\ Settled(r) = {}
  <2>1. pc[r] = "idle" /\ desired[r] = {}
    BY DEF Init
  <2>2. PhaseOf(r) = "idle"
    BY <2>1 DEF PhaseOf
  <2>3. DesiredKeys(r) = {}
    BY <2>1 DEF DesiredKeys, TaskKeys
  <2>4. Settled(r) = {}
    BY <2>1 DEF Settled, Reconciling
  <2> QED BY <2>2, <2>3, <2>4
<1> QED BY <1>1, <1>2 DEF Init, Phases, Wanteds, Settleds, Policy!Init

-----------------------------------------------------------------------------
(* What a call that writes does to the bindings in force. *)

LEMMA HeldIs ==
  /\ OwnInv /\ drifts = 0 => Held = {k \in Key : bindings[k] # None}
  /\ OwnInv' /\ drifts' = 0 => Held' = {k \in Key : bindings'[k] # None}
<1>1. \A k \in Key : k.scope \in Scopes
  BY DEF Key
<1>2. ASSUME OwnInv, drifts = 0 PROVE Held = {k \in Key : bindings[k] # None}
  <2>1. \A u : Managed(u) = {k \in Key : k.scope \in Scopes /\ bindings[k] # None /\ k.name.user = u}
    BY <1>2, OwnListed DEF Managed
  <2> QED BY <1>1, <2>1 DEF Held
<1>3. ASSUME OwnInv', drifts' = 0 PROVE Held' = {k \in Key : bindings'[k] # None}
  <2>1. \A u : Managed(u)' = {k \in Key : k.scope \in Scopes /\ bindings'[k] # None /\ k.name.user = u}
    BY <1>3, OwnListed DEF Managed
  <2> QED BY <1>1, <2>1 DEF Held
<1> QED BY <1>2, <1>3

LEMMA WritesEnforce ==
  ASSUME IInv, OwnInv, OwnInv', CourseInv, drifts = 0, drifts' = 0, NEW r \in Requests,
         \/ \E t \in todo[r] : PostMissing(r, t)
         \/ PutPending(r)
         \/ \E e \in Unused(r) : DeleteBinding(e.key)
  PROVE  /\ LDAPEnabled /\ pc[r] \in Reconciling
         /\ Policy!Give(r) \/ Policy!Take(r) \/ UNCHANGED Held
<1>0. TypeOK /\ LoginTypeOK /\ StoreTypeOK /\ LoginInv(r) /\ ListsOwn(r) /\ Plain(r)
  BY DEF IInv, TypeOK, OwnInv, CourseInv
<1>1. Held = {k \in Key : bindings[k] # None} /\ Held' = {k \in Key : bindings'[k] # None}
  BY HeldIs
<1>2. Wanteds[r] = TaskKeys(user[r], desired[r])
  BY DEF Wanteds, DesiredKeys
<1>3. CASE \E t \in todo[r] : PostMissing(r, t)
  <2>1. PICK t \in todo[r] : PostMissing(r, t)
    BY <1>3
  <2> DEFINE k == TaskKey(user[r], t)
  <2>2. pc[r] = "reconcile" /\ t \in desired[r] /\ user[r] \in Users
    BY <1>0, <2>1 DEF PostMissing, LoginInv, Asked, Sourced, Resting
  <2>3. t \in Task /\ Supported(t.item) /\ t.item.name \in Roles
    BY <2>2, DesiredType DEF Task, Item
  <2>4. k \in Key /\ NewBinding(user[r], t.item.name) \in Binding
    BY <2>2, <2>3, TaskKeyType DEF NewBinding, Binding
  <2>5. bindings[k] = None /\ bindings' = [bindings EXCEPT ![k] = NewBinding(user[r], t.item.name)]
    BY <2>1 DEF PostMissing, PostBinding
  <2>6. k \in Wanteds[r]
    BY <1>2, <2>2 DEF TaskKeys
  <2> HIDE DEF k
  <2>7. k \notin Held /\ Held' = Held \cup {k}
    BY <1>0, <1>1, <2>4, <2>5, NoneAssumption DEF StoreTypeOK
  <2> QED BY <1>0, <2>2, <2>6, <2>7 DEF Policy!Give, Plain, Reconciling
<1>4. CASE PutPending(r)
  <2> DEFINE k == TaskKey(user[r], pending[r].task)
  <2>1. pc[r] = "update" /\ pending[r].task \in desired[r]
    BY <1>4, PendingType DEF PutPending
  <2>2. bindings[k] = pending[r].read /\ bindings' = [bindings EXCEPT ![k] = AmendedOf(r)]
    BY <1>4 DEF PutPending, PutBinding
  <2>3. bindings[k] # None /\ AmendedOf(r) # None
    BY <1>4, <2>2, PendingType, NoneAssumption
  <2>4. Held' = Held
    BY <1>0, <1>1, <2>2, <2>3 DEF StoreTypeOK
  <2> QED BY <1>0, <2>1, <2>4 DEF Plain, Reconciling
<1>5. CASE \E e \in Unused(r) : DeleteBinding(e.key)
  <2>1. PICK e \in Unused(r) : DeleteBinding(e.key)
    BY <1>5
  <2>2. e \in existing[r] /\ pc[r] = "reconcile" /\ todo[r] = {}
    BY DEF Unused
  <2>3. e.key \in Key /\ e.key.name.user = user[r]
    BY <1>0, <2>2 DEF LoginTypeOK, Entry, ListsOwn
  <2>4. e.key \notin Wanteds[r]
    BY <1>0, <1>2, <2>2 DEF LoginInv, DoneItemsKept, TaskKeys
  <2>5. e.key \in Held /\ Held' = Held \ {e.key}
    BY <1>0, <1>1, <2>1, <2>3 DEF DeleteBinding, StoreTypeOK
  <2>6. e.key \in Policy!Own(user[r])
    BY <2>3 DEF Policy!Own
  <2> QED BY <1>0, <2>2, <2>4, <2>5, <2>6 DEF Policy!Take, Plain, Reconciling
<1> QED BY <1>3, <1>4, <1>5

-----------------------------------------------------------------------------
(* Steps of a login before it enforces, and steps that end it. *)

LEMMA PreparingSteps ==
  ASSUME IInv, CourseInv, NEW r \in Requests, LoginStep(r) \/ LoginFails(r),
         pc'[r] \notin Resting, LDAPEnabled => pc'[r] \notin Reconciling
  PROVE  /\ bindings' = bindings /\ user'[r] = user[r]
         /\ \/ pc[r] \in Preparing /\ pc'[r] \in Preparing
            \/ pc[r] = "getBindings" /\ Learn(r, cache[ServedBy[r]])
            \/ ~LDAPEnabled /\ pc[r] \in Preparing /\ pc'[r] = "reconcile" /\ desired'[r] = {}
<1> USE DEF GoTo, locals, Resting, Preparing, Reconciling
<1>0. TypeOK /\ LoginTypeOK /\ LoginInv(r) /\ Plain(r)
  BY DEF IInv, TypeOK, CourseInv
<1>1. ASSUME NEW status \in Resting, Finish(r, status) PROVE FALSE
  BY <1>0, <1>1 DEF Finish, LoginTypeOK
<1>2. ~LoginFails(r)
  BY <1>1 DEF LoginFails, ApiFails, LdapFails, AnswerLost
<1>3. ASSUME NEW t \in todo[r] PROVE ~CreateMissing(r, t) /\ ~KeepExisting(r, t) /\ ~GetForUpdate(r, t)
  <2>1. LDAPEnabled /\ pc'[r] \notin Reconciling
    BY <1>0 DEF Plain, LoginInv, Sourced
  <2> QED BY <1>0, <1>1, <2>1 DEF CreateMissing, KeepExisting, GetForUpdate, Ensured, LoginTypeOK
<1>4. ~UpdateBinding(r)
  <2>1. UpdateBinding(r) => LDAPEnabled
    BY <1>0 DEF UpdateBinding, PutPending, Plain
  <2> QED BY <1>0, <1>1, <2>1 DEF UpdateBinding, Ensured, LoginTypeOK
<1>5. ~(\E e \in existing[r] : RemoveUnused(r, e)) /\ ~IssueToken(r)
  BY <1>0, <1>1 DEF RemoveUnused, Unused, IssueToken, Plain
<1>6. ~ListClusterRoleBindings(r) /\ ~ListRoleBindings(r)
  BY <1>0 DEF ListClusterRoleBindings, ListRoleBindings, LoginTypeOK, Plain
<1>7. CASE GetAccount(r)
  BY <1>0, <1>7 DEF GetAccount, AfterUpsert, LoginTypeOK, store, Plain
<1>8. CASE CreateAccount(r)
  BY <1>0, <1>1, <1>8 DEF CreateAccount, PostAccount, AfterUpsert, LoginTypeOK, Plain
<1>9. CASE GetUser(r) \/ GetUserGroups(r)
  BY <1>0, <1>1, <1>9 DEF GetUser, GetUserGroups, LoginTypeOK, store
<1>10. CASE GetBindings(r)
  BY <1>10 DEF GetBindings, Learn, store
<1> QED BY <1>2, <1>3, <1>4, <1>5, <1>6, <1>7, <1>8, <1>9, <1>10 DEF LoginStep

LEMMA EndingSteps ==
  ASSUME IInv, NEW r \in Requests, LoginStep(r) \/ LoginFails(r), pc'[r] \in Resting
  PROVE  /\ pc[r] \notin Resting
         /\ \E status \in {"ok", "unauthorized", "failed"} :
              Finish(r, status) /\ (status = "ok" => IssueToken(r))
<1> USE DEF GoTo, locals, Resting
<1>0. TypeOK /\ LoginTypeOK
  BY DEF IInv, TypeOK
<1>1. CASE LoginFails(r)
  BY <1>1 DEF LoginFails, ApiFails, LdapFails, AnswerLost, ApiCalls, LdapCalls, PutPending,
              PostMissing, Unused
<1>2. CASE GetAccount(r) \/ GetUserGroups(r) \/ ListClusterRoleBindings(r) \/ ListRoleBindings(r)
  BY <1>0, <1>2 DEF GetAccount, GetUserGroups, ListClusterRoleBindings, ListRoleBindings,
                    AfterUpsert, LoginTypeOK
<1>3. CASE GetBindings(r)
  BY <1>0, <1>3 DEF GetBindings, Learn, LoginTypeOK
<1>4. CASE CreateAccount(r) \/ GetUser(r)
  BY <1>0, <1>4 DEF CreateAccount, GetUser, AfterUpsert, LoginTypeOK
<1>5. CASE \E t \in todo[r] : CreateMissing(r, t) \/ KeepExisting(r, t) \/ GetForUpdate(r, t)
  BY <1>0, <1>5 DEF CreateMissing, PostMissing, KeepExisting, GetForUpdate, Ensured, LoginTypeOK
<1>6. CASE UpdateBinding(r)
  BY <1>0, <1>6 DEF UpdateBinding, PutPending, Ensured, LoginTypeOK
<1>7. CASE \E e \in existing[r] : RemoveUnused(r, e)
  BY <1>0, <1>7 DEF RemoveUnused, Unused, LoginTypeOK
<1>8. CASE IssueToken(r)
  BY <1>8 DEF IssueToken, Reconciled
<1> QED BY <1>1, <1>2, <1>3, <1>4, <1>5, <1>6, <1>7, <1>8 DEF LoginStep

(* Out of the reconciliation nothing is settled. *)
LEMMA NothingSettled ==
  ASSUME NEW r \in Requests
  PROVE  /\ pc[r] \notin Reconciling \/ ~LDAPEnabled => Settled(r) = {}
         /\ pc'[r] \notin Reconciling \/ ~LDAPEnabled => Settled(r)' = {}
BY DEF Settled

LEMMA NothingDesired ==
  ASSUME NEW r \in Requests
  PROVE  /\ desired[r] = {} => DesiredKeys(r) = {}
         /\ desired'[r] = {} => DesiredKeys(r)' = {}
BY DEF DesiredKeys, TaskKeys

LEMMA EndView ==
  ASSUME IInv, IInv', NEW r \in Requests, LoginStep(r) \/ LoginFails(r),
         NEW status \in {"ok", "unauthorized", "failed"}, Finish(r, status)
  PROVE  Policy!End(r, IF status = "ok" THEN "issued" ELSE "refused")
<1>1. pc'[r] = status /\ user'[r] = None /\ desired'[r] = {}
  BY DEF IInv, TypeOK, LoginTypeOK, Finish
<1>2. PhaseOf(r)' = IF status = "ok" THEN "issued" ELSE "refused"
  BY <1>1 DEF PhaseOf, Resting
<1>3. DesiredKeys(r)' = {} /\ Settled(r)' = {}
  <2>1. pc'[r] \notin Reconciling
    BY <1>1 DEF Reconciling
  <2> QED BY <1>1, <2>1, NothingSettled, NothingDesired
<1>4. \A s \in Requests \ {r} : ViewOf(s)' = ViewOf(s)
  BY OtherLogins, SameView DEF MoveOf
<1> QED BY <1>1, <1>2, <1>3, <1>4, ViewStep DEF Policy!End

-----------------------------------------------------------------------------
(* Steps of a login that enforces. *)

(* A login keeps what it has seen, and what it sees anew is as it wants    *)
(* it.                                                                     *)
LEMMA EnforcingStep ==
  ASSUME IInv, OwnInv, OwnInv', CourseInv, drifts = 0, drifts' = 0, OneNamespacePerRole, LDAPEnabled,
         NEW r \in Requests, LoginStep(r) \/ LoginFails(r), pc'[r] \in Reconciling
  PROVE  /\ pc[r] \in Reconciling \cup {"listClusterRoleBindings"}
         /\ user'[r] = user[r] /\ desired'[r] = desired[r]
         /\ Settled(r) \subseteq Settled(r)'
         /\ \A k \in Settled(r)' \ Settled(r) : k \in Held' <=> k \in DesiredKeys(r)
<1> USE DEF Reconciling
<1>0. TypeOK /\ LoginTypeOK /\ StoreTypeOK /\ LoginInv(r) /\ ListsOwn(r) /\ ClusterFirst(r)
  BY DEF IInv, TypeOK, OwnInv, CourseInv
<1>a. \A S : Listed(user[r], S) = {k \in Key : k.scope \in S /\ k \in Held /\ k.name.user = user[r]}
  BY HeldIs, OwnListed
<1>1. CASE ListClusterRoleBindings(r)
  <2>1. /\ pc[r] = "listClusterRoleBindings" /\ pc'[r] = "listRoleBindings"
        /\ user'[r] = user[r] /\ desired'[r] = desired[r] /\ UNCHANGED <<store, drifts>>
        /\ existing'[r] = Snapshot(Listed(user[r], {Cluster}))
    BY <1>0, <1>1 DEF ListClusterRoleBindings, GetClusterRoleBindings, GoTo, LoginTypeOK, budget
  <2>2. Settled(r) = {} /\ Held' = Held /\ DesiredKeys(r)' = DesiredKeys(r)
    <3>1. Held' = Held
      BY <2>1 DEF Held, Managed, Listed, store
    <3> QED BY <2>1, <3>1, NothingSettled DEF DesiredKeys
  <2>3. ListedKeys(r)' = Listed(user[r], {Cluster})
    BY <2>1, SnapshotKeys DEF ListedKeys
  <2>4. Found(r)' = ListedKeys(r)' /\ ScopesSeen(r)' = {Cluster}
    BY <2>1 DEF Found, ScopesSeen
  <2>5. \A k \in Settled(r)' : k \in Held <=> k \in DesiredKeys(r)
    BY <1>a, <2>1, <2>2, <2>3, <2>4 DEF Settled
  <2> QED BY <2>1, <2>2, <2>5
<1>2. CASE /\ pc[r] \in Reconciling
           /\ user'[r] = user[r] /\ desired'[r] = desired[r]
  <2>0. DesiredKeys(r)' = DesiredKeys(r)
    BY <1>2 DEF DesiredKeys
  <2> SUFFICES /\ Settled(r) \subseteq Settled(r)'
               /\ \A k \in Settled(r)' \ Settled(r) : k \in Held' <=> k \in DesiredKeys(r)
    BY <1>2
  <2>1. CASE ListRoleBindings(r)
    <3>1. PICK kept \in LastByName(GetRoleBindings(user[r])) :
            existing' = [existing EXCEPT ![r] = @ \cup Snapshot(kept)]
      BY <2>1 DEF ListRoleBindings
    <3>2. /\ pc[r] = "listRoleBindings" /\ pc'[r] = "reconcile"
          /\ todo'[r] = desired[r] /\ UNCHANGED store
      BY <1>0, <2>1 DEF ListRoleBindings, GoTo, LoginTypeOK
    <3>3. kept = GetRoleBindings(user[r])
      BY AllByName DEF OwnInv
    <3>4. ListedKeys(r)' = ListedKeys(r) \cup Listed(user[r], Namespaces)
      <4>1. existing'[r] = existing[r] \cup Snapshot(Listed(user[r], Namespaces))
        BY <1>0, <3>1, <3>3 DEF GetRoleBindings, LoginTypeOK
      <4>2. {e.key : e \in Snapshot(Listed(user[r], Namespaces))} = Listed(user[r], Namespaces)
        BY SnapshotKeys
      <4> QED BY <4>1, <4>2 DEF ListedKeys
    <3>5. \A k \in ListedKeys(r) : k.scope = Cluster
      BY <1>0, <3>2 DEF ClusterFirst, ListedKeys
    <3>6. Held' = Held
      BY <3>2 DEF Held, Managed, Listed, store
    <3>7. DoneKeys(r)' = {}
      BY <1>2, <3>2 DEF DoneKeys, TaskKeys
    <3>8. /\ Found(r) = ListedKeys(r) /\ Found(r)' = ListedKeys(r)'
          /\ ScopesSeen(r) = {Cluster} /\ ScopesSeen(r)' = Scopes
      BY <3>2, <3>7 DEF Found, ScopesSeen
    <3>9. \A k \in Listed(user[r], Namespaces) : k.scope # Cluster
      BY ScopeAssumption DEF Listed
    <3>10. Settled(r) \subseteq Settled(r)'
      BY <1>2, <2>0, <3>2, <3>4, <3>8, <3>9 DEF Settled, Scopes
    <3>11. ASSUME NEW k \in Settled(r)' \ Settled(r)
           PROVE  k \in Held' <=> k \in DesiredKeys(r)
      <4>1. /\ k \in Key /\ k.name.user = user[r] /\ k.scope \in Scopes
            /\ IF k \in DesiredKeys(r) THEN k \in ListedKeys(r)' ELSE k \notin ListedKeys(r)'
        BY <1>2, <2>0, <3>8 DEF Settled
      <4>2. k.scope \in Namespaces
        BY <1>2, <3>2, <3>4, <3>8, <3>9, <4>1 DEF Settled, Scopes
      <4>3. k \in Held <=> k \in Listed(user[r], Namespaces)
        BY <1>a, <4>1, <4>2
      <4>4. k \notin ListedKeys(r)
        BY <3>5, <4>2, ScopeAssumption
      <4> QED BY <3>4, <3>6, <4>1, <4>3, <4>4
    <3> QED BY <3>10, <3>11
  <2> DEFINE Late == pc[r] # "listRoleBindings" /\ pc'[r] # "listRoleBindings"
  <2>a. ASSUME Late
        PROVE  /\ Settled(r) = {k \in Key : k.name.user = user[r] /\ k.scope \in Scopes /\
                     IF k \in DesiredKeys(r) THEN k \in ListedKeys(r) \cup DoneKeys(r)
                                             ELSE k \notin ListedKeys(r)}
               /\ Settled(r)' = {k \in Key : k.name.user = user[r] /\ k.scope \in Scopes /\
                     IF k \in DesiredKeys(r) THEN k \in ListedKeys(r)' \cup DoneKeys(r)'
                                             ELSE k \notin ListedKeys(r)'}
    BY <1>2, <2>0, <2>a DEF Settled, Found, ScopesSeen
  <2>2. ASSUME NEW t \in todo[r], Ensured(r, t),
               PostMissing(r, t) \/ KeepExisting(r, t) \/ (PutPending(r) /\ t = pending[r].task)
        PROVE  /\ Settled(r) \subseteq Settled(r)'
               /\ \A k \in Settled(r)' \ Settled(r) : k \in Held' <=> k \in DesiredKeys(r)
    <3> DEFINE k0 == TaskKey(user[r], t)
    <3>1. /\ pc[r] # "listRoleBindings" /\ pc'[r] = "reconcile"
          /\ todo'[r] = todo[r] \ {t} /\ existing'[r] = existing[r] \ Matching(r, t)
      BY <1>0, <2>2 DEF Ensured, PostMissing, KeepExisting, PutPending, GoTo, LoginTypeOK
    <3>2. t \in desired[r] /\ t \in Task /\ Supported(t.item) /\ user[r] \in Users
      BY <1>0, <1>2, DesiredType DEF LoginInv, Asked, Sourced, Resting
    <3>3. k0 \in Key /\ k0 \in DesiredKeys(r)
      BY <3>2, TaskKeyType DEF DesiredKeys, TaskKeys
    <3>4. \A e \in Matching(r, t) : e.key = k0
      BY <1>0, <3>2, MatchingKey
    <3>5. /\ ListedKeys(r)' \subseteq ListedKeys(r)
          /\ ListedKeys(r) \subseteq ListedKeys(r)' \cup {k0}
      <4> HIDE DEF k0
      <4> QED BY <3>1, <3>4 DEF ListedKeys
    <3>6. DoneKeys(r)' = DoneKeys(r) \cup {k0}
      BY <1>2, <3>1, <3>2 DEF DoneKeys, TaskKeys
    <3>7. k0 \in Held' \/ k0 \in ListedKeys(r)
      <4>1. CASE KeepExisting(r, t)
        <5>1. PICK e \in Matching(r, t) : TRUE
          BY <4>1 DEF KeepExisting
        <5> QED BY <3>4, <5>1 DEF ListedKeys, Matching
      <4>2. CASE PostMissing(r, t)
        <5>1. NewBinding(user[r], t.item.name) \in Binding
          BY <3>2 DEF NewBinding, Binding, Task, Item
        <5>2. bindings'[k0] # None
          BY <1>0, <3>3, <4>2, <5>1, NoneAssumption DEF PostMissing, PostBinding, StoreTypeOK
        <5> QED BY <3>3, <5>2, HeldIs
      <4>3. CASE PutPending(r) /\ t = pending[r].task
        <5>1. bindings'[k0] # None
          BY <1>0, <3>3, <4>3, PendingType, NoneAssumption DEF PutPending, PutBinding, StoreTypeOK
        <5> QED BY <3>3, <5>1, HeldIs
      <4> QED BY <2>2, <4>1, <4>2, <4>3
    <3> HIDE DEF k0
    <3> QED BY <2>a, <3>1, <3>3, <3>5, <3>6, <3>7
  <2>3. CASE UNCHANGED <<todo, existing>> /\ Late
    <3>1. ListedKeys(r)' = ListedKeys(r) /\ DoneKeys(r)' = DoneKeys(r)
      BY <1>2, <2>3 DEF ListedKeys, DoneKeys
    <3> QED BY <2>3, <2>a, <3>1
  <2>4. ASSUME NEW e \in Unused(r), DeleteBinding(e.key),
               existing' = [existing EXCEPT ![r] = @ \ {e}],
               UNCHANGED <<pc, todo>>, pc[r] # "listRoleBindings"
        PROVE  /\ Settled(r) \subseteq Settled(r)'
               /\ \A k \in Settled(r)' \ Settled(r) : k \in Held' <=> k \in DesiredKeys(r)
    <3>1. existing'[r] = existing[r] \ {e} /\ e \in existing[r] /\ todo[r] = {} /\ pc[r] = "reconcile"
      BY <1>0, <2>4 DEF LoginTypeOK, Unused
    <3>2. e.key \notin DesiredKeys(r)
      BY <1>0, <3>1 DEF LoginInv, DoneItemsKept, DesiredKeys, TaskKeys
    <3>3. e.key \notin Held'
      BY <1>0, <2>4, HeldIs DEF DeleteBinding, StoreTypeOK
    <3>4. /\ ListedKeys(r)' \subseteq ListedKeys(r)
          /\ ListedKeys(r) \subseteq ListedKeys(r)' \cup {e.key}
      BY <3>1 DEF ListedKeys
    <3>5. DoneKeys(r)' = DoneKeys(r)
      BY <1>2, <2>4 DEF DoneKeys
    <3> QED BY <2>4, <2>a, <3>2, <3>3, <3>4, <3>5
  <2>5. PutPending(r) => pending[r].task \in todo[r]
    BY PendingType
  <2>6. ~ListClusterRoleBindings(r)
    BY <1>2 DEF ListClusterRoleBindings
  <2> QED BY <2>1, <2>2, <2>3, <2>4, <2>5, <2>6, ReconcilingSteps DEF MoveOf
<1> QED BY <1>1, <1>2, ReconcilingSteps DEF MoveOf, ListClusterRoleBindings

-----------------------------------------------------------------------------
(* Each step of a login is one of AccessPolicy's, or changes nothing there. *)

LEMMA ArrivePolicy ==
  ASSUME IInv, IInv', NEW r \in Requests, NEW u \in Users, Arrive(r, u)
  PROVE  Policy!Begin(r, u)
<1>0. LoginTypeOK /\ LoginInv(r)
  BY DEF IInv, TypeOK
<1>1. /\ pc[r] \in Resting /\ pc'[r] = "getAccount" /\ user' = [user EXCEPT ![r] = u]
      /\ desired' = desired /\ desired[r] = {} /\ UNCHANGED store
  BY <1>0 DEF Arrive, GoTo, LoginTypeOK, LoginInv, Sourced
<1>2. Held' = Held
  BY <1>1 DEF Held, Managed, Listed, store
<1>3. \A s \in Requests \ {r} : ViewOf(s)' = ViewOf(s)
  BY OtherLogins, SameView DEF MoveOf
<1>4. Phases[r] \in Policy!Ended /\ PhaseOf(r)' = "preparing"
  BY <1>1 DEF Phases, PhaseOf, Preparing, Resting, Policy!Ended
<1>5. /\ DesiredKeys(r)' = DesiredKeys(r) /\ Settled(r)' = Settled(r)
      /\ Wanteds[r] = DesiredKeys(r) /\ Settleds[r] = Settled(r)
  <2>1. pc[r] \notin Reconciling /\ pc'[r] \notin Reconciling
    BY <1>1 DEF Resting, Reconciling
  <2> QED BY <1>1, <2>1, NothingSettled, NothingDesired DEF Wanteds, Settleds
<1>6. /\ Wanteds' = [Wanteds EXCEPT ![r] = Wanteds[r]]
      /\ Settleds' = [Settleds EXCEPT ![r] = Settleds[r]]
      /\ Phases' = [Phases EXCEPT ![r] = "preparing"]
  BY <1>3, <1>4, <1>5, ViewStep
<1>7. Wanteds' = Wanteds /\ Settleds' = Settleds
  BY <1>6 DEF Wanteds, Settleds
<1> QED BY <1>1, <1>2, <1>4, <1>6, <1>7 DEF Policy!Begin

LEMMA PreparePolicy ==
  ASSUME IInv, IInv', OwnInv, OwnInv', CourseInv, drifts = 0, drifts' = 0,
         NEW r \in Requests, LoginStep(r) \/ LoginFails(r),
         pc'[r] \notin Resting, LDAPEnabled => pc'[r] \notin Reconciling
  PROVE  Policy!Decide(r) \/ UNCHANGED <<Held, Phases, user, Wanteds, Settleds>>
<1>0. LoginTypeOK /\ LoginInv(r) /\ Told(r)
  BY DEF IInv, TypeOK, CourseInv
<1>1. /\ bindings' = bindings /\ user'[r] = user[r]
      /\ \/ pc[r] \in Preparing /\ pc'[r] \in Preparing
         \/ pc[r] = "getBindings" /\ Learn(r, cache[ServedBy[r]])
         \/ ~LDAPEnabled /\ pc[r] \in Preparing /\ pc'[r] = "reconcile" /\ desired'[r] = {}
  BY PreparingSteps
<1>2. Held' = Held
  BY <1>1, HeldIs
<1>3. \A s \in Requests \ {r} : ViewOf(s)' = ViewOf(s)
  BY OtherLogins, SameView DEF MoveOf
<1>4. pc[r] \in Preparing /\ pc[r] \notin Reconciling /\ Settled(r) = {} /\ desired[r] = {}
  <2>1. pc[r] \in Preparing
    BY <1>1 DEF Preparing
  <2>2. pc[r] \notin Reconciling
    BY <2>1 DEF Preparing, Reconciling
  <2> QED BY <1>0, <2>1, <2>2, NothingSettled DEF LoginInv, Sourced
<1>5. Settled(r)' = {}
  BY NothingSettled
<1>6. CASE pc[r] \in Preparing /\ pc'[r] \in Preparing
  <2>1. desired'[r] = {}
    BY <1>6 DEF IInv, LoginInv, Sourced
  <2>2. PhaseOf(r)' = PhaseOf(r)
    BY <1>6 DEF PhaseOf, Preparing, Resting
  <2>3. DesiredKeys(r)' = DesiredKeys(r)
    BY <1>4, <2>1, NothingDesired
  <2>4. \A s \in Requests : ViewOf(s)' = ViewOf(s)
    BY <1>1, <1>3, <1>4, <1>5, <2>2, <2>3 DEF ViewOf
  <2> QED BY <1>2, <2>4, ViewsStutter
<1>7. ASSUME pc'[r] \notin Resting \cup Preparing, NEW wants,
             wants \in IF LDAPEnabled THEN [u \in Users |-> MayAsk(u)][user[r]] ELSE {{}},
             DesiredKeys(r)' = wants
      PROVE  Policy!Decide(r)
  <2>1. Phases[r] = "preparing" /\ PhaseOf(r)' = "enforcing"
    BY <1>4, <1>7 DEF Phases, PhaseOf, Preparing, Resting
  <2>2. /\ Phases' = [Phases EXCEPT ![r] = "enforcing"]
        /\ Wanteds' = [Wanteds EXCEPT ![r] = wants]
        /\ user' = [user EXCEPT ![r] = user[r]]
        /\ Settleds' = [Settleds EXCEPT ![r] = Settleds[r]]
    BY <1>1, <1>3, <1>4, <1>5, <1>7, <2>1, ViewStep DEF Settleds
  <2>3. user' = user /\ Settleds' = Settleds
    BY <1>0, <2>2 DEF LoginTypeOK, Settleds
  <2> QED BY <1>2, <1>7, <2>1, <2>2, <2>3 DEF Policy!Decide
<1>8. CASE pc[r] = "getBindings" /\ Learn(r, cache[ServedBy[r]])
  <2> DEFINE lgbs == cache[ServedBy[r]]
  <2>1. lgbs \in BindingSets
    BY ReplicaAssumption DEF IInv, TypeOK
  <2> HIDE DEF lgbs
  <2>2. desired'[r] = Tasks(lgbs, groups[r]) /\ pc'[r] = "listClusterRoleBindings"
    BY <1>0, <1>8 DEF Learn, GoTo, LoginTypeOK, lgbs
  <2>3. user[r] \in Users
    BY <1>0, <1>8 DEF LoginInv, Asked, Resting
  <2>4. DesiredKeys(r)' = TaskKeys(user[r], Tasks(lgbs, groups[r]))
    BY <1>1, <2>2 DEF DesiredKeys
  <2>5. DesiredKeys(r)' \in MayAsk(user[r])
    BY <1>0, <1>8, <2>1, <2>4 DEF Told, MayAsk
  <2>6. LDAPEnabled
    BY <1>8 DEF CourseInv, Plain, Resting
  <2> QED BY <1>7, <2>2, <2>3, <2>5, <2>6 DEF Resting, Preparing
<1>9. CASE ~LDAPEnabled /\ pc'[r] = "reconcile" /\ desired'[r] = {}
  BY <1>7, <1>9, NothingDesired DEF Resting, Preparing
<1> QED BY <1>1, <1>6, <1>8, <1>9

LEMMA EnforcePolicy ==
  ASSUME IInv, IInv', OwnInv, OwnInv', CourseInv, drifts = 0, drifts' = 0, OneNamespacePerRole, LDAPEnabled,
         NEW r \in Requests, LoginStep(r) \/ LoginFails(r), pc'[r] \in Reconciling
  PROVE  Policy!Enforce(r)
<1>0. LoginTypeOK
  BY DEF IInv, TypeOK
<1>1. /\ pc[r] \in Reconciling \cup {"listClusterRoleBindings"}
      /\ user'[r] = user[r] /\ desired'[r] = desired[r]
      /\ Settled(r) \subseteq Settled(r)'
      /\ \A k \in Settled(r)' \ Settled(r) : k \in Held' <=> k \in DesiredKeys(r)
  BY EnforcingStep
<1>2. Phases[r] = "enforcing" /\ PhaseOf(r)' = "enforcing"
  BY <1>1 DEF Phases, PhaseOf, Resting, Preparing, Reconciling
<1>3. Policy!Give(r) \/ Policy!Take(r) \/ UNCHANGED Held
  <2>1. CASE bindings' = bindings
    BY <2>1, HeldIs
  <2>2. CASE bindings' # bindings
    BY <2>2, LoginWrites, WritesEnforce
  <2> QED BY <2>1, <2>2
<1>4. \A s \in Requests \ {r} : ViewOf(s)' = ViewOf(s)
  BY OtherLogins, SameView DEF MoveOf
<1>5. /\ Phases' = [Phases EXCEPT ![r] = "enforcing"]
      /\ user' = [user EXCEPT ![r] = user[r]]
      /\ Wanteds' = [Wanteds EXCEPT ![r] = DesiredKeys(r)']
      /\ Settleds' = [Settleds EXCEPT ![r] = Settled(r)']
  BY <1>1, <1>2, <1>4, ViewStep
<1>6. Phases' = Phases /\ user' = user /\ Wanteds' = Wanteds
  <2>1. DesiredKeys(r)' = Wanteds[r]
    BY <1>1 DEF DesiredKeys, Wanteds
  <2> QED BY <1>0, <1>2, <1>5, <2>1 DEF Phases, Wanteds, LoginTypeOK
<1> DEFINE seen == Settled(r)' \ Settled(r)
<1>7. seen \in SUBSET (Policy!Right(r, Held') \ Settleds[r])
  <2>1. \A k \in seen : k \in Key /\ k.name.user = user[r]
    BY <1>1 DEF Settled
  <2>2. Wanteds[r] = DesiredKeys(r) /\ Settleds[r] = Settled(r)
    BY DEF Wanteds, Settleds
  <2> QED BY <1>1, <2>1, <2>2 DEF Policy!Right, Policy!Own
<1>8. Settleds' = [Settleds EXCEPT ![r] = @ \cup seen]
  <2>1. Settled(r)' = Settleds[r] \cup seen
    BY <1>1 DEF Settleds
  <2> QED BY <1>5, <2>1
<1> HIDE DEF seen
<1>9. Policy!Observe(r)
  BY <1>6, <1>7, <1>8 DEF Policy!Observe
<1> QED BY <1>2, <1>3, <1>9 DEF Policy!Enforce

LEMMA EndPolicy ==
  ASSUME IInv, IInv', OwnInv, OwnInv', CourseInv, drifts = 0, drifts' = 0,
         NEW r \in Requests, LoginStep(r) \/ LoginFails(r), pc'[r] \in Resting
  PROVE  Policy!Enforce(r) \/ Policy!Refuse(r) \/ Policy!Issue(r)
<1>0. LoginTypeOK /\ LoginInv(r)
  BY DEF IInv, TypeOK
<1>1. pc[r] \notin Resting
  BY EndingSteps
<1>2. PICK status \in {"ok", "unauthorized", "failed"} :
        Finish(r, status) /\ (status = "ok" => IssueToken(r))
  BY EndingSteps
<1>3. Policy!End(r, IF status = "ok" THEN "issued" ELSE "refused")
  BY <1>2, EndView
<1>4. Phases[r] \notin Policy!Ended
  BY <1>1 DEF Phases, PhaseOf, Resting, Policy!Ended
<1>5. CASE status # "ok" /\ bindings' = bindings
  BY <1>3, <1>4, <1>5, HeldIs DEF Policy!Refuse
<1>6. CASE status # "ok" /\ bindings' # bindings
  <2>1. /\ LDAPEnabled /\ pc[r] \in Reconciling
        /\ Policy!Give(r) \/ Policy!Take(r) \/ UNCHANGED Held
    BY <1>6, LoginWrites, WritesEnforce
  <2>2. Phases[r] = "enforcing"
    BY <2>1 DEF Phases, PhaseOf, Resting, Preparing, Reconciling
  <2> QED BY <1>3, <1>6, <2>1, <2>2 DEF Policy!Enforce
<1>7. CASE status = "ok"
  <2>1. Reconciled(r) /\ UNCHANGED store
    BY <1>2, <1>7 DEF IssueToken
  <2>2. pc[r] = "reconcile" /\ todo[r] = {} /\ existing[r] = {} /\ Held' = Held
    BY <2>1 DEF Reconciled, Held, Managed, Listed, store
  <2>3. Phases[r] = "enforcing"
    BY <2>2 DEF Phases, PhaseOf, Resting, Preparing
  <2>4. ASSUME LDAPEnabled PROVE Settleds[r] = Policy!Own(user[r])
    <3>1. ListedKeys(r) = {} /\ DoneKeys(r) = DesiredKeys(r) /\ ScopesSeen(r) = Scopes
      BY <2>2 DEF ListedKeys, DoneKeys, DesiredKeys, ScopesSeen
    <3>2. Found(r) = DesiredKeys(r)
      BY <2>2, <3>1 DEF Found
    <3>3. Settled(r) = {k \in Key : k.name.user = user[r]}
      BY <2>2, <2>4, <3>1, <3>2 DEF Settled, Reconciling, Key
    <3> QED BY <3>3 DEF Settleds, Policy!Own
  <2> QED BY <1>3, <1>7, <2>2, <2>3, <2>4 DEF Policy!Issue
<1> QED BY <1>5, <1>6, <1>7

LEMMA NextPolicy ==
  ASSUME MaxDrift = 0, OneNamespacePerRole,
         IInv, IInv', OwnInv, OwnInv', CourseInv, [Next]_vars
  PROVE  [Policy!Next]_<<Held, Phases, user, Wanteds, Settleds>>
<1>0. drifts = 0 /\ drifts' = 0
  BY DEF IInv, TypeOK
<1>1. ASSUME NEW r \in Requests, NEW u \in Users, Arrive(r, u) PROVE Policy!Next
  BY <1>1, ArrivePolicy DEF Policy!Next
<1>2. ASSUME NEW r \in Requests, LoginStep(r) \/ LoginFails(r)
      PROVE  [Policy!Next]_<<Held, Phases, user, Wanteds, Settleds>>
  <2>1. CASE pc'[r] \in Resting
    BY <1>0, <1>2, <2>1, EndPolicy DEF Policy!Next
  <2>2. CASE LDAPEnabled /\ pc'[r] \in Reconciling
    BY <1>0, <1>2, <2>2, EnforcePolicy DEF Policy!Next
  <2>3. CASE pc'[r] \notin Resting /\ (LDAPEnabled => pc'[r] \notin Reconciling)
    BY <1>0, <1>2, <2>3, PreparePolicy DEF Policy!Next
  <2> QED BY <2>1, <2>2, <2>3
<1>3. CASE Environment \/ UNCHANGED vars
  <2>1. UNCHANGED <<pc, locals, bindings>>
    BY <1>0, <1>3 DEF Environment, DirectoryChanges, CacheChanges, AdminWritesBinding,
                      AdminDeletesAccount, Drift, vars, store
  <2>2. \A s \in Requests : ViewOf(s)' = ViewOf(s)
    BY <2>1, SameView DEF LocalsOf, locals
  <2>3. Held' = Held
    BY <1>0, <2>1, HeldIs
  <2> QED BY <2>2, <2>3, ViewsStutter
<1> QED BY <1>1, <1>2, <1>3 DEF Next

(***************************************************************************)
(* The service implements AccessPolicy, as long as nobody but the service  *)
(* writes bindings and no Role is listed in different namespaces: however  *)
(* many logins overlap and wherever calls fail, a token is issued only to  *)
(* a login that has found each binding of its account present if wanted    *)
(* and absent if not (AuthAccount).                                        *)
(***************************************************************************)
THEOREM Implementation ==
  ASSUME MaxDrift = 0, OneNamespacePerRole
  PROVE  Spec => ImplementsAccessPolicy
<1>1. Spec => [](IInv /\ OwnInv /\ CourseInv)
  <2>1. Init => IInv /\ OwnInv /\ CourseInv
    BY InitIInv, InitOwnInv, InitCourseInv
  <2>2. IInv /\ OwnInv /\ CourseInv /\ [Next]_vars => (IInv /\ OwnInv /\ CourseInv)'
    BY NextIInv, NextOwnInv, NextCourseInv, NextIsOpen
  <2> QED BY <2>1, <2>2, PTL DEF Spec
<1>2. IInv /\ OwnInv /\ CourseInv /\ (IInv /\ OwnInv)' /\ [Next]_vars => [Policy!Next]_Policy!vars
  BY NextPolicy DEF Policy!vars
<1> QED BY <1>1, <1>2, InitPolicy, PTL DEF Spec, ImplementsAccessPolicy, Policy!Spec

-----------------------------------------------------------------------------
(* What the service has from the promise it keeps. *)

LEMMA BindingsHaveOwners == Policy!GrantsHaveOwners
<1>1. ASSUME NEW k \in Key PROVE k.name.user \in Users
  BY <1>1 DEF Key, BindingName
<1>2. ASSUME NEW u \in Users, NEW wants \in MayAsk(u), NEW k \in wants
      PROVE  k \in Key /\ k.name.user = u
  <2>1. PICK lgbs \in BindingSets, d \in Directories : wants = TaskKeys(u, Tasks(lgbs, d[u].groups))
    BY <1>2 DEF MayAsk
  <2>2. PICK t \in Tasks(lgbs, d[u].groups) : k = TaskKey(u, t)
    BY <1>2, <2>1 DEF TaskKeys
  <2> QED
    BY <1>2, <2>1, <2>2, TasksType, TaskKeyType DEF TaskKey, TaskName, GenBindingName
<1> QED
  BY <1>1, <1>2 DEF Policy!GrantsHaveOwners

(***************************************************************************)
(* Under the same assumptions, what a login has ensured or found absent    *)
(* (ensure... and removeUnused...) stays so, unless a login of the same    *)
(* account that wants other bindings overlaps: a consequence of what       *)
(* AccessPolicy promises, and of Implementation.                           *)
(***************************************************************************)
THEOREM ServiceRivalsOnly ==
  ASSUME MaxDrift = 0, OneNamespacePerRole
  PROVE  Spec => OnlyRivalsUnsettle
<1>1. Spec => Policy!Spec
  BY Implementation DEF ImplementsAccessPolicy
<1>2. Policy!Spec => Policy!OnlyRivalsUnsettle
  BY Policy!RivalsOnly, BindingsHaveOwners
<1> QED
  BY <1>1, <1>2, PTL DEF OnlyRivalsUnsettle

=============================================================================
