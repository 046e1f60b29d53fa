-------------------------- MODULE KerbernetesProofs --------------------------
(***************************************************************************)
(* Proofs about Kerbernetes, for every value of its constants.  What is    *)
(* proved of its components, with each of them as a part of a program, is  *)
(* put together to what a login that overlaps with the informer's handlers *)
(* reconciles towards.                                                     *)
(***************************************************************************)
EXTENDS Kerbernetes, TLAPS

(* The two components again, with what is proved about them. *)

ServiceP == INSTANCE BindingCacheProofs WITH
  Readers <- Requests, MaxChanges <- MaxObjectChanges, changes <- versions

AuthP == INSTANCE AuthServiceExactness WITH
  LgbNames <- Names, LDAPEnabled <- TRUE,
  Replicas <- {Process}, ServedBy <- [r \in Requests |-> Process],
  Directories <- {Directory}, directory <- Directory,
  BindingSets <- SUBSET Read(Pointers), cache <- [p \in {Process} |-> Read(Cached)],
  AdminWrites <- {}, MaxChanges <- 0, MaxFaults <- 0, MaxDrift <- 0,
  changes <- 0, faults <- 0, drifts <- 0

-----------------------------------------------------------------------------
(* The components' assumptions hold of the program. *)

LEMMA ServiceAssumptions == ServiceP!NamesAssumption /\ ServiceP!BoundAssumption
BY BoundAssumption DEF BoundAssumption, ServiceP!NamesAssumption, ServiceP!BoundAssumption,
                       IsFiniteSet, ServiceP!IsFiniteSet

LEMMA ObjectsFit == Read(Pointers) \subseteq AuthP!LdapGroupBinding
<1>1. Auth!Item = AuthP!Item
  BY DEF Auth!Item, AuthP!Item
<1>2. \A p \in Pointers : Object(p) \in AuthP!LdapGroupBinding
  BY <1>1, ContentAssumption DEF ContentAssumption, AuthP!LdapGroupBinding
<1> QED
  BY <1>2 DEF Read

LEMMA AuthAssumptions ==
  /\ AuthP!ScopeAssumption /\ AuthP!NoneAssumption /\ AuthP!ReplicaAssumption
  /\ AuthP!WorldAssumption /\ AuthP!BoundAssumption
<1>1. AuthP!ScopeAssumption /\ AuthP!NoneAssumption /\ AuthP!ReplicaAssumption /\ AuthP!BoundAssumption
  BY StoreAssumption
     DEF AuthP!ScopeAssumption, AuthP!NoneAssumption, AuthP!ReplicaAssumption, AuthP!BoundAssumption,
         AuthP!Scopes, Auth!Scopes, AuthP!Binding, Auth!Binding
<1>2. AuthP!WorldAssumption
  <2>1. {Directory} \subseteq [Users -> AuthP!DirectoryEntry]
    BY DirectoryAssumption DEF AuthP!DirectoryEntry, Auth!DirectoryEntry
  <2>2. SUBSET Read(Pointers) \subseteq SUBSET AuthP!LdapGroupBinding
    BY ObjectsFit
  <2> QED
    BY <2>1, <2>2 DEF AuthP!WorldAssumption
<1> QED
  BY <1>1, <1>2

-----------------------------------------------------------------------------
(* The instances Kerbernetes is built from and the ones with the proofs    *)
(* say the same, once everything they say is spelled out.                  *)

LEMMA SameService ==
  /\ Service!vars = ServiceP!vars
  /\ Service!Init <=> ServiceP!Init
  /\ Service!WatchDelivers <=> ServiceP!WatchDelivers
  /\ Service!WatchLost <=> ServiceP!WatchLost
  /\ Service!Relist <=> ServiceP!Relist
  /\ Service!HandleAdd <=> ServiceP!HandleAdd
  /\ Service!HandleUpdate <=> ServiceP!HandleUpdate
  /\ Service!HandleDelete <=> ServiceP!HandleDelete
  /\ Service!HandleTombstone <=> ServiceP!HandleTombstone
  /\ Service!Restart <=> ServiceP!Restart
  /\ \A n \in Names : Service!ObjectChanges(n) <=> ServiceP!ObjectChanges(n)
  /\ \A r \in Requests :
       /\ Service!GetBindings(r) <=> ServiceP!GetBindings(r)
       /\ Service!ReadNext(r) <=> ServiceP!ReadNext(r)
       /\ Service!EndWalk(r) <=> ServiceP!EndWalk(r)
BY SMT DEF
    Service!vars, ServiceP!vars, Service!server, ServiceP!server, Service!informer,
    ServiceP!informer, Service!Init, ServiceP!Init, Service!NoObjects, ServiceP!NoObjects,
    Service!NoWalk, ServiceP!NoWalk, Service!ObjectChanges, ServiceP!ObjectChanges,
    Service!Difference, ServiceP!Difference, Service!Notification, ServiceP!Notification,
    Service!WatchDelivers, ServiceP!WatchDelivers, Service!WatchLost, ServiceP!WatchLost,
    Service!Relist, ServiceP!Relist, Service!SetToSeqs, ServiceP!SetToSeqs,
    Service!Cardinality, ServiceP!Cardinality, Service!Handle, ServiceP!Handle,
    Service!HandleAdd, ServiceP!HandleAdd, Service!AppendToCache, ServiceP!AppendToCache,
    Service!ArrayFull, ServiceP!ArrayFull, Service!NobodyShares, ServiceP!NobodyShares,
    Service!HandleUpdate, ServiceP!HandleUpdate, Service!Update, ServiceP!Update,
    Service!Positions, ServiceP!Positions, Service!FirstPosition, ServiceP!FirstPosition,
    Service!Unread, ServiceP!Unread, Service!WriteInPlace, ServiceP!WriteInPlace,
    Service!HandleDelete, ServiceP!HandleDelete, Service!Delete, ServiceP!Delete,
    Service!Without, ServiceP!Without, Service!HandleTombstone, ServiceP!HandleTombstone,
    Service!ProcessEnds, ServiceP!ProcessEnds, Service!Restart, ServiceP!Restart,
    Service!GetBindings, ServiceP!GetBindings, Service!ReadNext, ServiceP!ReadNext,
    Service!EndWalk, ServiceP!EndWalk

LEMMA SameAuth ==
  /\ Auth!Init <=> AuthP!Init
  /\ Auth!OneNamespacePerRole <=> AuthP!OneNamespacePerRole
  /\ Auth!Resting = AuthP!Resting /\ Auth!Preparing = AuthP!Preparing /\ Auth!NoUpdate = AuthP!NoUpdate
  /\ \A u, ts : Auth!TaskKeys(u, ts) = AuthP!TaskKeys(u, ts)
  /\ \A u \in Users : Auth!Managed(u) = AuthP!Managed(u)
  /\ \A r \in Requests : Auth!Reconciled(r) <=> AuthP!Reconciled(r)
  /\ \A r \in Requests, u \in Users : Auth!Arrive(r, u) <=> AuthP!Arrive(r, u)
  /\ \A r \in Requests : \A read : Auth!Learn(r, read) <=> AuthP!Learn(r, read)
  /\ \A r \in Requests : Auth!GetAccount(r) <=> AuthP!GetAccount(r)
  /\ \A r \in Requests : Auth!CreateAccount(r) <=> AuthP!CreateAccount(r)
  /\ \A r \in Requests : Auth!GetUser(r) <=> AuthP!GetUser(r)
  /\ \A r \in Requests : Auth!GetUserGroups(r) <=> AuthP!GetUserGroups(r)
  /\ \A r \in Requests : Auth!ListClusterRoleBindings(r) <=> AuthP!ListClusterRoleBindings(r)
  /\ \A r \in Requests : Auth!ListRoleBindings(r) <=> AuthP!ListRoleBindings(r)
  /\ \A r \in Requests : \A t \in todo[r] : Auth!CreateMissing(r, t) <=> AuthP!CreateMissing(r, t)
  /\ \A r \in Requests : \A t \in todo[r] : Auth!KeepExisting(r, t) <=> AuthP!KeepExisting(r, t)
  /\ \A r \in Requests : \A t \in todo[r] : Auth!GetForUpdate(r, t) <=> AuthP!GetForUpdate(r, t)
  /\ \A r \in Requests : Auth!UpdateBinding(r) <=> AuthP!UpdateBinding(r)
  /\ \A r \in Requests : \A e \in existing[r] : Auth!RemoveUnused(r, e) <=> AuthP!RemoveUnused(r, e)
  /\ \A r \in Requests : Auth!IssueToken(r) <=> AuthP!IssueToken(r)
BY SMT DEF
    Auth!Init, AuthP!Init, Auth!StoreInit, AuthP!StoreInit, Auth!Key, AuthP!Key,
    Auth!BindingName, AuthP!BindingName, Auth!Scopes, AuthP!Scopes, Auth!Arrive,
    AuthP!Arrive, Auth!GoTo, AuthP!GoTo, Auth!Finish, AuthP!Finish, Auth!store,
    AuthP!store, Auth!world, AuthP!world, Auth!locals, AuthP!locals, Auth!budget,
    AuthP!budget, Auth!vars, AuthP!vars, Auth!NoUpdate, AuthP!NoUpdate, Auth!Resting,
    AuthP!Resting, Auth!Preparing, AuthP!Preparing, Auth!GetAccount, AuthP!GetAccount,
    Auth!AfterUpsert, AuthP!AfterUpsert, Auth!CreateAccount, AuthP!CreateAccount,
    Auth!PostAccount, AuthP!PostAccount, Auth!GetUser, AuthP!GetUser, Auth!GetUserGroups,
    AuthP!GetUserGroups, Auth!Learn, AuthP!Learn, Auth!Tasks, AuthP!Tasks, Auth!Supported,
    AuthP!Supported, Auth!ListClusterRoleBindings, AuthP!ListClusterRoleBindings,
    Auth!Snapshot, AuthP!Snapshot, Auth!GetClusterRoleBindings,
    AuthP!GetClusterRoleBindings, Auth!Listed, AuthP!Listed, Auth!Rivals, AuthP!Rivals,
    Auth!Reconciling, AuthP!Reconciling, Auth!ListRoleBindings, AuthP!ListRoleBindings,
    Auth!GetRoleBindings, AuthP!GetRoleBindings, Auth!LastByName, AuthP!LastByName,
    Auth!CreateMissing, AuthP!CreateMissing, Auth!PostMissing, AuthP!PostMissing,
    Auth!NextTasks, AuthP!NextTasks, Auth!Matching, AuthP!Matching, Auth!TaskName,
    AuthP!TaskName, Auth!TaskScope, AuthP!TaskScope, Auth!TaskKey, AuthP!TaskKey,
    Auth!GenBindingName, AuthP!GenBindingName, Auth!ValidGroup, AuthP!ValidGroup,
    Auth!RbacGroup, AuthP!RbacGroup, Auth!PostBinding, AuthP!PostBinding, Auth!NewBinding,
    AuthP!NewBinding, Auth!Ensured, AuthP!Ensured, Auth!KeepExisting, AuthP!KeepExisting,
    Auth!UpToDate, AuthP!UpToDate, Auth!GetForUpdate, AuthP!GetForUpdate,
    Auth!UpdateBinding, AuthP!UpdateBinding, Auth!PutPending, AuthP!PutPending,
    Auth!PutBinding, AuthP!PutBinding, Auth!Amended, AuthP!Amended, Auth!AmendedOf,
    AuthP!AmendedOf, Auth!RemoveUnused, AuthP!RemoveUnused, Auth!Unused, AuthP!Unused,
    Auth!DeleteBinding, AuthP!DeleteBinding, Auth!IssueToken, AuthP!IssueToken,
    Auth!Reconciled, AuthP!Reconciled, Auth!Managed, AuthP!Managed, Auth!TaskKeys,
    AuthP!TaskKeys, Auth!OneNamespacePerRole, AuthP!OneNamespacePerRole

-----------------------------------------------------------------------------
(* The cache of the program is the service's, logins or not. *)

LEMMA CacheSteps == [Next]_vars => [Service!Next]_(Service!vars)
<1> SUFFICES ASSUME [Next]_vars PROVE [Service!Next]_(Service!vars)
  OBVIOUS
<1>1. UNCHANGED lgbs => UNCHANGED Service!vars
  BY DEF lgbs, Service!vars, Service!server, Service!informer
<1>2. CASE UNCHANGED vars \/ (\E r \in Requests, u \in Users : Arrive(r, u))
           \/ \E r \in Requests : Call(r)
  BY <1>1, <1>2 DEF vars, Arrive, Call
<1>3. CASE \E r \in Requests : TakeSlice(r) \/ WalkOn(r) \/ EndWalk(r)
  BY <1>3 DEF TakeSlice, WalkOn, EndWalk, Service!Next
<1>4. CASE Relist \/ WatchDelivers \/ WatchLost \/ Handle \/ HandleTombstone \/ Restart
           \/ \E n \in Names : ObjectChanges(n)
  BY <1>4 DEF Relist, WatchDelivers, WatchLost, Handle, HandleTombstone, Restart, ObjectChanges,
              Service!Next, Service!HandleNext
<1> QED
  BY <1>2, <1>3, <1>4 DEF Next, LoginStep

LEMMA SameServiceSteps == [Service!Next]_(Service!vars) => [ServiceP!Next]_(ServiceP!vars)
<1>1. Service!Next <=> ServiceP!Next
  BY SameService DEF Service!Next, ServiceP!Next, Service!HandleNext, ServiceP!HandleNext
<1>2. UNCHANGED Service!vars => UNCHANGED ServiceP!vars
  BY DEF Service!vars, Service!server, Service!informer, ServiceP!vars, ServiceP!server, ServiceP!informer
<1> QED
  BY <1>1, <1>2

CacheOK == ServiceP!IInv /\ ServiceP!VersionsInv

LEMMA InitCacheOK == Init => CacheOK
BY SameService, ServiceAssumptions, ServiceP!InitIInv, ServiceP!InitVersions DEF Init, CacheOK

LEMMA NextCacheOK == CacheOK /\ [Next]_vars => CacheOK'
BY CacheSteps, SameServiceSteps, ServiceAssumptions, ServiceP!NextKeeps, ServiceP!NextVersions DEF CacheOK

(* The elements of a slice. *)
Elements(s) == {s[i] : i \in DOMAIN s}

LEMMA ElementsOf == \A s : ServiceP!ToSet(s) = Elements(s)
BY DEF ServiceP!ToSet, Elements

LEMMA CachedFits == CacheOK => Cached \subseteq Pointers
<1> SUFFICES ASSUME CacheOK PROVE Cached \subseteq Pointers
  OBVIOUS
<1>1. versions \in 1 .. MaxObjectChanges + 1 /\ cache \in Seq(ServiceP!Pointer)
  BY DEF CacheOK, ServiceP!IInv, ServiceP!TypeOK
<1>2. ASSUME NEW i \in DOMAIN cache PROVE cache[i] \in Pointers
  <2>1. cache[i] \in ServiceP!Pointer
    BY <1>1
  <2>2. cache[i].version # 0
    BY DEF CacheOK, ServiceP!IInv, ServiceP!CacheInv, ServiceP!Orderly
  <2>3. cache[i].version <= versions
    BY ElementsOf DEF CacheOK, ServiceP!VersionsInv, Elements
  <2> QED
    BY <1>1, <2>1, <2>2, <2>3, BoundAssumption DEF BoundAssumption, Pointers, ServiceP!Pointer
<1> QED
  BY <1>2 DEF Cached

-----------------------------------------------------------------------------
(* What the logins' histories say of the cache and of their walks. *)

(* A login that prepares has in kept what stayed cached since its arrival, *)
(* and in offered all that was; its walk will have read at least the one   *)
(* and at most the other.                                                  *)
Prepares(r) ==
  pc[r] \in Auth!Preparing =>
    /\ kept[r] \subseteq Cached /\ Cached \subseteq offered[r]
    /\ reader[r].next # 0 => /\ kept[r] \subseteq Elements(reader[r].slice)
                             /\ Elements(reader[r].slice) \subseteq offered[r]

WalksPrepared(r) == reader[r].next # 0 => pc[r] = "getBindings"

(* What a login reconciles towards is what such a walk read. *)
Learnt(r) ==
  pc[r] \notin Auth!Preparing \cup Auth!Resting =>
    \E read \in SUBSET offered[r] :
      kept[r] \subseteq read /\ desired[r] = Auth!Tasks(Read(read), groups[r])

HistoryInv ==
  /\ offered \in [Requests -> SUBSET Pointers]
  /\ kept \in [Requests -> SUBSET Pointers]
  /\ \A r \in Requests : Prepares(r) /\ WalksPrepared(r) /\ Learnt(r)

(* A call moves its login on among the steps that prepare, or among those  *)
(* that reconcile, where it keeps what it learnt, or it ends it.           *)
LEMMA CallMoves ==
  ASSUME AuthP!IInv, NEW r \in Requests, Call(r)
  PROVE  /\ \A s \in Requests \ {r} :
              pc'[s] = pc[s] /\ groups'[s] = groups[s] /\ desired'[s] = desired[s]
         /\ pc[r] # "getBindings"
         /\ \/ pc'[r] \in Auth!Resting
            \/ pc[r] \in Auth!Preparing /\ pc'[r] \in Auth!Preparing
            \/ /\ pc[r] \notin Auth!Preparing \cup Auth!Resting
               /\ pc'[r] \notin Auth!Preparing \cup Auth!Resting
               /\ groups'[r] = groups[r] /\ desired'[r] = desired[r]
<1> DEFINE Goal ==
      /\ \A s \in Requests \ {r} :
           pc'[s] = pc[s] /\ groups'[s] = groups[s] /\ desired'[s] = desired[s]
      /\ pc[r] # "getBindings"
      /\ \/ pc'[r] \in Auth!Resting
         \/ pc[r] \in Auth!Preparing /\ pc'[r] \in Auth!Preparing
         \/ /\ pc[r] \notin Auth!Preparing \cup Auth!Resting
            /\ pc'[r] \notin Auth!Preparing \cup Auth!Resting
            /\ groups'[r] = groups[r] /\ desired'[r] = desired[r]
<1>0. DOMAIN pc = Requests /\ DOMAIN groups = Requests /\ DOMAIN desired = Requests
  BY DEF AuthP!IInv, AuthP!TypeOK, AuthP!LoginTypeOK
<1> USE DEF Auth!Resting, Auth!Preparing, Auth!GoTo, Auth!Finish, Auth!locals
<1>1. CASE Auth!GetAccount(r) \/ Auth!CreateAccount(r)
  BY <1>0, <1>1 DEF Auth!GetAccount, Auth!CreateAccount, Auth!AfterUpsert
<1>2. CASE Auth!GetUser(r) \/ Auth!GetUserGroups(r)
  BY <1>0, <1>2 DEF Auth!GetUser, Auth!GetUserGroups
<1>3. CASE Auth!ListClusterRoleBindings(r) \/ Auth!ListRoleBindings(r)
  BY <1>0, <1>3 DEF Auth!ListClusterRoleBindings, Auth!ListRoleBindings
<1>4. ASSUME NEW t \in todo[r], Auth!CreateMissing(r, t) \/ Auth!KeepExisting(r, t) \/ Auth!GetForUpdate(r, t)
      PROVE  Goal
  BY <1>0, <1>4 DEF Auth!CreateMissing, Auth!PostMissing, Auth!KeepExisting, Auth!GetForUpdate, Auth!Ensured
<1>5. CASE Auth!UpdateBinding(r)
  BY <1>0, <1>5 DEF Auth!UpdateBinding, Auth!PutPending, Auth!Ensured
<1>6. ASSUME NEW e \in existing[r], Auth!RemoveUnused(r, e) PROVE Goal
  BY <1>0, <1>6 DEF Auth!RemoveUnused, Auth!Unused
<1>7. CASE Auth!IssueToken(r)
  BY <1>0, <1>7 DEF Auth!IssueToken, Auth!Reconciled
<1> QED
  BY <1>1, <1>2, <1>3, <1>4, <1>5, <1>6, <1>7 DEF Call

LEMMA InitHistory == Init => HistoryInv
<1> SUFFICES ASSUME Init PROVE HistoryInv
  OBVIOUS
<1>1. \A r \in Requests : pc[r] = "idle" /\ reader[r].next = 0
  BY DEF Init, Auth!Init, Service!Init, Service!NoWalk
<1> QED
  BY <1>1 DEF Init, HistoryInv, Prepares, WalksPrepared, Learnt, Auth!Preparing, Auth!Resting

(* Steps that leave a login, its histories and its walk alone. *)
LEMMA HistoryKept ==
  ASSUME NEW r \in Requests, Prepares(r), WalksPrepared(r), Learnt(r),
         pc'[r] = pc[r], groups'[r] = groups[r], desired'[r] = desired[r],
         reader'[r] = reader[r], offered'[r] = offered[r], kept'[r] = kept[r], Cached' = Cached
  PROVE  Prepares(r)' /\ WalksPrepared(r)' /\ Learnt(r)'
<1>1. \A ps : Auth!Tasks(Read(ps), groups'[r]) = Auth!Tasks(Read(ps), groups[r])
  OBVIOUS
<1>2. Prepares(r)' /\ WalksPrepared(r)'
  BY DEF Prepares, WalksPrepared, Auth!Preparing
<1>3. Learnt(r)'
  BY <1>1 DEF Learnt, Auth!Preparing, Auth!Resting
<1> QED
  BY <1>2, <1>3

(* A step of the program keeps the histories, as far as the service and    *)
(* the logins do what they are proved to do.                               *)
LEMMA NextHistory == CacheOK /\ CacheOK' /\ AuthP!IInv /\ HistoryInv /\ [Next]_vars => HistoryInv'
<1> SUFFICES ASSUME CacheOK, CacheOK', AuthP!IInv, HistoryInv, [Next]_vars PROVE HistoryInv'
  OBVIOUS
<1>0. /\ DOMAIN pc = Requests /\ DOMAIN groups = Requests /\ DOMAIN desired = Requests
      /\ offered \in [Requests -> SUBSET Pointers] /\ kept \in [Requests -> SUBSET Pointers]
      /\ Cached \subseteq Pointers /\ Cached' \subseteq Pointers
      /\ \A r \in Requests : Prepares(r) /\ WalksPrepared(r) /\ Learnt(r)
  <2>1. (Cached \subseteq Pointers)'
    BY CachedFits, PTL
  <2> QED
    BY <2>1, CachedFits DEF Pointers, HistoryInv, AuthP!IInv, AuthP!TypeOK, AuthP!LoginTypeOK
<1>1. reader \in [Requests -> ServiceP!Walk]
  BY DEF CacheOK, ServiceP!IInv, ServiceP!TypeOK
<1>2. ASSUME UNCHANGED <<pc, groups, desired, history>>, Cached' = Cached, NEW r \in Requests,
             \A s \in Requests \ {r} : reader'[s] = reader[s],
             Prepares(r)' /\ WalksPrepared(r)' /\ Learnt(r)'
      PROVE  HistoryInv'
  <2>1. ASSUME NEW s \in Requests \ {r} PROVE Prepares(s)' /\ WalksPrepared(s)' /\ Learnt(s)'
    BY <1>0, <1>2, HistoryKept DEF history
  <2> QED
    BY <1>0, <1>2, <2>1 DEF HistoryInv, history
<1>3. CASE UNCHANGED vars \/ Relist \/ WatchDelivers \/ WatchLost \/ (\E n \in Names : ObjectChanges(n))
  <2>1. UNCHANGED <<pc, groups, desired, history>> /\ UNCHANGED <<cache, reader>>
    BY <1>3 DEF vars, logins, lgbs, Relist, WatchDelivers, WatchLost, ObjectChanges,
                Service!Relist, Service!WatchDelivers, Service!WatchLost, Service!ObjectChanges
  <2>2. ASSUME NEW r \in Requests PROVE Prepares(r)' /\ WalksPrepared(r)' /\ Learnt(r)'
    BY <1>0, <2>1, HistoryKept DEF history, Cached
  <2> QED
    BY <1>0, <2>1, <2>2 DEF HistoryInv, history
<1>4. ASSUME NEW r \in Requests, NEW u \in Users, Arrive(r, u) PROVE HistoryInv'
  <2>1. /\ pc[r] \in Auth!Resting /\ pc' = [pc EXCEPT ![r] = "getAccount"]
        /\ UNCHANGED <<groups, desired, cache, reader>> /\ Cached' = Cached
        /\ offered' = [offered EXCEPT ![r] = Cached] /\ kept' = [kept EXCEPT ![r] = Cached]
    BY <1>4 DEF Arrive, Auth!Arrive, Auth!GoTo, lgbs, Cached
  <2>2. reader[r].next = 0
    BY <1>0, <2>1 DEF WalksPrepared, Auth!Resting
  <2>3. Prepares(r)' /\ WalksPrepared(r)' /\ Learnt(r)'
    BY <1>0, <2>1, <2>2 DEF Prepares, WalksPrepared, Learnt, Auth!Preparing
  <2>4. ASSUME NEW s \in Requests \ {r} PROVE Prepares(s)' /\ WalksPrepared(s)' /\ Learnt(s)'
    BY <1>0, <2>1, HistoryKept
  <2>5. offered' \in [Requests -> SUBSET Pointers] /\ kept' \in [Requests -> SUBSET Pointers]
    BY <1>0, <2>1
  <2> QED
    BY <2>3, <2>4, <2>5 DEF HistoryInv
<1>5. ASSUME NEW r \in Requests, TakeSlice(r) \/ WalkOn(r) PROVE HistoryInv'
  <2>1. /\ UNCHANGED <<pc, groups, desired, history>> /\ Cached' = Cached /\ cache' = cache
        /\ \A s \in Requests \ {r} : reader'[s] = reader[s]
    BY <1>1, <1>5 DEF TakeSlice, WalkOn, logins, Cached, Service!GetBindings, Service!ReadNext
  <2>2. CASE TakeSlice(r)
    <3>1. pc[r] = "getBindings" /\ reader'[r].slice = cache
      BY <1>1, <2>2 DEF TakeSlice, Service!GetBindings
    <3>2. Elements(reader'[r].slice) = Cached
      BY <3>1 DEF Elements, Cached
    <3>3. WalksPrepared(r)' /\ Learnt(r)'
      BY <2>1, <3>1 DEF WalksPrepared, Learnt, Auth!Preparing
    <3>4. Prepares(r)'
      BY <1>0, <2>1, <3>1, <3>2 DEF Prepares, history, Auth!Preparing
    <3> QED
      BY <1>2, <2>1, <3>3, <3>4
  <2>3. CASE WalkOn(r)
    <3>1. reader[r].next # 0 /\ reader'[r].slice = reader[r].slice
      BY <1>1, <2>3 DEF WalkOn, Service!ReadNext, ServiceP!Walk
    <3>2. pc[r] = "getBindings"
      BY <1>0, <3>1 DEF WalksPrepared
    <3>3. WalksPrepared(r)' /\ Learnt(r)'
      BY <2>1, <3>2 DEF WalksPrepared, Learnt, Auth!Preparing
    <3>4. Prepares(r)'
      BY <1>0, <2>1, <3>1, <3>2 DEF Prepares, history, Auth!Preparing
    <3> QED
      BY <1>2, <2>1, <3>3, <3>4
  <2> QED
    BY <1>5, <2>2, <2>3
<1>6. ASSUME NEW r \in Requests, EndWalk(r) PROVE HistoryInv'
  <2> DEFINE read == Elements(reader[r].slice)
  <2>1. /\ pc[r] = "getBindings" /\ pc' = [pc EXCEPT ![r] = "listClusterRoleBindings"]
        /\ desired' = [desired EXCEPT ![r] = Auth!Tasks(Read(read), groups[r])]
        /\ UNCHANGED <<groups, history>> /\ Cached' = Cached
        /\ reader[r].next # 0 /\ reader' = [reader EXCEPT ![r] = Service!NoWalk]
    <3>1. Len(reader[r].slice) \in Nat
      BY <1>1 DEF ServiceP!Walk
    <3> QED
      BY <1>6, <3>1 DEF EndWalk, Auth!Learn, Auth!GoTo, Service!EndWalk, Elements, Cached
  <2>2. kept[r] \subseteq read /\ read \subseteq offered[r]
    BY <1>0, <2>1 DEF Prepares, Auth!Preparing
  <2>3. WalksPrepared(r)' /\ Prepares(r)'
    BY <1>0, <1>1, <2>1 DEF WalksPrepared, Prepares, Auth!Preparing, Service!NoWalk
  <2> HIDE DEF read
  <2>4. Learnt(r)'
    <3>1. /\ desired'[r] = Auth!Tasks(Read(read), groups[r]) /\ groups'[r] = groups[r]
          /\ kept'[r] = kept[r] /\ offered'[r] = offered[r]
      BY <1>0, <2>1 DEF history
    <3>2. read \in SUBSET offered'[r] /\ kept'[r] \subseteq read
      BY <2>2, <3>1
    <3>3. desired'[r] = Auth!Tasks(Read(read), groups'[r])
      BY <3>1
    <3> QED
      BY <3>2, <3>3 DEF Learnt
  <2>5. ASSUME NEW s \in Requests \ {r} PROVE Prepares(s)' /\ WalksPrepared(s)' /\ Learnt(s)'
    BY <1>0, <1>1, <2>1, HistoryKept DEF history
  <2> QED
    BY <1>0, <2>1, <2>3, <2>4, <2>5 DEF HistoryInv, history
<1>7. ASSUME NEW r \in Requests, Call(r) PROVE HistoryInv'
  <2>1. UNCHANGED <<reader, cache, history>> /\ Cached' = Cached
    BY <1>7 DEF Call, lgbs, Cached
  <2>2. /\ \A s \in Requests \ {r} :
             pc'[s] = pc[s] /\ groups'[s] = groups[s] /\ desired'[s] = desired[s]
        /\ pc[r] # "getBindings"
        /\ \/ pc'[r] \in Auth!Resting
           \/ pc[r] \in Auth!Preparing /\ pc'[r] \in Auth!Preparing
           \/ /\ pc[r] \notin Auth!Preparing \cup Auth!Resting
              /\ pc'[r] \notin Auth!Preparing \cup Auth!Resting
              /\ groups'[r] = groups[r] /\ desired'[r] = desired[r]
    BY <1>7, CallMoves
  <2>3. reader[r].next = 0
    BY <1>0, <2>2 DEF WalksPrepared
  <2>4. WalksPrepared(r)'
    BY <2>1, <2>3 DEF WalksPrepared
  <2>5. Prepares(r)'
    BY <1>0, <2>1, <2>2, <2>3 DEF Prepares, history, Auth!Preparing, Auth!Resting
  <2>6. Learnt(r)'
    <3>1. CASE pc'[r] \in Auth!Preparing \cup Auth!Resting
      BY <3>1 DEF Learnt, Auth!Preparing, Auth!Resting
    <3>2. CASE pc'[r] \notin Auth!Preparing \cup Auth!Resting
      <4>1. PICK read \in SUBSET offered[r] :
              kept[r] \subseteq read /\ desired[r] = Auth!Tasks(Read(read), groups[r])
        BY <1>0, <2>2, <3>2 DEF Learnt
      <4>2. desired'[r] = Auth!Tasks(Read(read), groups'[r])
        BY <2>2, <3>2, <4>1
      <4> QED
        BY <2>1, <4>1, <4>2 DEF Learnt, history
    <3> QED
      BY <3>1, <3>2
  <2>7. ASSUME NEW s \in Requests \ {r} PROVE Prepares(s)' /\ WalksPrepared(s)' /\ Learnt(s)'
    BY <1>0, <2>1, <2>2, HistoryKept DEF history
  <2> QED
    BY <1>0, <2>1, <2>4, <2>5, <2>6, <2>7 DEF HistoryInv, history
<1>8. CASE Handle
  <2>1. /\ offered' = [r \in Requests |->
                         IF pc[r] \in Auth!Preparing THEN offered[r] \cup Cached' ELSE offered[r]]
        /\ kept' = [r \in Requests |->
                      IF pc[r] \in Auth!Preparing THEN kept[r] \cap Cached' ELSE kept[r]]
        /\ UNCHANGED <<pc, groups, desired>>
    BY <1>8 DEF Handle, logins
  <2>2. \A r \in Requests :
          /\ reader'[r].next = reader[r].next
          /\ Elements(reader'[r].slice) \subseteq Elements(reader[r].slice) \cup Cached'
          /\ Elements(reader[r].slice) \cap Cached \cap Cached' \subseteq Elements(reader'[r].slice)
    <3>1. ServiceP!HandleAdd \/ ServiceP!HandleUpdate \/ ServiceP!HandleDelete
      BY <1>8, SameService DEF Handle
    <3>2. ServiceP!ToSet(cache) = Cached /\ ServiceP!ToSet(cache') = Cached'
      BY DEF ServiceP!ToSet, Cached
    <3>3. ServiceP!IInv
      BY DEF CacheOK
    <3> QED
      BY <3>1, <3>2, <3>3, ElementsOf, ServiceAssumptions, ServiceP!HandlersWrite
  <2>3. ASSUME NEW r \in Requests PROVE Prepares(r)' /\ WalksPrepared(r)' /\ Learnt(r)'
    <3>1. WalksPrepared(r)'
      BY <1>0, <2>1, <2>2 DEF WalksPrepared
    <3>2. Prepares(r)'
      BY <1>0, <2>1, <2>2 DEF Prepares, Auth!Preparing
    <3>3. Learnt(r)'
      <4>1. CASE pc[r] \in Auth!Preparing \cup Auth!Resting
        BY <2>1, <4>1 DEF Learnt, Auth!Preparing, Auth!Resting
      <4>2. CASE pc[r] \notin Auth!Preparing \cup Auth!Resting
        <5>1. PICK read \in SUBSET offered[r] :
                kept[r] \subseteq read /\ desired[r] = Auth!Tasks(Read(read), groups[r])
          BY <1>0, <4>2 DEF Learnt
        <5>2. offered'[r] = offered[r] /\ kept'[r] = kept[r]
          BY <2>1, <4>2
        <5>3. desired'[r] = Auth!Tasks(Read(read), groups'[r])
          BY <2>1, <5>1
        <5> QED
          BY <5>1, <5>2, <5>3 DEF Learnt
      <4> QED
        BY <4>1, <4>2
    <3> QED
      BY <3>1, <3>2, <3>3
  <2> QED
    BY <1>0, <2>1, <2>3 DEF HistoryInv
<1>9. CASE Restart \/ HandleTombstone
  <2>1. /\ \A r \in Requests : pc'[r] \in Auth!Resting /\ reader'[r].next = 0
        /\ offered' = [r \in Requests |-> {}] /\ kept' = [r \in Requests |-> {}]
    BY <1>9 DEF Restart, HandleTombstone, LoginsEnd, Service!Restart, Service!HandleTombstone,
                Service!ProcessEnds, Service!NoWalk, Auth!Resting
  <2>2. ASSUME NEW r \in Requests PROVE Prepares(r)' /\ WalksPrepared(r)' /\ Learnt(r)'
    BY <2>1 DEF Prepares, WalksPrepared, Learnt, Auth!Preparing, Auth!Resting
  <2> QED
    BY <2>1, <2>2 DEF HistoryInv
<1> QED
  BY <1>3, <1>4, <1>5, <1>6, <1>7, <1>8, <1>9 DEF Next, LoginStep

-----------------------------------------------------------------------------
(* The logins of the program are AuthService's: what a walk reads is one   *)
(* of the sets of LdapGroupBindings, and the handlers turn the cache.      *)

LEMMA ReadSubset == \A ps \in SUBSET Pointers : Read(ps) \in SUBSET Read(Pointers)
BY DEF Read

LEMMA LoginSteps ==
  CacheOK /\ CacheOK' /\ HistoryInv /\ [Next]_vars => [AuthP!OpenNext]_(AuthP!vars)
<1> SUFFICES ASSUME CacheOK, CacheOK', HistoryInv, [Next]_vars
             PROVE  [AuthP!OpenNext]_(AuthP!vars)
  OBVIOUS
<1> USE SameAuth
<1>1. UNCHANGED <<logins, cache>> => UNCHANGED AuthP!vars
  BY DEF logins, Cached, AuthP!vars, AuthP!store, AuthP!world, AuthP!locals, AuthP!budget
<1>2. CASE UNCHANGED vars \/ Relist \/ WatchDelivers \/ WatchLost \/ (\E n \in Names : ObjectChanges(n))
           \/ \E r \in Requests : TakeSlice(r) \/ WalkOn(r)
  <2>1. UNCHANGED <<logins, cache>>
    BY <1>2 DEF vars, logins, lgbs, Relist, WatchDelivers, WatchLost, ObjectChanges, TakeSlice, WalkOn,
                Service!Relist, Service!WatchDelivers, Service!WatchLost, Service!ObjectChanges,
                Service!GetBindings, Service!ReadNext
  <2> QED
    BY <1>1, <2>1
<1>3. CASE \E r \in Requests, u \in Users : Arrive(r, u)
  BY <1>3 DEF Arrive, AuthP!OpenNext, AuthP!Next
<1>4. CASE \E r \in Requests : Call(r)
  BY <1>4 DEF Call, AuthP!OpenNext, AuthP!Next, AuthP!LoginStep
<1>5. ASSUME NEW r \in Requests, EndWalk(r) PROVE AuthP!OpenNext
  <2> DEFINE read == Elements(reader[r].slice)
  <2>1. Auth!Learn(r, Read(read))
    BY <1>5 DEF EndWalk, Elements
  <2>2. read \in SUBSET Pointers
    <3>1. pc[r] = "getBindings" /\ reader[r].next # 0
      <4>1. Len(reader[r].slice) \in Nat
        BY DEF CacheOK, ServiceP!IInv, ServiceP!TypeOK, ServiceP!Walk
      <4> QED
        BY <1>5, <4>1 DEF EndWalk, Service!EndWalk, Auth!Learn
    <3>2. read \subseteq offered[r] /\ offered[r] \subseteq Pointers
      BY <3>1 DEF HistoryInv, Prepares, Auth!Preparing
    <3> QED
      BY <3>2
  <2> HIDE DEF read
  <2>3. Read(read) \in SUBSET Read(Pointers) /\ AuthP!Learn(r, Read(read))
    BY <2>1, <2>2, ReadSubset
  <2> QED
    BY <2>3 DEF AuthP!OpenNext, AuthP!LearnFrom
<1>6. Read(Cached') \in SUBSET Read(Pointers)
  <2>1. (Cached \subseteq Pointers)'
    BY CachedFits, PTL
  <2> QED
    BY <2>1, ReadSubset DEF Pointers
<1>7. CASE Handle
  <2>1. UNCHANGED logins
    BY <1>7 DEF Handle
  <2>2. [p \in {Process} |-> Read(Cached)]' \in [{Process} -> SUBSET Read(Pointers)]
    BY <1>6
  <2> QED
    BY <2>1, <2>2 DEF logins, AuthP!OpenNext, AuthP!CacheTurns, AuthP!store, AuthP!locals, AuthP!budget
<1>8. CASE Restart \/ HandleTombstone
  <2>1. LoginsEnd
    BY <1>8 DEF Restart, HandleTombstone
  <2>2. [p \in {Process} |-> Read(Cached)]' \in [{Process} -> SUBSET Read(Pointers)]
    BY <1>6
  <2> QED
    BY <2>1, <2>2 DEF LoginsEnd, AuthP!OpenNext, AuthP!LoginsLost, AuthP!store, AuthP!budget
<1> QED
  BY <1>2, <1>3, <1>4, <1>5, <1>7, <1>8 DEF Next, LoginStep

-----------------------------------------------------------------------------
(* The inductive invariant of the program. *)

ProgramInv ==
  CacheOK /\ HistoryInv /\ AuthP!IInv /\ AuthP!OwnInv /\ AuthP!ExactInv

LEMMA InitProgram == Init => ProgramInv
BY InitCacheOK, InitHistory, SameAuth, AuthAssumptions, AuthP!InitIInv, AuthP!InitOwnInv, AuthP!InitExactInv
   DEF Init, ProgramInv

LEMMA NextProgram ==
  ASSUME Auth!OneNamespacePerRole
  PROVE  ProgramInv /\ [Next]_vars => ProgramInv'
<1> SUFFICES ASSUME ProgramInv, [Next]_vars PROVE ProgramInv'
  OBVIOUS
<1>1. CacheOK' /\ HistoryInv'
  BY NextCacheOK, NextHistory DEF ProgramInv
<1>2. [AuthP!OpenNext]_(AuthP!vars)
  BY <1>1, LoginSteps DEF ProgramInv
<1>3. AuthP!IInv' /\ AuthP!OwnInv'
  BY <1>2, AuthAssumptions, AuthP!NextIInv, AuthP!NextOwnInv DEF ProgramInv
<1>4. AuthP!ExactInv'
  BY <1>2, <1>3, SameAuth, AuthAssumptions, AuthP!NextExactInv DEF ProgramInv
<1> QED
  BY <1>1, <1>3, <1>4 DEF ProgramInv

-----------------------------------------------------------------------------
(* What is asked for grows with the LdapGroupBindings there are.           *)
LEMMA AskedForGrows ==
  ASSUME NEW u, NEW gs, NEW ps, NEW more, ps \subseteq more
  PROVE  AskedFor(u, gs, ps) \subseteq AskedFor(u, gs, more)
<1>1. Read(ps) \subseteq Read(more)
  BY DEF Read
<1>2. Auth!Tasks(Read(ps), gs) \subseteq Auth!Tasks(Read(more), gs)
  BY <1>1 DEF Auth!Tasks
<1> QED
  BY <1>2 DEF AskedFor, Auth!TaskKeys

LEMMA InvTokens == ProgramInv => TokensReflectBindings
<1> SUFFICES ASSUME ProgramInv, NEW r \in Requests, Auth!Reconciled(r), undisturbed[r]
             PROVE  /\ AskedFor(user[r], groups[r], kept[r]) \subseteq Auth!Managed(user[r])
                    /\ Auth!Managed(user[r]) \subseteq AskedFor(user[r], groups[r], offered[r])
  BY DEF TokensReflectBindings
<1>1. pc[r] = "reconcile"
  BY DEF Auth!Reconciled
<1>2. user[r] \in Users
  BY <1>1 DEF ProgramInv, AuthP!IInv, AuthP!LoginInv, AuthP!Asked, AuthP!Resting
<1>3. Auth!Managed(user[r]) = Auth!TaskKeys(user[r], desired[r])
  <2>1. AuthP!ExactBindings
    BY AuthAssumptions, AuthP!InvExact DEF ProgramInv
  <2>2. AuthP!Reconciled(r)
    BY SameAuth
  <2>3. AuthP!Managed(user[r]) = AuthP!TaskKeys(user[r], desired[r])
    BY <2>1, <2>2 DEF AuthP!ExactBindings
  <2> QED
    BY <1>2, <2>3, SameAuth
<1>4. PICK read \in SUBSET offered[r] :
        kept[r] \subseteq read /\ desired[r] = Auth!Tasks(Read(read), groups[r])
  BY <1>1 DEF ProgramInv, HistoryInv, Learnt, Auth!Preparing, Auth!Resting
<1>5. Auth!Managed(user[r]) = AskedFor(user[r], groups[r], read)
  BY <1>3, <1>4 DEF AskedFor
<1> QED
  BY <1>4, <1>5, AskedForGrows

(***************************************************************************)
(* A token is issued to an account that has every binding that was asked   *)
(* for all the time its login prepared, and none that never was: for any   *)
(* LdapGroupBindings, any logins that overlap with each other and with the *)
(* informer's handlers, lost watches and restarts, as long as no           *)
(* LdapGroupBinding, over its edits, lists one Role in two namespaces.     *)
(***************************************************************************)
THEOREM Tokens ==
  ASSUME Auth!OneNamespacePerRole
  PROVE  Spec => []TokensReflectBindings
<1>1. Init => ProgramInv
  BY InitProgram
<1>2. ProgramInv /\ [Next]_vars => ProgramInv'
  BY NextProgram
<1>3. ProgramInv => TokensReflectBindings
  BY InvTokens
<1> QED
  BY <1>1, <1>2, <1>3, PTL DEF Spec

(***************************************************************************)
(* The logins do not get in the cache's way: whatever they do between      *)
(* GetBindings and the end of its loop, the program implements             *)
(* BindingCache.                                                           *)
(***************************************************************************)
THEOREM ImplementsCache == Spec => Service!Spec
<1>1. Init => Service!Init
  BY DEF Init
<1> QED
  BY <1>1, CacheSteps, PTL DEF Spec, Service!Spec

(***************************************************************************)
(* In the program too, the notifications onAdd, onUpdate and onDelete have *)
(* still to handle lead from svc.cache to the informer's store, and no     *)
(* login's walk misses a binding that was cached when it called            *)
(* GetBindings.                                                            *)
(***************************************************************************)
THEOREM CacheInProgram == Spec => [](Service!CacheMirrors /\ Service!WalksMissNothing)
<1>1. CacheOK => Service!CacheMirrors /\ Service!WalksMissNothing
  <2> SUFFICES ASSUME CacheOK PROVE Service!CacheMirrors /\ Service!WalksMissNothing
    OBVIOUS
  <2>1. ServiceP!CacheMirrors /\ ServiceP!WalksMissNothing
    BY ServiceAssumptions, ServiceP!IInvMirrors DEF CacheOK, ServiceP!IInv
  <2>2. Service!CacheMirrors <=> ServiceP!CacheMirrors
    BY DEF Service!CacheMirrors, ServiceP!CacheMirrors, Service!Cached, ServiceP!Cached,
           Service!Queued, ServiceP!Queued, Service!Positions, ServiceP!Positions
  <2>3. Service!WalksMissNothing <=> ServiceP!WalksMissNothing
    BY DEF Service!WalksMissNothing, ServiceP!WalksMissNothing
  <2> QED
    BY <2>1, <2>2, <2>3
<1> QED
  BY <1>1, InitCacheOK, NextCacheOK, PTL DEF Spec

(***************************************************************************)
(* The program's logins are AuthService's, with a cache that turns as the  *)
(* handlers write it and walks that may mix its states: what is proved of  *)
(* AuthService as a part of a program is true of this one.                 *)
(***************************************************************************)
THEOREM ImplementsLogins == Spec => AuthP!Init /\ [][AuthP!OpenNext]_(AuthP!vars)
<1> DEFINE Inv == CacheOK /\ HistoryInv /\ AuthP!IInv
<1>1. Init => Inv /\ AuthP!Init
  BY InitProgram, SameAuth DEF Init, ProgramInv
<1>2. Inv /\ [Next]_vars => Inv' /\ [AuthP!OpenNext]_(AuthP!vars)
  <2> SUFFICES ASSUME Inv, [Next]_vars PROVE Inv' /\ [AuthP!OpenNext]_(AuthP!vars)
    OBVIOUS
  <2>1. CacheOK' /\ HistoryInv'
    BY NextCacheOK, NextHistory
  <2>2. [AuthP!OpenNext]_(AuthP!vars)
    BY <2>1, LoginSteps
  <2>3. AuthP!IInv'
    BY <2>2, AuthAssumptions, AuthP!NextIInv
  <2> QED
    BY <2>1, <2>2, <2>3
<1> QED
  BY <1>1, <1>2, PTL DEF Spec

=============================================================================
